-------------------------------- MODULE MCIPC --------------------------------
(* An instance of IPC for TLC: bytes of one bit, headers of two bytes,     *)
(* messages of one and of three bytes, and a socket that holds three.      *)
EXTENDS IPC, TLC

CONSTANTS short, long

Messages2 == {short, long}
Bits == 0 .. 1
BigEndian == [n \in 0 .. 3 |-> <<n \div 2, n % 2>>]
Serialize2 == (short :> <<1>>) @@ (long :> <<0, 1, 1>>)
=============================================================================
