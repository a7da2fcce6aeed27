------------------------------- MODULE MCLobby -------------------------------
(* An instance of Lobby for TLC. *)
EXTENDS Lobby

CONSTANTS g1, g2, x, l1, l2, c1

Games2 == {g1, g2}
Ids1 == {x}
Lobbies2 == {l1, l2}
Clients1 == {c1}
=============================================================================
