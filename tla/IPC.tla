--------------------------------- MODULE IPC ---------------------------------
(***************************************************************************)
(* One direction of an IPC channel (ipc.cpp): the frames that              *)
(* send_message() writes to a non-blocking stream socket and that          *)
(* receive_message() cuts out of the bytes it has read.  A frame is the    *)
(* length of the payload in HeaderSize bytes, followed by the payload.     *)
(*                                                                         *)
(* sendBuf    send_buffer_ of the sending end                              *)
(* flushing   the sending end is inside send_message()'s loop              *)
(* socket     the bytes in the socket                                      *)
(* recvBuf    recv_buffer_ of the receiving end                            *)
(* open       fd_ of each end is valid                                     *)
(* sent, got  auxiliary: the messages passed to send_message() and those   *)
(*            returned by receive_message()                                *)
(* ends       auxiliary: where in the stream each frame ends               *)
(***************************************************************************)
EXTENDS Integers, Sequences, FiniteSets

CONSTANTS
    Messages,
    Byte,
    Serialize,     \* [Messages -> Seq(Byte)], the protocol's Serialize()
    HeaderSize,    \* sizeof(uint32_t)
    MaxSize,       \* UINT32_MAX
    Htonl,         \* [0 .. MaxSize -> headers], htonl() and the bytes of its result
    Capacity,      \* of the socket's buffer
    MaxSent        \* bound on the messages sent

Header == [1 .. HeaderSize -> Byte]

ASSUME IPCAssumption ==
    /\ HeaderSize \in Nat \ {0}
    /\ MaxSize \in Nat /\ Capacity \in Nat \ {0} /\ MaxSent \in Nat
    /\ Serialize \in [Messages -> Seq(Byte)]
    /\ \A m \in Messages : Len(Serialize[m]) <= MaxSize
    /\ \A m, n \in Messages : Serialize[m] = Serialize[n] => m = n
    /\ Htonl \in [0 .. MaxSize -> Header]
    /\ \A k, n \in 0 .. MaxSize : Htonl[k] = Htonl[n] => k = n

VARIABLES sendBuf, flushing, socket, recvBuf, open, sent, got, ends

vars == <<sendBuf, flushing, socket, recvBuf, open, sent, got, ends>>

Ends == {"sender", "receiver"}

Init ==
    /\ sendBuf = << >> /\ socket = << >> /\ recvBuf = << >>
    /\ flushing = FALSE
    /\ open = [e \in Ends |-> TRUE]
    /\ sent = << >> /\ got = << >> /\ ends = << >>

TypeOK ==
    /\ sendBuf \in Seq(Byte) /\ socket \in Seq(Byte) /\ recvBuf \in Seq(Byte)
    /\ flushing \in BOOLEAN
    /\ open \in [Ends -> BOOLEAN]
    /\ sent \in Seq(Messages) /\ got \in Seq(Messages) /\ ends \in Seq(Nat)

-----------------------------------------------------------------------------
(* send_message() *)

Frame(m) == Htonl[Len(Serialize[m])] \o Serialize[m]

FrameSize(m) == HeaderSize + Len(Serialize[m])

\* Where the first i frames end.
End(i) == IF i = 0 THEN 0 ELSE ends[i]

\* The frame is queued behind what earlier calls could not write.
SendMessage(m) ==
    /\ open["sender"] /\ ~flushing
    /\ Len(sent) < MaxSent
    /\ sendBuf' = sendBuf \o Frame(m)
    /\ flushing' = TRUE
    /\ sent' = Append(sent, m)
    /\ ends' = Append(ends, End(Len(sent)) + FrameSize(m))
    /\ UNCHANGED <<socket, recvBuf, open, got>>

\* One send(): the socket takes some of the bytes it has room for.
Write(n) ==
    /\ flushing /\ open["receiver"]
    /\ n <= Len(sendBuf) /\ Len(socket) + n <= Capacity
    /\ socket' = socket \o SubSeq(sendBuf, 1, n)
    /\ sendBuf' = SubSeq(sendBuf, n + 1, Len(sendBuf))
    /\ UNCHANGED <<flushing, recvBuf, open, sent, got, ends>>

\* Everything is written and the call returns.
Flushed ==
    /\ flushing /\ sendBuf = << >>
    /\ flushing' = FALSE
    /\ UNCHANGED <<sendBuf, socket, recvBuf, open, sent, got, ends>>

\* Mutant: what the socket did not take is forgotten.
Forgotten == << >>

Retained == sendBuf

\* The socket is full: the call returns and leaves the rest to the next one.
WouldBlock ==
    /\ flushing /\ sendBuf # << >> /\ open["receiver"]
    /\ Len(socket) = Capacity
    /\ flushing' = FALSE
    /\ sendBuf' = Retained
    /\ UNCHANGED <<socket, recvBuf, open, sent, got, ends>>

\* The other end is closed: the call closes this one and throws.
WriteFails ==
    /\ flushing /\ sendBuf # << >> /\ ~open["receiver"]
    /\ open' = [open EXCEPT !["sender"] = FALSE]
    /\ flushing' = FALSE
    /\ UNCHANGED <<sendBuf, socket, recvBuf, sent, got, ends>>

-----------------------------------------------------------------------------
(* receive_message() *)

\* One recv() of the loop that drains the socket.
Read(n) ==
    /\ open["receiver"]
    /\ n <= Len(socket)
    /\ recvBuf' = recvBuf \o SubSeq(socket, 1, n)
    /\ socket' = SubSeq(socket, n + 1, Len(socket))
    /\ UNCHANGED <<sendBuf, flushing, open, sent, got, ends>>

\* ntohl() of the first bytes.
PayloadSize(buf) ==
    CHOOSE n \in 0 .. MaxSize : Htonl[n] = SubSeq(buf, 1, HeaderSize)

\* Mutant: the frame has to be followed by another byte.
IsExceeded(buf) ==
    /\ Len(buf) >= HeaderSize
    /\ Len(buf) > HeaderSize + PayloadSize(buf)

IsComplete(buf) ==
    /\ Len(buf) >= HeaderSize
    /\ Len(buf) >= HeaderSize + PayloadSize(buf)

Payload(buf) == SubSeq(buf, HeaderSize + 1, HeaderSize + PayloadSize(buf))

\* Mutant: the header stays in the buffer.
RestAndHeader(buf) == SubSeq(buf, PayloadSize(buf) + 1, Len(buf))

Rest(buf) == SubSeq(buf, HeaderSize + PayloadSize(buf) + 1, Len(buf))

Deserialized(p) == {m \in Messages : Serialize[m] = p}

\* The socket is drained, and the first frame in the buffer is returned.  A
\* payload that is no message is an exception, which ends the process.
ReceiveMessage ==
    /\ open["receiver"] /\ open["sender"] /\ socket = << >>
    /\ IsComplete(recvBuf)
    /\ recvBuf' = Rest(recvBuf)
    /\ LET found == Deserialized(Payload(recvBuf)) IN
          /\ got' = IF found = {} THEN got ELSE Append(got, CHOOSE m \in found : TRUE)
          /\ open' = [open EXCEPT !["receiver"] = found # {}]
    /\ UNCHANGED <<sendBuf, flushing, socket, sent, ends>>

\* The other end is closed and the socket drained: this end is closed and an
\* exception thrown before the buffer is looked at.
EndOfStream ==
    /\ open["receiver"] /\ ~open["sender"] /\ socket = << >>
    /\ open' = [open EXCEPT !["receiver"] = FALSE]
    /\ UNCHANGED <<sendBuf, flushing, socket, recvBuf, sent, got, ends>>

-----------------------------------------------------------------------------

\* The process of one end exits, at any point of its calls.
Exit(e) ==
    /\ open[e]
    /\ open' = [open EXCEPT ![e] = FALSE]
    /\ flushing' = (flushing /\ e # "sender")
    /\ UNCHANGED <<sendBuf, socket, recvBuf, sent, got, ends>>

SenderStep ==
    \/ \E n \in 1 .. Capacity : Write(n)
    \/ Flushed
    \/ WouldBlock
    \/ WriteFails

ReceiverStep ==
    \/ \E n \in 1 .. Capacity : Read(n)
    \/ ReceiveMessage
    \/ EndOfStream

Next ==
    \/ \E m \in Messages : SendMessage(m)
    \/ SenderStep
    \/ ReceiverStep
    \/ \E e \in Ends : Exit(e)

Spec == Init /\ [][Next]_vars

\* A call that has begun goes on, and run_once() calls receive_message() again
\* and again.  Nobody is bound to send another message.
FairSpec == Spec /\ WF_vars(SenderStep) /\ WF_vars(ReceiverStep)

-----------------------------------------------------------------------------
(* Properties. *)

Stream == (recvBuf \o socket) \o sendBuf

\* However the socket splits the frames, the buffers and the socket together
\* hold exactly the frames of the messages that were sent and not returned yet,
\* in order: no byte is lost, sent twice or left over between two frames.
StreamWhole ==
    /\ Len(Stream) = End(Len(sent)) - End(Len(got))
    /\ \A i \in Len(got) + 1 .. Len(sent), j \in 1 .. HeaderSize + MaxSize :
          j <= FrameSize(sent[i]) =>
              Stream[End(i - 1) - End(Len(got)) + j] = Frame(sent[i])[j]

\* The framing implements a queue of messages.
Queue == INSTANCE MessageQueue WITH
    queue <- SubSeq(sent, Len(got) + 1, Len(sent)),
    delivered <- got,
    broken <- ~(open["sender"] /\ open["receiver"])

ImplementsQueue == Queue!QueueSpec

\* A message that send_message() could write is returned by receive_message(),
\* unless an end is closed before.  (One that it could not write waits for the
\* next send_message(), which nothing guarantees.)
WrittenIsDelivered ==
    \A i \in 1 .. MaxSent :
        Len(sent) >= i /\ sendBuf = << >>
            ~> Len(got) >= i \/ ~open["sender"] \/ ~open["receiver"]

-----------------------------------------------------------------------------
(* The inductive invariant. *)

\* The frames follow each other without a gap.
FramesAdjoin ==
    /\ Len(ends) = Len(sent)
    /\ \A i \in 1 .. Len(sent) : End(i) = End(i - 1) + FrameSize(sent[i])
    /\ \A i, j \in 0 .. Len(sent) : i <= j => End(i) <= End(j)

IPCInv ==
    /\ TypeOK
    /\ flushing => open["sender"]
    /\ Len(got) <= Len(sent)
    /\ FramesAdjoin
    /\ StreamWhole
=============================================================================
