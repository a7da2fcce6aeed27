---------------------------- MODULE MessageQueue ----------------------------
(***************************************************************************)
(* What one direction of an IPC channel promises (ipc.hpp: "Provides       *)
(* reliable message stream"): messages are delivered whole, once and in    *)
(* the order in which they were sent, until the channel breaks.  Nothing   *)
(* is promised about the messages that are queued when it breaks.          *)
(***************************************************************************)
EXTENDS Sequences

CONSTANT Messages

VARIABLES
    queue,       \* sent and not delivered
    delivered,   \* what receive_message() has returned
    broken

queueVars == <<queue, delivered, broken>>

QueueInit ==
    /\ queue = << >>
    /\ delivered = << >>
    /\ broken = FALSE

SendMessage(m) ==
    /\ queue' = Append(queue, m)
    /\ UNCHANGED <<delivered, broken>>

DeliverMessage ==
    /\ ~broken
    /\ queue # << >>
    /\ queue' = Tail(queue)
    /\ delivered' = Append(delivered, Head(queue))
    /\ UNCHANGED broken

Break ==
    /\ broken' = TRUE
    /\ UNCHANGED <<queue, delivered>>

QueueNext ==
    \/ \E m \in Messages : SendMessage(m)
    \/ DeliverMessage
    \/ Break

QueueSpec == QueueInit /\ [][QueueNext]_queueVars
=============================================================================
