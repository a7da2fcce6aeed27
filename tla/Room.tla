-------------------------------- MODULE Room --------------------------------
(***************************************************************************)
(* The life of a created room as its players see it: who is in it and who  *)
(* its master is (remove_peer() in game.cpp, the ends of a join and        *)
(* HandleDisconnect() in handler_gameserver.cpp).  Admission is module     *)
(* GameServer's subject and a free choice here.  The room's properties and *)
(* events are added by RoomProperties and RoomEvents, which extend this    *)
(* module and its actions.                                                 *)
(*                                                                         *)
(* Every connection joins once and is named by its actor number.  Numbers  *)
(* are given in ascending order and nodes are appended to Game::peers, so  *)
(* the list's front is its smallest number (Game models the wrap).         *)
(*                                                                         *)
(* suppress   the room's flag SuppressRoomEvents: no Join, no Leave events *)
(* last       last_actor_id              peers    the members              *)
(* join[a]    the join of actor a: "joining" awaits OnJoinGame             *)
(* drop[a]    HandleDisconnect of a: "leaving" awaits OnLeave; wasMaster   *)
(*            is the comparison with the snapshot taken before the await   *)
(* master     master_actor                                                 *)
(* known[a]   the master that a's player was last told of, from the answer *)
(*            to its join until it is removed                              *)
(* unsettled  auxiliary: since the players were last told of the master,   *)
(*            some master's departure was not sure to be announced         *)
(***************************************************************************)
EXTENDS Naturals, FiniteSets

CONSTANTS
    MaxActor,           \* bound: joins in the life of the room
    AllowChangeMaster   \* allow_change_master of the application

ASSUME RoomAssumption == MaxActor \in Nat \ {0} /\ AllowChangeMaster \in BOOLEAN

VARIABLES suppress, last, peers, join, drop, master, known, unsettled

roomVars == <<suppress, last, peers, join, drop, master, known, unsettled>>

Actors == 1 .. MaxActor

Idle == [pc |-> "idle", wasMaster |-> FALSE]

\* The creator has joined; its actor number is 1 and so is master_actor.
RoomInit ==
    /\ suppress \in BOOLEAN
    /\ last = 1
    /\ peers = {1}
    /\ join = [a \in Actors |-> IF a = 1 THEN "joined" ELSE "absent"]
    /\ drop = [a \in Actors |-> Idle]
    /\ master = 1
    /\ known = [a \in Actors |-> IF a = 1 THEN 1 ELSE 0]
    /\ unsettled = FALSE

RoomTypeOK ==
    /\ suppress \in BOOLEAN
    /\ last \in Actors
    /\ peers \in SUBSET (1 .. last)
    /\ join \in [Actors -> {"absent", "joining", "joined", "refused"}]
    /\ drop \in [Actors -> [pc : {"idle", "leaving", "done"}, wasMaster : BOOLEAN]]
    /\ master \in 1 .. last
    /\ known \in [Actors -> 0 .. last]
    /\ unsettled \in BOOLEAN

\* A member whose join was answered.
Joined(a) == a \in peers /\ join[a] = "joined"

\* The connection of a is in use: it may send requests.
Connected(a) == a \in peers /\ drop[a].pc = "idle"

\* The departure of a, as master, will be announced with its successor: its join
\* was answered and HandleDisconnect, if it has begun, found a in the role.
Heralded(a) == join[a] = "joined" /\ (drop[a].pc = "leaving" => drop[a].wasMaster)

\* The role may have moved; told says whether an event names the master now.
Settle(told) == unsettled' = ((unsettled /\ ~told) \/ ~Heralded(master)')

-----------------------------------------------------------------------------
(* remove_peer() *)

FrontOf(s) == CHOOSE a \in s : \A b \in s : a <= b

\* Mutant: a departed master keeps the role.
MasterStays(a) == master

\* The master after a is removed: the front of the list takes over, and an
\* empty room keeps the number.
MasterWithout(a) ==
    IF a = master /\ a \in peers /\ peers \ {a} # {} THEN FrontOf(peers \ {a}) ELSE master

-----------------------------------------------------------------------------
(* Joins, after the admission. *)

\* Mutant: last_actor_id is not stored.
AdmitUnnumbered(a) ==
    /\ a = last + 1 /\ a \in Actors
    /\ peers' = peers \cup {a}
    /\ join' = [join EXCEPT ![a] = "joining"]
    /\ UNCHANGED <<suppress, last, drop, master, known, unsettled>>

\* The node is added and OnJoinGame asked.
AdmitMember(a) ==
    /\ a = last + 1 /\ a \in Actors
    /\ last' = a
    /\ peers' = peers \cup {a}
    /\ join' = [join EXCEPT ![a] = "joining"]
    /\ UNCHANGED <<suppress, drop, master, known, unsettled>>

\* OnJoinGame returned: the response, with the room's properties, tells the
\* joiner who the master is.
CompleteMember(a) ==
    /\ join[a] = "joining" /\ Connected(a)
    /\ join' = [join EXCEPT ![a] = "joined"]
    /\ known' = [known EXCEPT ![a] = master]
    /\ UNCHANGED <<suppress, last, peers, drop, master, unsettled>>

\* The plugin refused the join, or the connection was lost meanwhile: the node
\* goes without a Leave event.
RevertMember(a) ==
    /\ join[a] = "joining"
    /\ join' = [join EXCEPT ![a] = "refused"]
    /\ peers' = peers \ {a}
    /\ master' = MasterWithout(a)
    /\ UNCHANGED <<suppress, last, drop, known>>
    /\ Settle(FALSE)

-----------------------------------------------------------------------------
(* HandleDisconnect() *)

\* Up to the await of OnLeave.
BeginDropMember(a) ==
    /\ Connected(a)
    /\ drop' = [drop EXCEPT ![a] = [pc |-> "leaving", wasMaster |-> a = master]]
    /\ UNCHANGED <<suppress, last, peers, join, master, known, unsettled>>

\* Mutant: the Leave event names the master only if the role has not moved yet.
NamesMasterLate(wasMaster, a) == wasMaster /\ a = master'

\* Whether the Leave event of a carries MasterClientId.
NamesMaster(wasMaster, a) == wasMaster

\* The removal and the Leave event, which the remaining members receive.
Depart(a, wasMaster) ==
    LET told == ~suppress /\ NamesMaster(wasMaster, a) IN
    /\ drop' = [drop EXCEPT ![a] = [pc |-> "done", wasMaster |-> FALSE]]
    /\ peers' = peers \ {a}
    /\ master' = MasterWithout(a)
    /\ known' = [m \in Actors |->
                   IF m = a THEN 0
                   ELSE IF Joined(m) /\ told THEN master' ELSE known[m]]
    /\ UNCHANGED <<suppress, last, join>>
    /\ Settle(told)

FinishDropMember(a) ==
    /\ drop[a].pc = "leaving"
    /\ Depart(a, drop[a].wasMaster)

\* A client that has sent Leave (has_left_): OnLeave was asked then, and
\* HandleDisconnect runs without an await.
LeaveMember(a) ==
    /\ Connected(a)
    /\ Depart(a, a = master)

-----------------------------------------------------------------------------
(* MasterClientId, set by a player's SetProperties and published.  The     *)
(* event carries what was asked for, also when the application does not    *)
(* allow it; the player who asked has its answer.                          *)

SetMaster(m) ==
    /\ m \in 1 .. last
    /\ master' = IF AllowChangeMaster THEN m ELSE master
    /\ known' = [p \in Actors |-> IF Joined(p) THEN m ELSE known[p]]
    /\ UNCHANGED <<suppress, last, peers, join, drop>>
    /\ Settle(AllowChangeMaster)

-----------------------------------------------------------------------------

RoomNext ==
    \/ \E a \in Actors :
          \/ AdmitMember(a)
          \/ CompleteMember(a)
          \/ RevertMember(a)
          \/ BeginDropMember(a)
          \/ FinishDropMember(a)
          \/ LeaveMember(a)
          \/ SetMaster(a)

RoomSpec == RoomInit /\ [][RoomNext]_roomVars

-----------------------------------------------------------------------------
(* Properties. *)

\* In a room that announces departures, a player that is wrong about the master
\* believes in somebody who is gone, never in a member that does not have the
\* role; and it is wrong only after the role had passed to a member whose own
\* departure was not sure to be announced: one that HandleDisconnect had already
\* found not to be the master, or whose join was not answered.  The next event
\* that names a master puts everybody right.
MasterKnown ==
    AllowChangeMaster /\ ~suppress =>
        \A m \in Actors : Joined(m) =>
            known[m] = master \/ (unsettled /\ known[m] \notin peers)

\* A room that has its master among its members has one after each step, unless
\* it became empty or a player named somebody else.
MasterSucceeds ==
    [][(master \in peers /\ peers' # {} /\ peers' # peers) => master' \in peers']_roomVars

-----------------------------------------------------------------------------
(* The inductive invariant. *)

\* Numbers that were not given out have no join.
FreshAbsent == \A a \in Actors : a > last => join[a] = "absent"

\* The departure of the present master will be announced.
MasterSettled == ~unsettled => Heralded(master)

RoomInv ==
    /\ RoomTypeOK
    /\ FreshAbsent
    /\ MasterSettled
    /\ MasterKnown
=============================================================================
