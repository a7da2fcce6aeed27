------------------------------- MODULE Mirror -------------------------------
(***************************************************************************)
(* How the processes of a server know each other's rooms: the updates that *)
(* Game::trigger_lobby_update() and ~Game broadcast, and the copies that   *)
(* process_ipc_event() keeps in external_games_ and updates.  One name of  *)
(* a room, of which the room in process Owner is the first bearer.         *)
(*                                                                         *)
(* game    the Game that each process has under the name, or NoGame        *)
(* listed  the processes that have it in external_games_                   *)
(* link    the messages between two processes, a MessageQueue each         *)
(* shown   auxiliary: what Owner published last                            *)
(* missed  auxiliary: the processes that dropped an update since they last *)
(*         applied one                                                     *)
(***************************************************************************)
EXTENDS Integers, Sequences, FiniteSets

CONSTANTS
    Parent, Children,
    Owner,
    NoGame,
    MaxRevision,   \* bound on the changes of the room
    MaxCount,      \* bound on its players
    MaxQueue       \* bound on the messages between two processes

Processes == {Parent} \cup Children
Neighbours(p) == IF p = Parent THEN Children ELSE {Parent}
Links == {l \in Processes \X Processes : l[2] \in Neighbours(l[1])}

ASSUME MirrorAssumption ==
    /\ Parent \notin Children
    /\ Owner \in Processes
    /\ MaxRevision \in Nat /\ MaxCount \in Nat

\* A value of the properties that only get_lobby_game_props() of the room
\* itself sends (a copy has no LobbyProperties), or its absence.
Custom == {"absent", "old", "new"}

\* open stands for the properties that a change of is published at once
\* (IsOpen, MaxPlayers), custom for those that LobbyProperties names, count for
\* what has no revision of its own: the players and the expected users.  A room
\* that is "configured" is being created, with the settings of the request.
Game == [stage : {"idle", "creating", "configured", "created"}, visible : BOOLEAN,
         open : BOOLEAN, custom : Custom, count : 0 .. MaxCount, revision : Nat]

Message == [code : {"update"}, room : Game] \cup [code : {"delete"}]

ASSUME NoGameAssumption == NoGame \notin Game

\* A room as the constructor leaves it.
NewGame == [stage |-> "idle", visible |-> TRUE, open |-> TRUE,
            custom |-> "absent", count |-> 0, revision |-> 0]

VARIABLES game, listed, link, shown, missed

vars == <<game, listed, link, shown, missed>>

TypeOK ==
    /\ game \in [Processes -> Game \cup {NoGame}]
    /\ listed \in SUBSET Processes
    /\ link \in [Links -> Seq(Message)]
    /\ shown \in Game \cup {NoGame}
    /\ missed \in SUBSET Processes

Init ==
    /\ game = [p \in Processes |-> IF p = Owner THEN NewGame ELSE NoGame]
    /\ listed = {} /\ missed = {}
    /\ link = [l \in Links |-> << >>]
    /\ shown = NoGame

-----------------------------------------------------------------------------

Room == game[Owner]

\* ipc_broadcast() from p to the neighbours in to.
Queued(lnk, p, to, m) ==
    [l \in Links |-> IF l[1] = p /\ l[2] \in to THEN Append(lnk[l], m) ELSE lnk[l]]

MayPublish == \A l \in Links : Len(link[l]) < MaxQueue

Update(r) == [code |-> "update", room |-> r]
Delete == [code |-> "delete"]

\* The room becomes r, and trigger_lobby_update().
Publish(r) ==
    /\ MayPublish
    /\ game' = [game EXCEPT ![Owner] = r]
    /\ link' = Queued(link, Owner, Neighbours(Owner), Update(r))
    /\ shown' = r
    /\ UNCHANGED <<listed, missed>>

\* The room becomes r, and nobody is told yet.
Keep(r) ==
    /\ game' = [game EXCEPT ![Owner] = r]
    /\ UNCHANGED <<listed, link, shown, missed>>

Alive == Room # NoGame

MayChange == Alive /\ Room.revision < MaxRevision

-----------------------------------------------------------------------------
(* The room. *)

\* try_begin_creation()
BeginCreation ==
    /\ MayChange /\ Room.stage = "idle"
    /\ Keep([Room EXCEPT !.stage = "creating", !.revision = @ + 1])

\* The settings of the request; MaxPlayers is among them.
Configure(open) ==
    /\ MayChange /\ Room.stage = "creating"
    /\ Keep([Room EXCEPT !.stage = "configured", !.open = open, !.revision = @ + 1])

\* The members can be added: the creator first, the others once it is done.
Admits == Room.stage = "created" \/ (Room.stage = "configured" /\ Room.count = 0)

\* add_peer()
Join ==
    /\ Alive /\ Admits /\ Room.count < MaxCount
    /\ Publish([Room EXCEPT !.count = @ + 1])

CommitCreation ==
    /\ MayChange /\ Room.stage = "configured" /\ Room.count = 1
    /\ Publish([Room EXCEPT !.stage = "created", !.revision = @ + 1])

\* abort_creation_transaction() gives the room back as it was.
AbortCreation ==
    /\ MayChange /\ Room.stage \in {"creating", "configured"}
    /\ Publish([NewGame EXCEPT !.revision = Room.revision + 1])

\* remove_peer() of a departure or a reverted join.
Leave ==
    /\ Alive /\ Room.stage = "created" /\ Room.count > 0
    /\ Publish([Room EXCEPT !.count = @ - 1])

\* insert_game_props() of the creator or of a member; custom properties are
\* replaced and never removed, and a change of them alone is not published.
SetProperties(open, visible, custom) ==
    LET r == [Room EXCEPT !.open = open, !.visible = visible, !.custom = custom,
                          !.revision = @ + 1]
    IN  /\ MayChange
        /\ Room.stage = "created" \/ (Room.stage = "configured" /\ Room.count = 1)
        /\ custom = Room.custom \/ custom # "absent"
        /\ IF Room.open # open \/ Room.visible # visible
           THEN Publish(r)
           ELSE custom # Room.custom /\ Keep(r)

\* ~Game
DeleteGame ==
    /\ MayPublish
    /\ Alive /\ Room.count = 0 /\ Room.stage \in {"idle", "created"}
    /\ game' = [game EXCEPT ![Owner] = NoGame]
    /\ link' = Queued(link, Owner, Neighbours(Owner), Delete)
    /\ UNCHANGED <<listed, shown, missed>>

-----------------------------------------------------------------------------
(* process_ipc_event() *)

\* The copy as it is before an update: create_game() makes one if need be.
Copy(p) == IF game[p] = NoGame THEN NewGame ELSE game[p]

\* Mutant: an update of the same revision is dropped too.
DropsEqual(p, r) == p \in listed /\ game[p].revision >= r.revision

\* An update is older than the copy.
Drops(p, r) == p \in listed /\ game[p].revision > r.revision

\* insert_game_props() counts a revision of its own if it changed something.
Applied(p, r) ==
    LET custom == IF r.custom = "absent" THEN Copy(p).custom ELSE r.custom
        changed == Copy(p).open # r.open \/ Copy(p).custom # custom
    IN  [r EXCEPT !.custom = custom, !.revision = IF changed THEN @ + 1 ELSE @]

\* Mutant: the settings are set before they are compared, too.
ForwardsNothing(p, r) == FALSE

\* Stage, visibility and count are set before insert_game_props() compares.
Forwards(p, r) == Copy(p).open # r.open

\* Mutant: an update is passed on to its sender too.
PassesAll(p, q) == Neighbours(p)

\* ipc_broadcast_skip_: what q sent is not sent back to it.
PassesTo(p, q) == Neighbours(p) \ {q}

\* A GameUpdate.  A copy announces no custom properties to the other neighbours.
ReceiveUpdate(l) ==
    LET q == l[1]
        p == l[2]
        r == Head(link[l]).room
        popped == [link EXCEPT ![l] = Tail(@)]
    IN  /\ link[l] # << >> /\ Head(link[l]).code = "update"
        /\ \/ /\ Drops(p, r)
              /\ missed' = missed \cup {p}
              /\ link' = popped
              /\ UNCHANGED <<game, listed>>
           \/ /\ ~Drops(p, r)
              /\ missed' = missed \ {p}
              /\ game' = [game EXCEPT ![p] = Applied(p, r)]
              /\ listed' = listed \cup {p}
              /\ link' = IF Forwards(p, r)
                         THEN Queued(popped, p, PassesTo(p, q),
                                     Update([Applied(p, r) EXCEPT !.custom = "absent"]))
                         ELSE popped
        /\ UNCHANGED shown

\* Mutant: a copy that somebody uses stays in the list.
DelistedUnused(p, used) == IF used THEN listed ELSE listed \ {p}

Delisted(p, used) == listed \ {p}

\* A GameDelete: a listed copy is given up.  It is deleted, and the other
\* neighbours are told, unless something uses it (the timer of a reservation).
ReceiveDelete(l, used) ==
    LET q == l[1]
        p == l[2]
        popped == [link EXCEPT ![l] = Tail(@)]
    IN  /\ link[l] # << >> /\ Head(link[l]).code = "delete"
        /\ IF p \in listed
           THEN /\ listed' = Delisted(p, used)
                /\ IF used
                   THEN link' = popped /\ UNCHANGED game
                   ELSE /\ link' = Queued(popped, p, PassesTo(p, q), Delete)
                        /\ game' = [game EXCEPT ![p] = NoGame]
           ELSE link' = popped /\ UNCHANGED <<game, listed>>
        /\ UNCHANGED <<shown, missed>>

\* The last use of a copy that is not listed ends, and ~Game tells everybody.
Release(p) ==
    /\ p # Owner /\ p \notin listed /\ game[p] # NoGame
    /\ game' = [game EXCEPT ![p] = NoGame]
    /\ link' = Queued(link, p, Neighbours(p), Delete)
    /\ UNCHANGED <<listed, shown, missed>>

-----------------------------------------------------------------------------

Receive(l) == ReceiveUpdate(l) \/ \E used \in BOOLEAN : ReceiveDelete(l, used)

Next ==
    \/ BeginCreation
    \/ \E open \in BOOLEAN : Configure(open)
    \/ \E open, visible \in BOOLEAN, custom \in Custom : SetProperties(open, visible, custom)
    \/ Join \/ Leave
    \/ CommitCreation \/ AbortCreation
    \/ DeleteGame
    \/ \E l \in Links : Receive(l)
    \/ \E p \in Processes : Release(p)

Spec == Init /\ [][Next]_vars

\* Each process receives its messages and runs its timers again and again.
FairSpec ==
    /\ Spec
    /\ \A l \in Links : WF_vars(Receive(l))
    /\ \A p \in Processes : WF_vars(Release(p))

-----------------------------------------------------------------------------
(* Properties. *)

Drained == \A l \in Links : link[l] = << >>

\* Copy c shows room r; what r does not say of the custom properties, c keeps.
Shows(c, r) ==
    /\ c.stage = r.stage /\ c.visible = r.visible /\ c.open = r.open
    /\ c.custom = r.custom \/ r.custom = "absent"

\* Once the messages are delivered, the neighbours of the process that has the
\* room show it as it was published last, although their copies count
\* revisions of their own: an update that is dropped for its revision can only
\* have changed the number of players.
MirrorCurrent ==
    Drained /\ Alive /\ shown # NoGame =>
        \A p \in Neighbours(Owner) :
            /\ p \in listed /\ game[p] # NoGame
            /\ Shows(game[p], shown)
            /\ game[p].count = shown.count \/ p \in missed

\* The other processes, which only the Parent tells, follow the properties it
\* announces.
PropertiesForwarded ==
    Drained /\ Alive /\ shown # NoGame =>
        \A p \in Processes \ {Owner} : Copy(p).open = shown.open

\* A process never takes its own room for another's: it would turn away the
\* players that were sent to it.
OwnRoomNotExternal == Owner \notin listed

\* A room that was deleted disappears from all processes.
DeletedEverywhere == ~Alive ~> listed = {}

-----------------------------------------------------------------------------
(* The inductive invariant behind MirrorCurrent and PropertiesForwarded,   *)
(* about a room that is alive.                                             *)

\* Room s was published after room r: it is newer, or only the count changed.
Follows(r, s) ==
    \/ r.revision < s.revision
    \/ r.revision = s.revision /\ Shows(r, s) /\ Shows(s, r)

\* A copy may count one revision more than the room it shows.
Overtakes(c, r) == c.revision = r.revision + 1 /\ Shows(c, r)

NoDeletes ==
    \A l \in Links : \A i \in 1 .. Len(link[l]) : link[l][i].code = "update"

\* A copy exists exactly where it is listed.
CopiesListed == \A p \in Processes \ {Owner} : p \in listed <=> game[p] # NoGame

\* What is not published yet has a revision of its own.
RoomPublished == shown # NoGame => Room = shown \/ shown.revision < Room.revision

\* The updates on the way from the room to a neighbour, in the order in which
\* they were published, follow the neighbour's copy and end with the last one.
RoomPath(p) ==
    LET q == link[<<Owner, p>>] IN
    /\ \A i \in 1 .. Len(q) - 1 : Follows(q[i].room, q[i + 1].room)
    /\ q # << >> => shown = q[Len(q)].room
    /\ p \in listed /\ q # << >> =>
          game[p].revision <= q[1].room.revision \/ Overtakes(game[p], q[1].room)
    /\ p \in listed /\ q = << >> =>
          /\ shown # NoGame
          /\ Shows(game[p], shown)
          /\ game[p].revision \in {shown.revision, shown.revision + 1}
          /\ game[p].count = shown.count \/ p \in missed
    /\ p \notin listed /\ q = << >> => shown = NoGame

\* The updates on the way from the Parent to another child are alternately open
\* and closed, each newer than the child's copy will be when it arrives.
ForwardPath(c) ==
    LET q == link[<<Parent, c>>] IN
    /\ \A i \in 1 .. Len(q) - 1 :
          /\ q[i].room.open # q[i + 1].room.open
          /\ q[i].room.revision < q[i + 1].room.revision
    /\ q # << >> =>
          /\ Copy(c).open # q[1].room.open
          /\ c \in listed => game[c].revision <= q[1].room.revision
          /\ q[Len(q)].room.open = Copy(Parent).open
          /\ q[Len(q)].room.revision <= Copy(Parent).revision
    /\ q = << >> =>
          /\ Copy(c).open = Copy(Parent).open
          /\ c \in listed => game[c].revision <= Copy(Parent).revision + 1

PathInv ==
    Alive =>
        /\ NoDeletes
        /\ CopiesListed
        /\ RoomPublished
        /\ \A p \in Neighbours(Owner) : RoomPath(p)
        /\ Owner # Parent => \A c \in Children \ {Owner} : ForwardPath(c)
=============================================================================
