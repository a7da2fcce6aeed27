---------------------------- MODULE MirrorProofs ----------------------------
(***************************************************************************)
(* That a process never takes its own room for one of another process, and *)
(* that the copies are those of the room that was published last, whatever *)
(* the number of processes and wherever the room is, for any revisions and *)
(* any number of messages on their way.                                    *)
(***************************************************************************)
EXTENDS Mirror, TLAPS

\* The updates travel away from the room: they leave its process or the
\* Parent, and none is on its way to the process of the room.
UpdatesLeave ==
    \A l \in Links : \A i \in 1 .. Len(link[l]) :
        link[l][i].code = "update" => l[2] # Owner /\ l[1] \in {Owner, Parent}

MirrorInv == TypeOK /\ UpdatesLeave /\ OwnRoomNotExternal

-----------------------------------------------------------------------------

\* The processes are a star around the Parent.
LEMMA LinksOfStar ==
    ASSUME NEW l \in Links
    PROVE  /\ l[1] \in Processes /\ l[2] \in Processes
           /\ l[2] \in Neighbours(l[1])
           /\ l = <<l[1], l[2]>>
           /\ l[1] # l[2]
           /\ l[1] = Parent \/ l[2] = Parent
BY MirrorAssumption DEF Links, Processes, Neighbours

LEMMA NewGameType == NewGame \in Game
BY MirrorAssumption DEF NewGame, Game, Custom

\* A room of a later revision: its stage, its settings or its properties.
LEMMA StagedType ==
    ASSUME NEW r \in Game, NEW stage \in {"idle", "creating", "configured", "created"}
    PROVE  [r EXCEPT !.stage = stage, !.revision = @ + 1] \in Game
<1>1. PICK n \in Nat : n = r.revision + 1
  BY DEF Game
<1>2. [r EXCEPT !.stage = stage, !.revision = n] \in Game
  BY DEF Game
<1>3. [r EXCEPT !.stage = stage, !.revision = @ + 1] = [r EXCEPT !.stage = stage, !.revision = n]
  BY <1>1 DEF Game
<1>. QED BY <1>2, <1>3

LEMMA ConfiguredType ==
    ASSUME NEW r \in Game, NEW open \in BOOLEAN
    PROVE  [r EXCEPT !.stage = "configured", !.open = open, !.revision = @ + 1] \in Game
<1>1. PICK n \in Nat : n = r.revision + 1
  BY DEF Game
<1>2. [r EXCEPT !.stage = "configured", !.open = open, !.revision = n] \in Game
  BY DEF Game
<1>3. [r EXCEPT !.stage = "configured", !.open = open, !.revision = @ + 1]
        = [r EXCEPT !.stage = "configured", !.open = open, !.revision = n]
  BY <1>1 DEF Game
<1>. QED BY <1>2, <1>3

LEMMA PropertiesType ==
    ASSUME NEW r \in Game, NEW open \in BOOLEAN, NEW visible \in BOOLEAN, NEW custom \in Custom
    PROVE  [r EXCEPT !.open = open, !.visible = visible, !.custom = custom,
                     !.revision = @ + 1] \in Game
<1>1. PICK n \in Nat : n = r.revision + 1
  BY DEF Game
<1>2. [r EXCEPT !.open = open, !.visible = visible, !.custom = custom, !.revision = n] \in Game
  BY DEF Game
<1>3. [r EXCEPT !.open = open, !.visible = visible, !.custom = custom, !.revision = @ + 1]
        = [r EXCEPT !.open = open, !.visible = visible, !.custom = custom, !.revision = n]
  BY <1>1 DEF Game
<1>. QED BY <1>2, <1>3

LEMMA MessageTypes ==
    /\ \A r \in Game : Update(r) \in Message
    /\ Delete \in Message
BY DEF Update, Delete, Message

\* What ipc_broadcast() does to the links.
LEMMA QueuedType ==
    ASSUME NEW lnk \in [Links -> Seq(Message)], NEW p, NEW to, NEW m \in Message
    PROVE  Queued(lnk, p, to, m) \in [Links -> Seq(Message)]
BY DEF Queued

LEMMA QueuedMessages ==
    ASSUME NEW lnk \in [Links -> Seq(Message)], NEW p, NEW to, NEW m \in Message,
           NEW l \in Links, NEW i \in 1 .. Len(Queued(lnk, p, to, m)[l])
    PROVE  \/ i \in 1 .. Len(lnk[l]) /\ Queued(lnk, p, to, m)[l][i] = lnk[l][i]
           \/ l[1] = p /\ l[2] \in to /\ Queued(lnk, p, to, m)[l][i] = m
<1>1. lnk[l] \in Seq(Message)
  OBVIOUS
<1>2. CASE l[1] = p /\ l[2] \in to
  <2>1. Queued(lnk, p, to, m)[l] = Append(lnk[l], m)
    BY <1>2 DEF Queued
  <2>. QED BY <1>1, <1>2, <2>1
<1>3. CASE ~(l[1] = p /\ l[2] \in to)
  BY <1>3 DEF Queued
<1>. QED BY <1>2, <1>3

\* The first message of a link is taken.
LEMMA PoppedType ==
    ASSUME NEW lnk \in [Links -> Seq(Message)], NEW k \in Links, lnk[k] # << >>
    PROVE  /\ [lnk EXCEPT ![k] = Tail(@)] \in [Links -> Seq(Message)]
           /\ Head(lnk[k]) \in Message
OBVIOUS

LEMMA PoppedMessages ==
    ASSUME NEW lnk \in [Links -> Seq(Message)], NEW k \in Links, lnk[k] # << >>,
           NEW l \in Links, NEW i \in 1 .. Len([lnk EXCEPT ![k] = Tail(@)][l])
    PROVE  \E j \in 1 .. Len(lnk[l]) : [lnk EXCEPT ![k] = Tail(@)][l][i] = lnk[l][j]
<1>1. lnk[l] \in Seq(Message)
  OBVIOUS
<1>2. CASE l = k
  <2>1. [lnk EXCEPT ![k] = Tail(@)][l] = Tail(lnk[l])
    BY <1>2
  <2>2. i + 1 \in 1 .. Len(lnk[l]) /\ Tail(lnk[l])[i] = lnk[l][i + 1]
    BY <1>1, <1>2, <2>1
  <2>. QED BY <2>1, <2>2
<1>3. CASE l # k
  BY <1>3
<1>. QED BY <1>2, <1>3

\* A first message that is an update comes from the Owner or the Parent.
LEMMA HeadIsMessage ==
    ASSUME TypeOK, UpdatesLeave, NEW l \in Links, link[l] # << >>,
           Head(link[l]).code = "update"
    PROVE  /\ Head(link[l]).room \in Game
           /\ l[2] # Owner /\ l[1] \in {Owner, Parent}
<1>1. link[l] \in Seq(Message)
  BY DEF TypeOK
<1>2. Head(link[l]) = link[l][1] /\ 1 \in 1 .. Len(link[l])
  BY <1>1
<1>3. Head(link[l]) \in Message
  BY <1>1
<1>4. Head(link[l]).room \in Game
  BY <1>3 DEF Message
<1>. QED BY <1>2, <1>4 DEF UpdatesLeave

-----------------------------------------------------------------------------
(* The steps that only change the room, or publish it. *)

LEMMA Publishes ==
    ASSUME MirrorInv, NEW r \in Game, Publish(r)
    PROVE  MirrorInv'
<1>. USE MirrorAssumption
<1>1. link \in [Links -> Seq(Message)] /\ Update(r) \in Message
  BY MessageTypes DEF MirrorInv, TypeOK
<1>2. TypeOK'
  BY <1>1, QueuedType DEF MirrorInv, TypeOK, Publish
<1>3. UpdatesLeave'
  <2>. SUFFICES ASSUME NEW l \in Links, NEW i \in 1 .. Len(link'[l]), link'[l][i].code = "update"
               PROVE  l[2] # Owner /\ l[1] \in {Owner, Parent}
    BY DEF UpdatesLeave
  <2>1. link' = Queued(link, Owner, Neighbours(Owner), Update(r))
    BY DEF Publish
  <2>2. \/ i \in 1 .. Len(link[l]) /\ link'[l][i] = link[l][i]
        \/ l[1] = Owner
    BY <1>1, <2>1, QueuedMessages
  <2>. QED BY <2>2, LinksOfStar DEF MirrorInv, UpdatesLeave
<1>. QED BY <1>2, <1>3 DEF MirrorInv, OwnRoomNotExternal, Publish

LEMMA Keeps ==
    ASSUME MirrorInv, NEW r \in Game, Keep(r)
    PROVE  MirrorInv'
BY MirrorAssumption DEF MirrorInv, TypeOK, UpdatesLeave, OwnRoomNotExternal, Keep

\* A step that sends nothing but a Delete, and lists no process.
LEMMA Deletes ==
    ASSUME MirrorInv, NEW lnk \in [Links -> Seq(Message)], NEW p, NEW to,
           \A l \in Links : \A i \in 1 .. Len(lnk[l]) :
               \E j \in 1 .. Len(link[l]) : lnk[l][i] = link[l][j],
           link' = Queued(lnk, p, to, Delete)
    PROVE  link' \in [Links -> Seq(Message)] /\ UpdatesLeave'
<1>1. Delete \in Message
  BY MessageTypes
<1>2. link' \in [Links -> Seq(Message)]
  BY <1>1, QueuedType
<1>3. UpdatesLeave'
  <2>. SUFFICES ASSUME NEW l \in Links, NEW i \in 1 .. Len(link'[l]), link'[l][i].code = "update"
               PROVE  l[2] # Owner /\ l[1] \in {Owner, Parent}
    BY DEF UpdatesLeave
  <2>1. \/ i \in 1 .. Len(lnk[l]) /\ link'[l][i] = lnk[l][i]
        \/ link'[l][i] = Delete
    BY <1>1, QueuedMessages
  <2>2. Delete.code # "update"
    BY DEF Delete
  <2>3. i \in 1 .. Len(lnk[l]) /\ lnk[l][i].code = "update"
    BY <2>1, <2>2
  <2>4. PICK j \in 1 .. Len(link[l]) : lnk[l][i] = link[l][j]
    BY <2>3
  <2>. QED BY <2>3, <2>4 DEF MirrorInv, UpdatesLeave
<1>. QED BY <1>2, <1>3

\* A step that only takes the first message of a link.
LEMMA Pops ==
    ASSUME MirrorInv, NEW k \in Links, link[k] # << >>,
           link' = [link EXCEPT ![k] = Tail(@)]
    PROVE  link' \in [Links -> Seq(Message)] /\ UpdatesLeave'
<1>1. link \in [Links -> Seq(Message)]
  BY DEF MirrorInv, TypeOK
<1>2. link' \in [Links -> Seq(Message)]
  BY <1>1, PoppedType
<1>3. UpdatesLeave'
  <2>. SUFFICES ASSUME NEW l \in Links, NEW i \in 1 .. Len(link'[l]), link'[l][i].code = "update"
               PROVE  l[2] # Owner /\ l[1] \in {Owner, Parent}
    BY DEF UpdatesLeave
  <2>1. PICK j \in 1 .. Len(link[l]) : link'[l][i] = link[l][j]
    BY <1>1, PoppedMessages
  <2>. QED BY <2>1 DEF MirrorInv, UpdatesLeave
<1>. QED BY <1>2, <1>3

-----------------------------------------------------------------------------

LEMMA CopyType ==
    ASSUME TypeOK, NEW p \in Processes
    PROVE  Copy(p) \in Game
BY NewGameType DEF TypeOK, Copy

LEMMA AppliedType ==
    ASSUME TypeOK, NEW p \in Processes, NEW r \in Game
    PROVE  /\ Applied(p, r) \in Game
           /\ [Applied(p, r) EXCEPT !.custom = "absent"] \in Game
<1>1. Copy(p) \in Game
  BY CopyType
<1>2. Applied(p, r) \in Game
  <2>1. PICK custom \in Custom :
            custom = IF r.custom = "absent" THEN Copy(p).custom ELSE r.custom
    BY <1>1 DEF Game
  <2>2. PICK n \in Nat : n = IF Copy(p).open # r.open \/ Copy(p).custom # custom
                            THEN r.revision + 1 ELSE r.revision
    BY DEF Game
  <2>3. [r EXCEPT !.custom = custom, !.revision = n] \in Game
    BY DEF Game
  <2>4. Applied(p, r) = [r EXCEPT !.custom = custom, !.revision = n]
    BY <2>1, <2>2 DEF Applied, Game
  <2>. QED BY <2>3, <2>4
<1>. QED BY <1>2 DEF Game, Custom

LEMMA InitMirror == Init => MirrorInv
<1>. SUFFICES ASSUME Init PROVE MirrorInv
  OBVIOUS
<1>1. TypeOK
  BY NewGameType, MirrorAssumption DEF Init, TypeOK
<1>2. UpdatesLeave
  BY DEF Init, UpdatesLeave
<1>. QED BY <1>1, <1>2 DEF MirrorInv, OwnRoomNotExternal, Init

LEMMA ReceivesUpdate ==
    ASSUME MirrorInv, NEW k \in Links, ReceiveUpdate(k)
    PROVE  MirrorInv'
<1>. DEFINE q == k[1]
            p == k[2]
            r == Head(link[k]).room
            popped == [link EXCEPT ![k] = Tail(@)]
<1>1. /\ link[k] # << >> /\ Head(link[k]).code = "update"
      /\ shown' = shown
  BY DEF ReceiveUpdate
<1>2. r \in Game /\ p # Owner /\ q \in {Owner, Parent}
  BY <1>1, HeadIsMessage DEF MirrorInv
<1>3. p \in Processes /\ TypeOK
  BY LinksOfStar DEF MirrorInv
<1>4. CASE link' = popped /\ missed' = missed \cup {p} /\ UNCHANGED <<game, listed>>
  <2>1. link' \in [Links -> Seq(Message)] /\ UpdatesLeave'
    BY <1>1, <1>4, Pops
  <2>. QED BY <1>1, <1>3, <1>4, <2>1 DEF MirrorInv, TypeOK, OwnRoomNotExternal
<1>5. CASE /\ missed' = missed \ {p}
           /\ game' = [game EXCEPT ![p] = Applied(p, r)]
           /\ listed' = listed \cup {p}
           /\ link' = IF Forwards(p, r)
                      THEN Queued(popped, p, PassesTo(p, q),
                                  Update([Applied(p, r) EXCEPT !.custom = "absent"]))
                      ELSE popped
  <2>1. Applied(p, r) \in Game /\ [Applied(p, r) EXCEPT !.custom = "absent"] \in Game
    BY <1>2, <1>3, AppliedType
  <2>2. OwnRoomNotExternal'
    BY <1>2, <1>5 DEF MirrorInv, OwnRoomNotExternal
  <2>3. link' \in [Links -> Seq(Message)] /\ UpdatesLeave'
    <3>1. CASE link' = popped
      BY <1>1, <3>1, Pops
    <3>2. CASE link' = Queued(popped, p, PassesTo(p, q),
                              Update([Applied(p, r) EXCEPT !.custom = "absent"]))
      <4>. DEFINE m == Update([Applied(p, r) EXCEPT !.custom = "absent"])
      <4>1. m \in Message
        BY <2>1, MessageTypes
      <4>2. link \in [Links -> Seq(Message)]
        BY DEF MirrorInv, TypeOK
      <4>3. popped \in [Links -> Seq(Message)]
        BY <1>1, <4>2, PoppedType
      <4>. HIDE DEF m
      <4>4. link' = Queued(popped, p, PassesTo(p, q), m)
        BY <3>2 DEF m
      <4>5. link' \in [Links -> Seq(Message)]
        BY <4>1, <4>3, <4>4, QueuedType
      <4>6. ASSUME NEW l \in Links, l[1] = p, l[2] \in PassesTo(p, q)
            PROVE  l[2] # Owner /\ l[1] \in {Owner, Parent}
        <5>1. q # p /\ (q = Parent \/ p = Parent) /\ p \in Neighbours(q)
          BY LinksOfStar
        <5>2. l[2] \in Neighbours(p) /\ l[2] # q
          BY <4>6 DEF PassesTo
        <5>3. CASE p = Parent
          BY <1>2, <4>6, <5>1, <5>2, <5>3
        <5>4. CASE p # Parent
          BY <1>2, <5>1, <5>2, <5>4 DEF Neighbours
        <5>. QED BY <5>3, <5>4
      <4>7. UpdatesLeave'
        <5>. SUFFICES ASSUME NEW l \in Links, NEW i \in 1 .. Len(link'[l]),
                             link'[l][i].code = "update"
                     PROVE  l[2] # Owner /\ l[1] \in {Owner, Parent}
          BY DEF UpdatesLeave
        <5>1. \/ i \in 1 .. Len(popped[l]) /\ link'[l][i] = popped[l][i]
              \/ l[1] = p /\ l[2] \in PassesTo(p, q)
          <6>. HIDE DEF popped, p, q
          <6>. QED BY <4>1, <4>3, <4>4, QueuedMessages
        <5>2. CASE l[1] = p /\ l[2] \in PassesTo(p, q)
          BY <4>6, <5>2
        <5>3. CASE i \in 1 .. Len(popped[l]) /\ link'[l][i] = popped[l][i]
          <6>1. PICK j \in 1 .. Len(link[l]) : popped[l][i] = link[l][j]
            BY <1>1, <4>2, <5>3, PoppedMessages
          <6>. QED BY <5>3, <6>1 DEF MirrorInv, UpdatesLeave
        <5>. QED BY <5>1, <5>2, <5>3
      <4>. QED BY <4>5, <4>7
    <3>. QED BY <1>5, <3>1, <3>2
  <2>4. game' \in [Processes -> Game \cup {NoGame}] /\ listed' \in SUBSET Processes
        /\ missed' \in SUBSET Processes
    BY <1>3, <1>5, <2>1 DEF TypeOK
  <2>. QED BY <1>1, <1>3, <2>2, <2>3, <2>4 DEF MirrorInv, TypeOK
<1>. QED BY <1>4, <1>5 DEF ReceiveUpdate

LEMMA ReceivesDelete ==
    ASSUME MirrorInv, NEW k \in Links, NEW used \in BOOLEAN, ReceiveDelete(k, used)
    PROVE  MirrorInv'
<1>. DEFINE q == k[1]
            p == k[2]
            popped == [link EXCEPT ![k] = Tail(@)]
<1>1. link[k] # << >> /\ UNCHANGED <<shown, missed>>
  BY DEF ReceiveDelete
<1>2. listed' \subseteq listed
  BY DEF ReceiveDelete, Delisted
<1>3. p \in Processes /\ link \in [Links -> Seq(Message)]
  BY LinksOfStar DEF MirrorInv, TypeOK
<1>4. game' \in [Processes -> Game \cup {NoGame}]
  BY <1>3 DEF ReceiveDelete, MirrorInv, TypeOK
<1>5. link' = popped \/ link' = Queued(popped, p, PassesTo(p, q), Delete)
  BY DEF ReceiveDelete
<1>6. link' \in [Links -> Seq(Message)] /\ UpdatesLeave'
  <2>1. CASE link' = popped
    BY <1>1, <2>1, Pops
  <2>2. CASE link' = Queued(popped, p, PassesTo(p, q), Delete)
    <3>1. popped \in [Links -> Seq(Message)]
      BY <1>1, <1>3, PoppedType
    <3>2. \A l \in Links : \A i \in 1 .. Len(popped[l]) :
              \E j \in 1 .. Len(link[l]) : popped[l][i] = link[l][j]
      BY <1>1, <1>3, PoppedMessages
    <3>. HIDE DEF popped
    <3>. QED BY <2>2, <3>1, <3>2, Deletes
  <2>. QED BY <1>5, <2>1, <2>2
<1>. QED BY <1>1, <1>2, <1>4, <1>6 DEF MirrorInv, TypeOK, OwnRoomNotExternal

\* ~Game, of the room or of a copy.
LEMMA EndsGame ==
    ASSUME MirrorInv, NEW p \in Processes,
           game' = [game EXCEPT ![p] = NoGame],
           link' = Queued(link, p, Neighbours(p), Delete),
           UNCHANGED <<listed, shown, missed>>
    PROVE  MirrorInv'
<1>1. link \in [Links -> Seq(Message)]
  BY DEF MirrorInv, TypeOK
<1>2. link' \in [Links -> Seq(Message)] /\ UpdatesLeave'
  BY <1>1, Deletes
<1>. QED BY <1>2 DEF MirrorInv, TypeOK, OwnRoomNotExternal

LEMMA NextMirror == MirrorInv /\ [Next]_vars => MirrorInv'
<1>. SUFFICES ASSUME MirrorInv, [Next]_vars PROVE MirrorInv'
  OBVIOUS
<1>. USE MirrorAssumption
<1>0. Alive => Room \in Game
  BY DEF MirrorInv, TypeOK, Alive, Room
<1>1. CASE BeginCreation
  <2>1. [Room EXCEPT !.stage = "creating", !.revision = @ + 1] \in Game
    BY <1>0, <1>1, StagedType DEF BeginCreation, MayChange
  <2>. QED BY <1>1, <2>1, Keeps DEF BeginCreation
<1>2. ASSUME NEW open \in BOOLEAN, Configure(open) PROVE MirrorInv'
  <2>1. [Room EXCEPT !.stage = "configured", !.open = open, !.revision = @ + 1] \in Game
    BY <1>0, <1>2, ConfiguredType DEF Configure, MayChange
  <2>. QED BY <1>2, <2>1, Keeps DEF Configure
<1>3. ASSUME NEW open \in BOOLEAN, NEW visible \in BOOLEAN, NEW custom \in Custom,
             SetProperties(open, visible, custom)
      PROVE  MirrorInv'
  <2>. DEFINE r == [Room EXCEPT !.open = open, !.visible = visible, !.custom = custom,
                                !.revision = @ + 1]
  <2>1. r \in Game
    BY <1>0, <1>3, PropertiesType DEF SetProperties, MayChange
  <2>2. Publish(r) \/ Keep(r)
    BY <1>3 DEF SetProperties
  <2>. HIDE DEF r
  <2>. QED BY <2>1, <2>2, Publishes, Keeps
<1>4. CASE Join
  <2>1. [Room EXCEPT !.count = @ + 1] \in Game
    BY <1>0, <1>4 DEF Join, Game
  <2>. QED BY <1>4, <2>1, Publishes DEF Join
<1>5. CASE Leave
  <2>1. [Room EXCEPT !.count = @ - 1] \in Game
    BY <1>0, <1>5 DEF Leave, Game
  <2>. QED BY <1>5, <2>1, Publishes DEF Leave
<1>6. CASE CommitCreation
  <2>1. [Room EXCEPT !.stage = "created", !.revision = @ + 1] \in Game
    BY <1>0, <1>6, StagedType DEF CommitCreation, MayChange
  <2>. QED BY <1>6, <2>1, Publishes DEF CommitCreation
<1>7. CASE AbortCreation
  <2>1. [NewGame EXCEPT !.revision = Room.revision + 1] \in Game
    BY <1>0, <1>7, NewGameType DEF AbortCreation, MayChange, Game
  <2>. QED BY <1>7, <2>1, Publishes DEF AbortCreation
<1>8. CASE DeleteGame
  <2>1. Owner \in Processes
    OBVIOUS
  <2>. QED BY <1>8, <2>1, EndsGame DEF DeleteGame
<1>9. ASSUME NEW l \in Links, Receive(l) PROVE MirrorInv'
  BY <1>9, ReceivesUpdate, ReceivesDelete DEF Receive
<1>10. ASSUME NEW p \in Processes, Release(p) PROVE MirrorInv'
  BY <1>10, EndsGame DEF Release
<1>11. CASE UNCHANGED vars
  BY <1>11 DEF vars, MirrorInv, TypeOK, UpdatesLeave, OwnRoomNotExternal
<1>. QED BY <1>1, <1>2, <1>3, <1>4, <1>5, <1>6, <1>7, <1>8, <1>9, <1>10, <1>11 DEF Next

\* process_ipc_event() never finds a process's own room in external_games_: no
\* GameUpdate of a room comes back to the process that has it, for any number
\* of processes and wherever the room is.
THEOREM RoomStaysOwn == Spec => []OwnRoomNotExternal
<1>1. MirrorInv => OwnRoomNotExternal
  BY DEF MirrorInv
<1>. QED BY <1>1, InitMirror, NextMirror, PTL DEF Spec

-----------------------------------------------------------------------------
(* The copies of a room that is alive. *)

LEMMA TailOf ==
    ASSUME NEW S, NEW q \in Seq(S), q # << >>
    PROVE  /\ Tail(q) \in Seq(S) /\ Head(q) = q[1]
           /\ Len(q) \in Nat \ {0} /\ Len(Tail(q)) = Len(q) - 1
           /\ \A i \in 1 .. Len(q) - 1 : Tail(q)[i] = q[i + 1]
           /\ Tail(q) = << >> <=> Len(q) = 1
<1>1. Len(q) \in Nat \ {0} /\ Head(q) = q[1]
  OBVIOUS
<1>2. Tail(q) \in Seq(S) /\ Len(Tail(q)) = Len(q) - 1
  OBVIOUS
<1>3. \A i \in 1 .. Len(q) - 1 : Tail(q)[i] = q[i + 1]
  OBVIOUS
<1>4. Tail(q) = << >> <=> Len(Tail(q)) = 0
  <2>1. PICK t \in Seq(S) : t = Tail(q)
    BY <1>2
  <2>2. t = << >> <=> Len(t) = 0
    OBVIOUS
  <2>. QED BY <2>1, <2>2
<1>. QED BY <1>1, <1>2, <1>3, <1>4

LEMMA AppendTo ==
    ASSUME NEW S, NEW q \in Seq(S), NEW m \in S
    PROVE  /\ Len(q) \in Nat /\ Len(Append(q, m)) = Len(q) + 1
           /\ \A i \in 1 .. Len(q) : Append(q, m)[i] = q[i]
           /\ Append(q, m)[Len(q) + 1] = m
           /\ Append(q, m) # << >>
           /\ q = << >> <=> Len(q) = 0
OBVIOUS

\* Following is transitive, and a copy that keeps up with a room keeps up with
\* what follows the room.
LEMMA FollowsOn ==
    ASSUME NEW a \in Game, NEW b \in Game, NEW c \in Game, Follows(b, c)
    PROVE  /\ Follows(a, b) => Follows(a, c)
           /\ a.revision < b.revision => Follows(a, c)
           /\ Shows(a, b) /\ a.revision \in {b.revision, b.revision + 1} =>
                 a.revision <= c.revision \/ Overtakes(a, c)
           /\ Overtakes(a, b) => a.revision <= c.revision \/ Overtakes(a, c)
BY DEF Follows, Shows, Overtakes, Game

\* What an update makes of a copy.
LEMMA AppliedShows ==
    ASSUME TypeOK, NEW p \in Processes, NEW r \in Game
    PROVE  /\ Applied(p, r) \in Game
           /\ Shows(Applied(p, r), r)
           /\ Applied(p, r).count = r.count
           /\ Applied(p, r).open = r.open
           /\ Applied(p, r).revision \in {r.revision, r.revision + 1}
           /\ Copy(p).open # r.open => Applied(p, r).revision = r.revision + 1
<1>. DEFINE custom == IF r.custom = "absent" THEN Copy(p).custom ELSE r.custom
            changed == Copy(p).open # r.open \/ Copy(p).custom # custom
            n == IF changed THEN r.revision + 1 ELSE r.revision
<1>1. Applied(p, r) = [r EXCEPT !.custom = custom, !.revision = n]
  BY DEF Applied, Game
<1>2. Applied(p, r) \in Game
  BY AppliedType
<1>3. n \in {r.revision, r.revision + 1} /\ (Copy(p).open # r.open => n = r.revision + 1)
  OBVIOUS
<1>4. custom = r.custom \/ r.custom = "absent"
  OBVIOUS
<1>. HIDE DEF custom, n
<1>. QED BY <1>1, <1>2, <1>3, <1>4 DEF Shows, Game

\* A message of a link of a living room carries a room.
LEMMA QueueRooms ==
    ASSUME TypeOK, NoDeletes, NEW l \in Links
    PROVE  /\ link[l] \in Seq(Message)
           /\ Len(link[l]) \in Nat
           /\ link[l] = << >> <=> Len(link[l]) = 0
           /\ \A i \in 1 .. Len(link[l]) : link[l][i].code = "update" /\ link[l][i].room \in Game
<1>1. link[l] \in Seq(Message)
  BY DEF TypeOK
<1>2. \A i \in 1 .. Len(link[l]) : link[l][i] \in Message
  BY <1>1
<1>3. \A i \in 1 .. Len(link[l]) : link[l][i].code = "update"
  BY DEF NoDeletes
<1>4. \A i \in 1 .. Len(link[l]) : link[l][i].room \in Game
  BY <1>2, <1>3 DEF Message
<1>. QED BY <1>1, <1>3, <1>4

LEMMA PathLinks ==
    /\ \A p \in Neighbours(Owner) : <<Owner, p>> \in Links /\ p \in Processes /\ p # Owner
    /\ \A c \in Children \ {Owner} : <<Parent, c>> \in Links /\ c \in Processes /\ c # Parent
    /\ Parent \in Processes
BY MirrorAssumption DEF Links, Neighbours, Processes

\* The change of the room is published: every neighbour's path grows by it.
LEMMA PublishPaths ==
    ASSUME MirrorInv, PathInv, Alive, NEW r \in Game, Publish(r), Follows(Room, r)
    PROVE  PathInv'
<1>. USE MirrorAssumption
<1>1. TypeOK /\ NoDeletes /\ CopiesListed /\ RoomPublished
  BY DEF MirrorInv, PathInv
<1>2. /\ game' = [game EXCEPT ![Owner] = r]
      /\ link' = Queued(link, Owner, Neighbours(Owner), Update(r))
      /\ shown' = r /\ listed' = listed /\ missed' = missed
  BY DEF Publish
<1>3. /\ game'[Owner] = r /\ r # NoGame
      /\ \A p \in Processes : p # Owner => game'[p] = game[p]
  BY <1>1, <1>2, NoGameAssumption DEF TypeOK
<1>4. Room \in Game
  BY <1>1 DEF TypeOK, Alive, Room
<1>5. shown # NoGame => Follows(shown, r) /\ shown \in Game
  BY <1>1, <1>4, FollowsOn DEF RoomPublished, TypeOK
<1>6. Update(r) \in Message /\ Update(r).room = r /\ Update(r).code = "update"
  BY MessageTypes DEF Update
<1>7. NoDeletes'
  <2>. SUFFICES ASSUME NEW l \in Links, NEW i \in 1 .. Len(link'[l])
               PROVE  link'[l][i].code = "update"
    BY DEF NoDeletes
  <2>1. link \in [Links -> Seq(Message)]
    BY <1>1 DEF TypeOK
  <2>. QED BY <1>1, <1>2, <1>6, <2>1, QueuedMessages DEF NoDeletes
<1>8. CopiesListed'
  BY <1>1, <1>2, <1>3 DEF CopiesListed
<1>9. RoomPublished'
  BY <1>2, <1>3 DEF RoomPublished, Room
<1>10. ASSUME NEW p \in Neighbours(Owner) PROVE RoomPath(p)'
  <2>. DEFINE q == link[<<Owner, p>>]
              w == link'[<<Owner, p>>]
  <2>1. <<Owner, p>> \in Links /\ p \in Processes /\ p # Owner
    BY PathLinks
  <2>2. w = Append(q, Update(r))
    BY <1>2, <2>1 DEF Queued
  <2>3. /\ q \in Seq(Message) /\ Len(q) \in Nat /\ (q = << >> <=> Len(q) = 0)
        /\ \A i \in 1 .. Len(q) : q[i].room \in Game
    BY <1>1, <2>1, QueueRooms
  <2>4. RoomPath(p)
    BY DEF PathInv
  <2>. HIDE DEF w
  <2>5. /\ Len(w) = Len(q) + 1 /\ w # << >> /\ w[Len(w)].room = r
        /\ \A i \in 1 .. Len(q) : w[i] = q[i]
    BY <1>6, <2>2, <2>3, AppendTo
  <2>6. q # << >> => shown = q[Len(q)].room /\ Len(q) \in 1 .. Len(q)
    BY <2>3, <2>4 DEF RoomPath
  <2>7. q # << >> => shown # NoGame
    BY <2>3, <2>6, NoGameAssumption
  <2>8. \A i \in 1 .. Len(w) - 1 : Follows(w[i].room, w[i + 1].room)
    <3>1. TAKE i \in 1 .. Len(w) - 1
    <3>2. CASE i < Len(q)
      <4>1. i \in 1 .. Len(q) - 1 /\ i + 1 \in 1 .. Len(q) /\ i \in 1 .. Len(q)
        BY <2>3, <2>5, <3>2
      <4>. QED BY <2>4, <2>5, <4>1 DEF RoomPath
    <3>3. CASE i = Len(q)
      <4>1. q # << >> /\ w[i] = q[i] /\ w[i + 1].room = r
        BY <2>3, <2>5, <3>3
      <4>. QED BY <1>5, <2>6, <2>7, <3>3, <4>1
    <3>. QED BY <2>3, <2>5, <3>2, <3>3
  <2>9. ASSUME p \in listed
        PROVE  game[p].revision <= w[1].room.revision \/ Overtakes(game[p], w[1].room)
    <3>1. CASE q # << >>
      <4>1. w[1] = q[1]
        BY <2>3, <2>5, <3>1
      <4>. QED BY <2>4, <2>9, <3>1, <4>1 DEF RoomPath
    <3>2. CASE q = << >>
      <4>1. w[1].room = r
        BY <2>3, <2>5, <3>2
      <4>2. /\ shown # NoGame /\ Shows(game[p], shown)
            /\ game[p].revision \in {shown.revision, shown.revision + 1}
        BY <2>4, <2>9, <3>2 DEF RoomPath
      <4>3. game[p] \in Game
        BY <1>1, <2>1, <2>9 DEF CopiesListed, TypeOK
      <4>. QED BY <1>5, <4>1, <4>2, <4>3, FollowsOn
    <3>. QED BY <3>1, <3>2
  <2>. HIDE DEF q
  <2>10. shown' = w[Len(w)].room /\ game'[p] = game[p] /\ listed' = listed
    BY <1>2, <1>3, <2>1, <2>5
  <2>. QED BY <2>5, <2>8, <2>9, <2>10 DEF RoomPath, w
<1>11. ASSUME Owner # Parent, NEW c \in Children \ {Owner} PROVE ForwardPath(c)'
  <2>1. <<Parent, c>> \in Links /\ c \in Processes /\ Parent \in Processes
    BY PathLinks
  <2>2. link'[<<Parent, c>>] = link[<<Parent, c>>]
    BY <1>2, <1>11, <2>1 DEF Queued
  <2>3. game'[c] = game[c] /\ game'[Parent] = game[Parent] /\ listed' = listed
    BY <1>2, <1>3, <1>11, <2>1
  <2>4. ForwardPath(c)
    BY <1>11 DEF PathInv
  <2>. QED BY <2>2, <2>3, <2>4 DEF ForwardPath, Copy
<1>. QED BY <1>7, <1>8, <1>9, <1>10, <1>11 DEF PathInv

\* A change that nobody is told of has a revision of its own.
LEMMA KeepPaths ==
    ASSUME MirrorInv, PathInv, Alive, NEW r \in Game, Keep(r), Room.revision < r.revision
    PROVE  PathInv'
<1>. USE MirrorAssumption
<1>1. TypeOK /\ NoDeletes /\ CopiesListed /\ RoomPublished
  BY DEF MirrorInv, PathInv
<1>2. game' = [game EXCEPT ![Owner] = r] /\ UNCHANGED <<listed, link, shown, missed>>
  BY DEF Keep
<1>3. /\ game'[Owner] = r /\ r # NoGame
      /\ \A p \in Processes : p # Owner => game'[p] = game[p]
  BY <1>1, <1>2, NoGameAssumption DEF TypeOK
<1>4. Room \in Game
  BY <1>1 DEF TypeOK, Alive, Room
<1>5. NoDeletes' /\ CopiesListed'
  BY <1>1, <1>2, <1>3 DEF NoDeletes, CopiesListed
<1>6. RoomPublished'
  <2>1. shown # NoGame => shown.revision < r.revision
    BY <1>1, <1>4 DEF RoomPublished, TypeOK, Game
  <2>. QED BY <1>2, <1>3, <2>1 DEF RoomPublished, Room
<1>7. ASSUME NEW p \in Neighbours(Owner) PROVE RoomPath(p)'
  <2>1. game'[p] = game[p] /\ RoomPath(p)
    BY <1>3, PathLinks DEF PathInv
  <2>. QED BY <1>2, <2>1 DEF RoomPath
<1>8. ASSUME Owner # Parent, NEW c \in Children \ {Owner} PROVE ForwardPath(c)'
  <2>1. game'[c] = game[c] /\ game'[Parent] = game[Parent] /\ ForwardPath(c)
    BY <1>3, <1>8, PathLinks DEF PathInv
  <2>. QED BY <1>2, <2>1 DEF ForwardPath, Copy
<1>. QED BY <1>5, <1>6, <1>7, <1>8 DEF PathInv

\* The links after an update was received: forwarded by the Parent of the room,
\* to the children that do not have it, or by nobody.
LEMMA ReceivedLinks ==
    ASSUME MirrorInv, NEW k \in Links, ReceiveUpdate(k)
    PROVE  LET p == k[2]
               r == Head(link[k]).room
               forwards == ~Drops(p, r) /\ Forwards(p, r) /\ p = Parent
               m == Update([Applied(p, r) EXCEPT !.custom = "absent"])
           IN  /\ link[k] # << >>
               /\ k[1] \in {Owner, Parent} /\ p \in Neighbours(k[1]) /\ p # Owner
               /\ p = Parent => k[1] = Owner /\ Owner # Parent
               /\ r \in Game /\ p \in Processes
               /\ \A l \in Links : link'[l] =
                     LET old == IF l = k THEN Tail(link[l]) ELSE link[l]
                     IN  IF forwards /\ l[1] = Parent /\ l[2] # Owner
                         THEN Append(old, m) ELSE old
<1>. DEFINE q == k[1]
            p == k[2]
            r == Head(link[k]).room
            m == Update([Applied(p, r) EXCEPT !.custom = "absent"])
            forwards == ~Drops(p, r) /\ Forwards(p, r) /\ p = Parent
            popped == [link EXCEPT ![k] = Tail(@)]
<1>1. link[k] # << >> /\ Head(link[k]).code = "update"
  BY DEF ReceiveUpdate
<1>2. r \in Game /\ p # Owner /\ q \in {Owner, Parent}
  BY <1>1, HeadIsMessage DEF MirrorInv
<1>3. /\ p \in Processes /\ p \in Neighbours(q) /\ q # p
      /\ p = Parent => q = Owner /\ Owner # Parent
      /\ p # Parent => q = Parent
  BY <1>2, LinksOfStar
<1>4. link' = IF ~Drops(p, r) /\ Forwards(p, r) THEN Queued(popped, p, PassesTo(p, q), m)
              ELSE popped
  BY DEF ReceiveUpdate
<1>5. \A l \in Links : popped[l] = IF l = k THEN Tail(link[l]) ELSE link[l]
  BY DEF MirrorInv, TypeOK
<1>6. p # Parent => PassesTo(p, q) = {}
  BY <1>3 DEF PassesTo, Neighbours
<1>7. p = Parent => \A l \in Links : l[1] = p /\ l[2] \in PassesTo(p, q) <=>
                                     l[1] = Parent /\ l[2] # Owner
  BY <1>3, LinksOfStar DEF PassesTo
<1>. HIDE DEF m, popped
<1>8. \A l \in Links : link'[l] =
          IF forwards /\ l[1] = Parent /\ l[2] # Owner
          THEN Append(popped[l], m) ELSE popped[l]
  <2>1. CASE ~Drops(p, r) /\ Forwards(p, r) /\ p = Parent
    BY <1>4, <1>7, <2>1 DEF Queued
  <2>2. CASE ~Drops(p, r) /\ Forwards(p, r) /\ p # Parent
    BY <1>4, <1>6, <2>2 DEF Queued
  <2>3. CASE ~(~Drops(p, r) /\ Forwards(p, r))
    BY <1>4, <2>3
  <2>. QED BY <2>1, <2>2, <2>3
<1>. HIDE DEF forwards
<1>9. \A l \in Links : link'[l] =
          LET old == IF l = k THEN Tail(link[l]) ELSE link[l]
          IN  IF forwards /\ l[1] = Parent /\ l[2] # Owner
              THEN Append(old, m) ELSE old
  BY <1>5, <1>8
<1>. QED BY <1>1, <1>2, <1>3, <1>9 DEF forwards, m

\* What else an update changes: the copy of the process that receives it.
LEMMA ReceivedCopies ==
    ASSUME MirrorInv, NEW k \in Links, ReceiveUpdate(k)
    PROVE  LET p == k[2]
               r == Head(link[k]).room
           IN  /\ shown' = shown
               /\ Drops(p, r) => UNCHANGED <<game, listed>> /\ p \in missed'
               /\ ~Drops(p, r) => game'[p] = Applied(p, r) /\ p \in listed'
               /\ \A o \in Processes : o # p =>
                     /\ game'[o] = game[o]
                     /\ o \in listed' <=> o \in listed
                     /\ o \in missed' <=> o \in missed
<1>. DEFINE p == k[2]
            r == Head(link[k]).room
<1>1. p \in Processes
  BY LinksOfStar
<1>2. shown' = shown
  BY DEF ReceiveUpdate
<1>3. CASE Drops(p, r)
  <2>1. missed' = missed \cup {p} /\ UNCHANGED <<game, listed>>
    BY <1>3 DEF ReceiveUpdate
  <2>. QED BY <1>2, <1>3, <2>1
<1>4. CASE ~Drops(p, r)
  <2>1. /\ missed' = missed \ {p} /\ listed' = listed \cup {p}
        /\ game' = [game EXCEPT ![p] = Applied(p, r)]
    BY <1>4 DEF ReceiveUpdate
  <2>2. /\ game'[p] = Applied(p, r)
        /\ \A o \in Processes : o # p => game'[o] = game[o]
    BY <1>1, <2>1 DEF MirrorInv, TypeOK
  <2>. QED BY <1>2, <1>4, <2>1, <2>2
<1>. QED BY <1>3, <1>4

\* A neighbour of the room receives the next update of its path.
LEMMA RoomPathReceived ==
    ASSUME MirrorInv, PathInv, Alive, NEW p \in Neighbours(Owner),
           ReceiveUpdate(<<Owner, p>>)
    PROVE  RoomPath(p)'
<1>. DEFINE k == <<Owner, p>>
            q == link[k]
            t == Tail(q)
            r == Head(q).room
            c == game[p]
            d == game'[p]
<1>1. k \in Links /\ p \in Processes /\ p # Owner /\ k[1] = Owner /\ k[2] = p
  BY PathLinks
<1>2. TypeOK /\ NoDeletes /\ CopiesListed /\ RoomPath(p)
  BY DEF MirrorInv, PathInv
<1>3. q # << >> /\ r \in Game
  BY <1>1, ReceivedLinks
<1>4. link'[k] = t
  BY <1>1, ReceivedLinks
<1>5. /\ q \in Seq(Message) /\ \A i \in 1 .. Len(q) : q[i].room \in Game
  BY <1>1, <1>2, QueueRooms
<1>6. /\ r = q[1].room /\ Len(q) \in Nat \ {0} /\ Len(t) = Len(q) - 1
      /\ \A i \in 1 .. Len(q) - 1 : t[i] = q[i + 1]
      /\ t = << >> <=> Len(q) = 1
  BY <1>3, <1>5, TailOf
<1>7. /\ shown' = shown
      /\ Drops(p, r) => d = c /\ (p \in listed' <=> p \in listed) /\ p \in missed'
      /\ ~Drops(p, r) => d = Applied(p, r) /\ p \in listed'
  BY <1>1, ReceivedCopies
<1>8. /\ p \in listed' /\ d \in Game
      /\ d.count = r.count \/ p \in missed'
      /\ Shows(d, r) /\ d.revision \in {r.revision, r.revision + 1}
  <2>1. CASE Drops(p, r)
    <3>1. p \in listed /\ c.revision > r.revision
      BY <2>1 DEF Drops
    <3>2. c \in Game
      BY <1>1, <1>2, <3>1 DEF CopiesListed, TypeOK
    <3>3. c.revision <= r.revision \/ Overtakes(c, r)
      BY <1>2, <1>3, <1>6, <3>1 DEF RoomPath
    <3>4. Overtakes(c, r)
      BY <1>3, <3>1, <3>2, <3>3 DEF Game
    <3>. HIDE DEF c, d, r
    <3>. QED BY <1>7, <2>1, <3>1, <3>2, <3>4 DEF Overtakes
  <2>2. CASE ~Drops(p, r)
    <3>. HIDE DEF r
    <3>. QED BY <1>1, <1>2, <1>3, <1>7, <2>2, AppliedShows
  <2>. QED BY <2>1, <2>2
<1>9. \A i \in 1 .. Len(t) - 1 : Follows(t[i].room, t[i + 1].room)
  <2>1. TAKE i \in 1 .. Len(t) - 1
  <2>2. i + 1 \in 1 .. Len(q) - 1 /\ t[i] = q[i + 1] /\ t[i + 1] = q[(i + 1) + 1]
    BY <1>6
  <2>. QED BY <1>2, <2>2 DEF RoomPath
<1>10. shown = q[Len(q)].room
  BY <1>2, <1>3 DEF RoomPath
<1>11. CASE t = << >>
  <2>1. shown = r /\ shown # NoGame
    BY <1>3, <1>6, <1>10, <1>11, NoGameAssumption
  <2>. HIDE DEF d, r, q, t
  <2>. QED BY <1>4, <1>7, <1>8, <1>9, <1>11, <2>1 DEF RoomPath, d
<1>12. CASE t # << >>
  <2>1. /\ t[1] = q[2] /\ t[Len(t)] = q[Len(q)] /\ 2 \in 1 .. Len(q)
        /\ 1 \in 1 .. Len(q) - 1
    BY <1>6, <1>12
  <2>2. Follows(r, t[1].room) /\ t[1].room \in Game
    BY <1>2, <1>5, <1>6, <2>1 DEF RoomPath
  <2>. HIDE DEF d, r, q, t
  <2>3. d.revision <= t[1].room.revision \/ Overtakes(d, t[1].room)
    BY <1>3, <1>8, <2>2, FollowsOn
  <2>. QED BY <1>4, <1>7, <1>8, <1>9, <1>10, <1>12, <2>1, <2>3 DEF RoomPath, d
<1>. QED BY <1>11, <1>12

\* The Parent receives an update of the room of a child: if it opens or closes
\* the room, the other children's paths grow by it.
LEMMA ForwardPathGrows ==
    ASSUME MirrorInv, PathInv, Alive, Owner # Parent,
           ReceiveUpdate(<<Owner, Parent>>), NEW c \in Children \ {Owner}
    PROVE  ForwardPath(c)'
<1>. DEFINE k == <<Owner, Parent>>
            l == <<Parent, c>>
            r == Head(link[k]).room
            a == Applied(Parent, r)
            m == Update([a EXCEPT !.custom = "absent"])
            q == link[l]
            w == link'[l]
            P == Copy(Parent)
            Q == IF game'[Parent] = NoGame THEN NewGame ELSE game'[Parent]
<1>1. /\ k \in Links /\ l \in Links /\ k # l
      /\ k[1] = Owner /\ k[2] = Parent /\ l[1] = Parent /\ l[2] = c
      /\ c \in Processes /\ c # Parent /\ c # Owner /\ Parent \in Processes
  BY PathLinks, MirrorAssumption DEF Neighbours
<1>2. TypeOK /\ NoDeletes /\ CopiesListed /\ ForwardPath(c)
  BY DEF MirrorInv, PathInv
<1>3. r \in Game
  BY <1>1, ReceivedLinks
<1>4. w = IF ~Drops(Parent, r) /\ Forwards(Parent, r) THEN Append(q, m) ELSE q
  BY <1>1, ReceivedLinks
<1>5. game'[c] = game[c] /\ (c \in listed' <=> c \in listed)
  BY <1>1, ReceivedCopies
<1>6. /\ a \in Game /\ a.open = r.open
      /\ a.revision \in {r.revision, r.revision + 1}
      /\ P.open # r.open => a.revision = r.revision + 1
  BY <1>1, <1>2, <1>3, AppliedShows
<1>7. P \in Game
  BY <1>1, <1>2, CopyType
<1>8. CASE Drops(Parent, r)
  <2>1. game'[Parent] = game[Parent] /\ w = q
    BY <1>1, <1>4, <1>8, ReceivedCopies
  <2>. HIDE DEF r
  <2>. QED BY <1>2, <1>5, <2>1 DEF ForwardPath, Copy
<1>9. CASE ~Drops(Parent, r)
  <2>1. game'[Parent] = a
    BY <1>1, <1>9, ReceivedCopies
  <2>2. Q = a
    BY <1>6, <2>1, NoGameAssumption
  <2>3. P.revision <= r.revision
    <3>1. CASE Parent \in listed
      <4>1. P = game[Parent]
        BY <1>1, <1>2, <3>1 DEF CopiesListed, Copy
      <4>. HIDE DEF r, P
      <4>. QED BY <1>3, <1>7, <1>9, <3>1, <4>1 DEF Drops, Game
    <3>2. CASE Parent \notin listed
      <4>1. P = NewGame
        BY <1>1, <1>2, <3>2 DEF CopiesListed, Copy
      <4>. HIDE DEF r, P
      <4>. QED BY <1>3, <4>1 DEF NewGame, Game
    <3>. QED BY <3>1, <3>2
  <2>. HIDE DEF r, a, P, Q, q, w
  <2>4. P.revision <= a.revision
    BY <1>3, <1>6, <1>7, <2>3 DEF Game
  <2>5. CASE P.open = r.open
    <3>1. w = q /\ Q.open = P.open
      BY <1>4, <1>6, <2>2, <2>5 DEF Forwards, P
    <3>2. /\ q # << >> => q[Len(q)].room.revision <= Q.revision
          /\ q = << >> /\ c \in listed => game[c].revision <= Q.revision + 1
      <4>1. q # << >> => q[Len(q)].room.revision \in Nat
        <5>1. /\ Len(q) \in Nat /\ (q = << >> <=> Len(q) = 0)
              /\ \A i \in 1 .. Len(q) : q[i].room \in Game
          BY <1>1, <1>2, QueueRooms DEF q
        <5>. QED BY <5>1 DEF Game
      <4>2. c \in listed => game[c].revision \in Nat
        BY <1>1, <1>2 DEF CopiesListed, TypeOK, Game
      <4>3. P.revision \in Nat /\ Q.revision \in Nat /\ P.revision <= Q.revision
        BY <1>6, <1>7, <2>2, <2>4 DEF Game
      <4>4. /\ q # << >> => q[Len(q)].room.revision <= P.revision
            /\ q = << >> /\ c \in listed => game[c].revision <= P.revision + 1
        BY <1>2 DEF ForwardPath, P, q
      <4>. QED BY <4>1, <4>2, <4>3, <4>4
    <3>. QED BY <1>2, <1>5, <3>1, <3>2 DEF ForwardPath, Copy, q, w, P, Q
  <2>6. CASE P.open # r.open
    <3>1. w = Append(q, m)
      BY <1>4, <1>9, <2>6 DEF Forwards, P
    <3>2. /\ m \in Message /\ m.room.open = a.open /\ m.room.revision = a.revision
          /\ m.room \in Game
      <4>1. [a EXCEPT !.custom = "absent"] \in Game
        BY <1>6 DEF Game, Custom
      <4>2. m \in Message /\ m.room = [a EXCEPT !.custom = "absent"]
        BY <4>1, MessageTypes DEF Update
      <4>. QED BY <1>6, <4>1, <4>2 DEF Game
    <3>3. /\ q \in Seq(Message) /\ Len(q) \in Nat /\ (q = << >> <=> Len(q) = 0)
          /\ \A i \in 1 .. Len(q) : q[i].room \in Game
      BY <1>1, <1>2, QueueRooms DEF q
    <3>. HIDE DEF m
    <3>4. /\ Len(w) = Len(q) + 1 /\ w # << >> /\ w[Len(w)] = m
          /\ \A i \in 1 .. Len(q) : w[i] = q[i]
      BY <3>1, <3>2, <3>3, AppendTo
    <3>5. P.revision < a.revision
      BY <1>3, <1>6, <1>7, <2>3, <2>6 DEF Game
    <3>6. \A i \in 1 .. Len(w) - 1 : /\ w[i].room.open # w[i + 1].room.open
                                     /\ w[i].room.revision < w[i + 1].room.revision
      <4>1. TAKE i \in 1 .. Len(w) - 1
      <4>2. CASE i < Len(q)
        <5>1. i \in 1 .. Len(q) - 1 /\ w[i] = q[i] /\ w[i + 1] = q[i + 1]
          BY <3>3, <3>4, <4>2
        <5>. QED BY <1>2, <5>1 DEF ForwardPath, q
      <4>3. CASE i = Len(q)
        <5>1. q # << >> /\ w[i] = q[i] /\ w[i + 1] = m /\ i \in 1 .. Len(q)
          BY <3>3, <3>4, <4>3
        <5>2. q[i].room.open = P.open /\ q[i].room.revision <= P.revision
          BY <1>2, <4>3, <5>1 DEF ForwardPath, q, P
        <5>3. q[i].room.revision \in Nat
          BY <3>3, <5>1 DEF Game
        <5>. QED BY <1>6, <1>7, <2>6, <3>2, <3>5, <5>1, <5>2, <5>3 DEF Game
      <4>. QED BY <3>3, <3>4, <4>2, <4>3
    <3>7. /\ Copy(c).open # w[1].room.open
          /\ c \in listed => game[c].revision <= w[1].room.revision
      <4>1. CASE q # << >>
        <5>1. w[1] = q[1]
          BY <3>3, <3>4, <4>1
        <5>. QED BY <1>2, <4>1, <5>1 DEF ForwardPath, q
      <4>2. CASE q = << >>
        <5>1. w[1] = m
          BY <3>3, <3>4, <4>2
        <5>2. Copy(c).open = P.open /\ (c \in listed => game[c].revision <= P.revision + 1)
          BY <1>2, <4>2 DEF ForwardPath, q, P
        <5>3. c \in listed => game[c].revision \in Nat
          BY <1>1, <1>2 DEF CopiesListed, TypeOK, Game
        <5>. QED BY <1>6, <1>7, <2>6, <3>2, <3>5, <5>1, <5>2, <5>3 DEF Game
      <4>. QED BY <4>1, <4>2
    <3>8. w[Len(w)].room.open = Q.open /\ w[Len(w)].room.revision <= Q.revision
      BY <1>6, <2>2, <3>2, <3>4 DEF Game
    <3>. QED BY <1>5, <3>4, <3>6, <3>7, <3>8 DEF ForwardPath, Copy, w, Q
  <2>. QED BY <2>5, <2>6
<1>. QED BY <1>8, <1>9

\* Another child receives the next update of its path, which is never too old.
LEMMA ForwardPathReceived ==
    ASSUME MirrorInv, PathInv, Alive, Owner # Parent, NEW c \in Children \ {Owner},
           ReceiveUpdate(<<Parent, c>>)
    PROVE  ForwardPath(c)' /\ c \in listed' /\ game'[c] # NoGame
<1>. DEFINE l == <<Parent, c>>
            q == link[l]
            t == Tail(q)
            r == Head(q).room
            a == Applied(c, r)
            P == Copy(Parent)
<1>1. /\ l \in Links /\ l[1] = Parent /\ l[2] = c
      /\ c \in Processes /\ c # Parent /\ c # Owner /\ Parent \in Processes
  BY PathLinks
<1>2. TypeOK /\ NoDeletes /\ CopiesListed /\ ForwardPath(c)
  BY DEF MirrorInv, PathInv
<1>3. q # << >> /\ r \in Game /\ link'[l] = t
  BY <1>1, ReceivedLinks
<1>4. /\ q \in Seq(Message) /\ \A i \in 1 .. Len(q) : q[i].room \in Game
  BY <1>1, <1>2, QueueRooms
<1>5. /\ r = q[1].room /\ Len(q) \in Nat \ {0} /\ Len(t) = Len(q) - 1
      /\ \A i \in 1 .. Len(q) - 1 : t[i] = q[i + 1]
      /\ t = << >> <=> Len(q) = 1
  BY <1>3, <1>4, TailOf
<1>6. /\ Copy(c).open # r.open /\ (c \in listed => game[c].revision <= r.revision)
      /\ q[Len(q)].room.open = P.open /\ q[Len(q)].room.revision <= P.revision
  BY <1>2, <1>3, <1>5 DEF ForwardPath
<1>7. ~Drops(c, r)
  <2>1. c \in listed => game[c] \in Game
    BY <1>1, <1>2 DEF CopiesListed, TypeOK
  <2>. HIDE DEF r
  <2>. QED BY <1>3, <1>6, <2>1 DEF Drops, Game
<1>8. game'[c] = a /\ c \in listed' /\ game'[Parent] = game[Parent]
  BY <1>1, <1>7, ReceivedCopies
<1>9. a \in Game /\ a.open = r.open /\ a.revision = r.revision + 1 /\ a # NoGame
  BY <1>1, <1>2, <1>3, <1>6, AppliedShows, NoGameAssumption
<1>10. \A i \in 1 .. Len(t) - 1 : /\ t[i].room.open # t[i + 1].room.open
                                  /\ t[i].room.revision < t[i + 1].room.revision
  <2>1. TAKE i \in 1 .. Len(t) - 1
  <2>2. i + 1 \in 1 .. Len(q) - 1 /\ t[i] = q[i + 1] /\ t[i + 1] = q[(i + 1) + 1]
    BY <1>5
  <2>. QED BY <1>2, <2>2 DEF ForwardPath
<1>11. P \in Game
  BY <1>1, <1>2, CopyType
<1>. DEFINE d == IF game'[c] = NoGame THEN NewGame ELSE game'[c]
<1>12. d = a
  BY <1>8, <1>9
<1>. HIDE DEF a, r, P
<1>13. CASE t = << >>
  <2>1. a.open = P.open /\ a.revision <= P.revision + 1
    <3>1. r = q[Len(q)].room
      BY <1>5, <1>13
    <3>2. r.revision \in Nat /\ P.revision \in Nat
      BY <1>3, <1>11 DEF Game
    <3>. HIDE DEF q
    <3>. QED BY <1>6, <1>9, <3>1, <3>2
  <2>. HIDE DEF t
  <2>. QED BY <1>3, <1>8, <1>9, <1>10, <1>12, <1>13, <2>1 DEF ForwardPath, Copy, P, d
<1>14. CASE t # << >>
  <2>1. /\ t[1] = q[2] /\ t[Len(t)] = q[Len(q)] /\ 1 \in 1 .. Len(q) - 1
        /\ 2 \in 1 .. Len(q)
    BY <1>5, <1>14
  <2>2. r.open # t[1].room.open /\ r.revision < t[1].room.revision
    BY <1>2, <1>5, <2>1 DEF ForwardPath
  <2>3. t[1].room \in Game
    BY <1>4, <2>1
  <2>. HIDE DEF t, q
  <2>4. a.open # t[1].room.open /\ a.revision <= t[1].room.revision
    <3>1. r.revision \in Nat /\ t[1].room.revision \in Nat
      BY <1>3, <2>3 DEF Game
    <3>. QED BY <1>9, <2>2, <3>1
  <2>. QED BY <1>3, <1>6, <1>8, <1>9, <1>10, <1>12, <1>14, <2>1, <2>4
           DEF ForwardPath, Copy, P, d
<1>. QED BY <1>8, <1>9, <1>13, <1>14

\* A received update keeps the paths of a living room.
LEMMA ReceiveUpdatePaths ==
    ASSUME MirrorInv, PathInv, Alive, NEW k \in Links, ReceiveUpdate(k)
    PROVE  PathInv'
<1>. DEFINE p == k[2]
            r == Head(link[k]).room
            m == Update([Applied(p, r) EXCEPT !.custom = "absent"])
<1>1. TypeOK /\ NoDeletes /\ CopiesListed /\ RoomPublished
  BY DEF MirrorInv, PathInv
<1>2. /\ k[1] \in {Owner, Parent} /\ p \in Neighbours(k[1]) /\ p # Owner
      /\ p = Parent => k[1] = Owner /\ Owner # Parent
      /\ r \in Game /\ p \in Processes /\ link[k] # << >>
      /\ k = <<k[1], p>> /\ k[1] # p
  BY ReceivedLinks, LinksOfStar
<1>3. \A l \in Links : \/ link'[l] = IF l = k THEN Tail(link[l]) ELSE link[l]
                       \/ /\ p = Parent /\ l[1] = Parent /\ l[2] # Owner /\ l # k
                          /\ link'[l] = Append(link[l], m)
  <2>1. p = Parent => \A l \in Links : l[1] = Parent => l # k
    BY <1>2
  <2>. QED BY <2>1, ReceivedLinks
<1>4. /\ shown' = shown
      /\ Drops(p, r) => game'[p] = game[p] /\ (p \in listed' <=> p \in listed)
      /\ ~Drops(p, r) => game'[p] = Applied(p, r) /\ p \in listed'
      /\ \A o \in Processes : o # p =>
            /\ game'[o] = game[o]
            /\ o \in listed' <=> o \in listed
            /\ o \in missed' <=> o \in missed
  BY ReceivedCopies
<1>5. Applied(p, r) \in Game /\ [Applied(p, r) EXCEPT !.custom = "absent"] \in Game
  BY <1>1, <1>2, AppliedType
<1>6. m \in Message /\ m.code = "update"
  BY <1>5, MessageTypes DEF Update
<1>. HIDE DEF r, m
<1>7. NoDeletes'
  <2>. SUFFICES ASSUME NEW l \in Links, NEW i \in 1 .. Len(link'[l])
               PROVE  link'[l][i].code = "update"
    BY DEF NoDeletes
  <2>1. link[l] \in Seq(Message) /\ \A j \in 1 .. Len(link[l]) : link[l][j].code = "update"
    BY <1>1, QueueRooms
  <2>2. CASE link'[l] = link[l]
    BY <2>1, <2>2
  <2>3. CASE l = k /\ link'[l] = Tail(link[l])
    <3>1. /\ Len(link[l]) \in Nat \ {0} /\ Len(link'[l]) = Len(link[l]) - 1
          /\ \A j \in 1 .. Len(link[l]) - 1 : link'[l][j] = link[l][j + 1]
      BY <1>2, <2>1, <2>3, TailOf
    <3>2. i + 1 \in 1 .. Len(link[l]) /\ link'[l][i] = link[l][i + 1]
      BY <3>1
    <3>. QED BY <2>1, <3>2
  <2>4. CASE link'[l] = Append(link[l], m)
    <3>1. /\ Len(link[l]) \in Nat /\ Len(link'[l]) = Len(link[l]) + 1
          /\ \A j \in 1 .. Len(link[l]) : link'[l][j] = link[l][j]
          /\ link'[l][Len(link[l]) + 1] = m
      BY <1>6, <2>1, <2>4, AppendTo
    <3>. QED BY <1>6, <2>1, <3>1
  <2>. QED BY <1>3, <2>2, <2>3, <2>4
<1>8. CopiesListed'
  <2>. SUFFICES ASSUME NEW o \in Processes \ {Owner}
               PROVE  o \in listed' <=> game'[o] # NoGame
    BY DEF CopiesListed
  <2>1. CASE o # p
    BY <1>1, <1>4, <2>1 DEF CopiesListed
  <2>2. CASE o = p /\ Drops(p, r)
    BY <1>1, <1>4, <2>2 DEF CopiesListed
  <2>3. CASE o = p /\ ~Drops(p, r)
    BY <1>4, <1>5, <2>3, NoGameAssumption
  <2>. QED BY <2>1, <2>2, <2>3
<1>9. game'[Owner] = game[Owner]
  BY <1>2, <1>4, MirrorAssumption
<1>10. RoomPublished'
  BY <1>1, <1>4, <1>9 DEF RoomPublished, Room
<1>11. ASSUME NEW o \in Neighbours(Owner) PROVE RoomPath(o)'
  <2>1. <<Owner, o>> \in Links /\ o \in Processes /\ o # Owner /\ RoomPath(o)
    BY PathLinks DEF PathInv
  <2>2. CASE k = <<Owner, o>>
    BY <2>2, RoomPathReceived
  <2>3. CASE k # <<Owner, o>>
    <3>1. o # p
      <4>. SUFFICES ASSUME o = p PROVE FALSE
        OBVIOUS
      <4>1. k[1] = Parent /\ Owner # Parent
        BY <1>2, <2>3
      <4>2. o = Parent
        BY <4>1 DEF Neighbours
      <4>. QED BY <1>2, <4>1, <4>2
    <3>2. link'[<<Owner, o>>] = link[<<Owner, o>>]
      <4>1. p = Parent => Owner # Parent
        BY <1>2
      <4>. QED BY <1>3, <2>1, <2>3, <4>1
    <3>. HIDE DEF p
    <3>. QED BY <1>4, <2>1, <3>1, <3>2 DEF RoomPath
  <2>. QED BY <2>2, <2>3
<1>12. ASSUME Owner # Parent, NEW c \in Children \ {Owner} PROVE ForwardPath(c)'
  <2>1. <<Parent, c>> \in Links /\ c \in Processes /\ c # Parent /\ c # Owner
        /\ ForwardPath(c) /\ Parent \in Processes
    BY <1>12, PathLinks DEF PathInv
  <2>2. CASE k = <<Parent, c>>
    BY <1>12, <2>2, ForwardPathReceived
  <2>3. CASE k = <<Owner, Parent>>
    BY <1>12, <2>3, ForwardPathGrows
  <2>4. CASE k # <<Parent, c>> /\ k # <<Owner, Parent>>
    <3>1. p # Parent /\ k[1] = Parent
      <4>1. p = Parent => k = <<Owner, Parent>>
        BY <1>2
      <4>2. k[1] = Owner => p = Parent
        BY <1>2, <1>12 DEF Neighbours
      <4>. QED BY <1>2, <2>4, <4>1, <4>2
    <3>2. p # c
      BY <1>2, <2>4, <3>1
    <3>3. link'[<<Parent, c>>] = link[<<Parent, c>>]
      BY <1>3, <2>1, <2>4, <3>1
    <3>4. game'[c] = game[c] /\ game'[Parent] = game[Parent] /\ (c \in listed' <=> c \in listed)
      BY <1>4, <2>1, <3>1, <3>2
    <3>. HIDE DEF p
    <3>. QED BY <2>1, <3>3, <3>4 DEF ForwardPath, Copy
  <2>. QED BY <2>2, <2>3, <2>4
<1>. QED BY <1>7, <1>8, <1>10, <1>11, <1>12 DEF PathInv

\* What a step does to the room itself.
LEMMA RoomMoves ==
    ASSUME MirrorInv, Next
    PROVE  \/ Alive /\ \E r \in Game : \/ Publish(r) /\ Follows(Room, r)
                                       \/ Keep(r) /\ Room.revision < r.revision
           \/ DeleteGame
           \/ \E l \in Links : Receive(l)
           \/ \E p \in Processes : Release(p)
<1>. DEFINE Moves == Alive /\ \E r \in Game : \/ Publish(r) /\ Follows(Room, r)
                                              \/ Keep(r) /\ Room.revision < r.revision
<1>0. Alive => Room \in Game
  BY MirrorAssumption DEF MirrorInv, TypeOK, Alive, Room
<1>1. ASSUME BeginCreation PROVE Moves
  <2>. DEFINE r == [Room EXCEPT !.stage = "creating", !.revision = @ + 1]
  <2>1. Alive /\ Room \in Game /\ Keep(r)
    BY <1>0, <1>1 DEF BeginCreation, MayChange
  <2>2. r \in Game
    BY <2>1, StagedType
  <2>3. Room.revision < r.revision
    BY <2>1 DEF Game
  <2>. HIDE DEF r
  <2>. QED BY <2>1, <2>2, <2>3
<1>2. ASSUME NEW open \in BOOLEAN, Configure(open) PROVE Moves
  <2>. DEFINE r == [Room EXCEPT !.stage = "configured", !.open = open, !.revision = @ + 1]
  <2>1. Alive /\ Room \in Game /\ Keep(r)
    BY <1>0, <1>2 DEF Configure, MayChange
  <2>2. r \in Game
    BY <2>1, ConfiguredType
  <2>3. Room.revision < r.revision
    BY <2>1 DEF Game
  <2>. HIDE DEF r
  <2>. QED BY <2>1, <2>2, <2>3
<1>3. ASSUME NEW open \in BOOLEAN, NEW visible \in BOOLEAN, NEW custom \in Custom,
             SetProperties(open, visible, custom)
      PROVE  Moves
  <2>. DEFINE r == [Room EXCEPT !.open = open, !.visible = visible, !.custom = custom,
                                !.revision = @ + 1]
  <2>1. Alive /\ Room \in Game /\ (Publish(r) \/ Keep(r))
    BY <1>0, <1>3 DEF SetProperties, MayChange
  <2>2. r \in Game
    BY <2>1, PropertiesType
  <2>3. Room.revision < r.revision
    BY <2>1 DEF Game
  <2>. HIDE DEF r
  <2>. QED BY <2>1, <2>2, <2>3 DEF Follows
<1>4. ASSUME Join \/ Leave PROVE Moves
  <2>1. Alive /\ Room \in Game
    BY <1>0, <1>4 DEF Join, Leave
  <2>2. PICK n \in 0 .. MaxCount : Publish([Room EXCEPT !.count = n])
    BY <1>4, <2>1, MirrorAssumption DEF Join, Leave, Game
  <2>. DEFINE r == [Room EXCEPT !.count = n]
  <2>3. r \in Game /\ Follows(Room, r)
    BY <2>1 DEF Follows, Shows, Game
  <2>. HIDE DEF r
  <2>. QED BY <2>1, <2>2, <2>3 DEF r
<1>5. ASSUME CommitCreation PROVE Moves
  <2>. DEFINE r == [Room EXCEPT !.stage = "created", !.revision = @ + 1]
  <2>1. Alive /\ Room \in Game /\ Publish(r)
    BY <1>0, <1>5 DEF CommitCreation, MayChange
  <2>2. r \in Game
    BY <2>1, StagedType
  <2>3. Room.revision < r.revision
    BY <2>1 DEF Game
  <2>. HIDE DEF r
  <2>. QED BY <2>1, <2>2, <2>3 DEF Follows
<1>6. ASSUME AbortCreation PROVE Moves
  <2>1. Alive /\ Room \in Game
    BY <1>0, <1>6 DEF AbortCreation, MayChange
  <2>2. PICK n \in Nat : n = Room.revision + 1
    BY <2>1 DEF Game
  <2>. DEFINE r == [NewGame EXCEPT !.revision = n]
  <2>3. Publish(r)
    BY <1>6, <2>2 DEF AbortCreation
  <2>4. r \in Game /\ r.revision = n
    BY NewGameType DEF Game
  <2>. HIDE DEF r
  <2>5. Room.revision < r.revision
    BY <2>1, <2>2, <2>4 DEF Game
  <2>. QED BY <2>1, <2>3, <2>4, <2>5 DEF Follows
<1>. HIDE DEF Moves
<1>7. Moves \/ DeleteGame \/ (\E l \in Links : Receive(l)) \/ \E p \in Processes : Release(p)
  BY <1>1, <1>2, <1>3, <1>4, <1>5, <1>6 DEF Next
<1>. QED BY <1>7 DEF Moves

LEMMA NextPaths == MirrorInv /\ PathInv /\ [Next]_vars => PathInv'
<1>. SUFFICES ASSUME MirrorInv, PathInv, [Next]_vars, Alive' PROVE PathInv'
  BY DEF PathInv
<1>1. TypeOK /\ OwnRoomNotExternal /\ Owner \in Processes
  BY MirrorAssumption DEF MirrorInv
<1>2. CASE UNCHANGED vars
  BY <1>2 DEF vars, PathInv, Alive, Room, NoDeletes, CopiesListed, RoomPublished, RoomPath,
              ForwardPath, Copy
<1>3. ASSUME DeleteGame PROVE FALSE
  BY <1>1, <1>3 DEF DeleteGame, Alive, Room, TypeOK
<1>4. ASSUME NEW k \in Links, ReceiveUpdate(k) PROVE PathInv'
  <2>1. k[2] # Owner
    BY <1>4, ReceivedLinks
  <2>2. Alive
    BY <1>1, <1>4, <2>1, ReceivedCopies DEF Alive, Room
  <2>. QED BY <1>4, <2>2, ReceiveUpdatePaths
<1>5. ASSUME NEW k \in Links, NEW used \in BOOLEAN, ReceiveDelete(k, used) PROVE FALSE
  <2>1. Alive
    BY <1>1, <1>5 DEF ReceiveDelete, Alive, Room, OwnRoomNotExternal, TypeOK
  <2>2. NoDeletes
    BY <2>1 DEF PathInv
  <2>3. link[k] \in Seq(Message) /\ link[k] # << >> /\ Head(link[k]).code = "delete"
    BY <1>1, <1>5 DEF ReceiveDelete, TypeOK
  <2>4. Head(link[k]) = link[k][1] /\ 1 \in 1 .. Len(link[k])
    BY <2>3
  <2>. QED BY <2>2, <2>3, <2>4 DEF NoDeletes
<1>6. ASSUME NEW p \in Processes, Release(p) PROVE FALSE
  <2>1. Alive
    BY <1>1, <1>6 DEF Release, Alive, Room, TypeOK
  <2>. QED BY <1>6, <2>1 DEF PathInv, CopiesListed, Release
<1>7. ASSUME Alive, NEW r \in Game, Publish(r), Follows(Room, r) PROVE PathInv'
  BY <1>7, PublishPaths
<1>8. ASSUME Alive, NEW r \in Game, Keep(r), Room.revision < r.revision PROVE PathInv'
  BY <1>8, KeepPaths
<1>. QED BY <1>2, <1>3, <1>4, <1>5, <1>6, <1>7, <1>8, RoomMoves DEF Receive

LEMMA InitPaths == Init => PathInv
<1>. SUFFICES ASSUME Init PROVE PathInv
  OBVIOUS
<1>1. /\ \A p \in Processes : p # Owner => game[p] = NoGame
      /\ listed = {} /\ shown = NoGame /\ \A l \in Links : link[l] = << >>
  BY DEF Init
<1>2. NoDeletes /\ CopiesListed /\ RoomPublished
  BY <1>1 DEF NoDeletes, CopiesListed, RoomPublished
<1>3. ASSUME NEW p \in Neighbours(Owner) PROVE RoomPath(p)
  BY <1>1, PathLinks DEF RoomPath
<1>4. ASSUME Owner # Parent, NEW c \in Children \ {Owner} PROVE ForwardPath(c)
  <2>1. link[<<Parent, c>>] = << >> /\ game[c] = NoGame /\ game[Parent] = NoGame
    BY <1>1, <1>4, PathLinks
  <2>. QED BY <1>1, <2>1 DEF ForwardPath, Copy
<1>. QED BY <1>2, <1>3, <1>4 DEF PathInv

\* The copies of a living room, whatever updates were sent, dropped and are on
\* their way, for any number of processes and wherever the room is.
THEOREM PathInvariance == Spec => []PathInv
BY InitMirror, NextMirror, InitPaths, NextPaths, PTL DEF Spec

\* A dropped update never hides a change other than of the number of players:
\* once the messages are delivered, the neighbours show what was published last.
THEOREM CopiesAreCurrent == Spec => []MirrorCurrent
<1>1. PathInv => MirrorCurrent
  <2>. SUFFICES ASSUME PathInv, Drained, Alive, shown # NoGame, NEW p \in Neighbours(Owner)
               PROVE  /\ p \in listed /\ game[p] # NoGame
                      /\ Shows(game[p], shown)
                      /\ game[p].count = shown.count \/ p \in missed
    BY DEF MirrorCurrent
  <2>1. RoomPath(p) /\ CopiesListed /\ p \in Processes \ {Owner} /\ link[<<Owner, p>>] = << >>
    BY PathLinks DEF PathInv, Drained
  <2>2. p \in listed
    BY <2>1 DEF RoomPath
  <2>. QED BY <2>1, <2>2 DEF RoomPath, CopiesListed
<1>. QED BY <1>1, PathInvariance, PTL

\* The processes that only the Parent tells of a room follow it when it is opened
\* and closed, although the Parent passes on no other update.
THEOREM OpeningIsForwarded == Spec => []PropertiesForwarded
<1>1. PathInv /\ MirrorCurrent => PropertiesForwarded
  <2>. SUFFICES ASSUME PathInv, MirrorCurrent, Drained, Alive, shown # NoGame,
                       NEW p \in Processes \ {Owner}
               PROVE  Copy(p).open = shown.open
    BY DEF PropertiesForwarded
  <2>1. ASSUME NEW n \in Neighbours(Owner) PROVE Copy(n).open = shown.open
    BY <2>1 DEF MirrorCurrent, Copy, Shows
  <2>2. CASE p \in Neighbours(Owner)
    BY <2>1, <2>2
  <2>3. CASE p \notin Neighbours(Owner)
    <3>1. Owner # Parent /\ p \in Children \ {Owner} /\ Parent \in Neighbours(Owner)
      BY <2>3, MirrorAssumption DEF Neighbours, Processes
    <3>2. ForwardPath(p) /\ link[<<Parent, p>>] = << >>
      BY <3>1, PathLinks DEF PathInv, Drained
    <3>. QED BY <2>1, <3>1, <3>2 DEF ForwardPath
  <2>. QED BY <2>2, <2>3
<1>. QED BY <1>1, PathInvariance, CopiesAreCurrent, PTL
=============================================================================
