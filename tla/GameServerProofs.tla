-------------------------- MODULE GameServerProofs --------------------------
(***************************************************************************)
(* The safety of joining, creating, leaving and disconnecting, for any     *)
(* number of connections, users and requests, any limits and any number of *)
(* reservations.                                                           *)
(*                                                                         *)
(* None of the properties is inductive on its own.  IInv ties the lease in *)
(* the room to the handler and the coroutine that hold it (HandlerInv,     *)
(* CoroutineInv, LeaseInv) and the reservation tables to the snapshot an   *)
(* abort restores (InitialUsersInv, GenerationsInv).  The first part says  *)
(* what each method of Game keeps: RoomInv, the part of IInv about the     *)
(* room alone, the seats, and whom the list of peers holds.  What is left  *)
(* to show for an action is who holds the lease, where the coroutines are, *)
(* and, for AnnouncedStay, whom a coroutine counts on (PresenceInv).       *)
(***************************************************************************)
EXTENDS GameServer, FiniteSetTheorems, WellFoundedInduction, TLAPS

\* UncreatedRoomHasNoMembers, for room g.
OwnerOnly(g) == ~g.created => \A n \in g.peers : g.creating /\ n.peer = g.owner

\* MembersDistinct, for room g.
Distinct(g) ==
    \A m, n \in g.peers :
        m # n => /\ m.actor # n.actor
                 /\ g.config.check => UserOf[m.peer] # UserOf[n.peer]

\* ReservationsExpire, for room g.
Expiring(g) ==
    \A u \in Users : g.expected[u] # 0 => <<u, g.expected[u]>> \in g.expiries

\* InitialUsersInv, for room g.
InitialKept(g) ==
    g.creating =>
        InitialUsers(g) =
            {u \in ExpectedUsers(g) : g.ownReserved[u] # g.expected[u]}
                \cup g.ownRemoved

\* GenerationsInv, for room g.
Drawn(g) ==
    \A u \in Users :
        /\ g.expected[u] <= g.reservations
        /\ g.initialExpected[u] <= g.reservations
        /\ g.ownReserved[u] # 0 => g.ownReserved[u] # g.initialExpected[u]

RoomInv(g) == OwnerOnly(g) /\ Distinct(g) /\ Expiring(g) /\ InitialKept(g) /\ Drawn(g)

\* The fields that only the creation transaction changes.
SameLease(g, h) ==
    /\ h.created = g.created
    /\ h.creating = g.creating
    /\ h.owner = g.owner
    /\ h.generation = g.generation

-----------------------------------------------------------------------------
(* The minima that create_peer(), find_peer() and remove_peer() look for. *)

\* A non-empty set of naturals has a least element.
LEMMA LeastNatural ==
    ASSUME NEW S \in SUBSET Nat, S # {}
    PROVE  \E x \in S : \A y \in S : x <= y
<1>1. PICK x \in S : \A y \in S : <<y, x>> \notin OpToRel(<, Nat)
    BY WFMin, NatLessThanWellFounded, Zenon
<1>2. \A y \in S : ~(y < x)
    BY <1>1 DEF OpToRel
<1> QED
    BY <1>2

\* The index of a node in the list is a number.
LEMMA PositionType ==
    ASSUME NEW n \in Node
    PROVE  Position(n) \in Nat
<1>1. IsFiniteSet(Actors)
    BY FS_Interval, GameAssumption DEF Actors
<1>2. n.before \in SUBSET Actors
    BY DEF Node
<1> QED
    BY <1>1, <1>2, FS_Subset, FS_CardinalityType DEF Position

\* find_peer() and remove_peer(): the front of a non-empty list is in it.
LEMMA FrontIn ==
    ASSUME NEW nodes \in SUBSET Node, nodes # {}
    PROVE  Front(nodes) \in nodes
<1> DEFINE S == {Position(n) : n \in nodes}
<1>1. S \in SUBSET Nat /\ S # {}
    BY PositionType
<1> HIDE DEF S
<1>2. PICK x \in S : \A y \in S : x <= y
    BY <1>1, LeastNatural
<1>3. \E n \in nodes : \A m \in nodes : Position(n) <= Position(m)
    BY <1>2, Zenon DEF S
<1> QED
    BY <1>3 DEF Front

\* create_peer() finds a number when one is free, and it is a free one.
LEMMA NextActorFree ==
    ASSUME NEW g \in GameState, FreeActors(g) # {}
    PROVE  NextActor(g) \in FreeActors(g)
<1> DEFINE S == {Distance(g, a) : a \in FreeActors(g)}
<1>1. S \in SUBSET Nat /\ S # {}
    BY GameAssumption DEF Distance, FreeActors, Actors, GameState, Config
<1> HIDE DEF S
<1>2. PICK x \in S : \A y \in S : x <= y
    BY <1>1, LeastNatural
<1>3. \E a \in FreeActors(g) : \A b \in FreeActors(g) : Distance(g, a) <= Distance(g, b)
    BY <1>2, Zenon DEF S
<1> QED
    BY <1>3 DEF NextActor

\* actor_id_for_peer(): a member has an actor number, anyone else has none.
LEMMA ActorOfType ==
    ASSUME NEW g \in GameState, NEW p \in Peers
    PROVE  /\ ActorOf(g, p) \in 0 .. MaxActor
           /\ IsMember(g, p) => ActorOf(g, p) \in Actors
           /\ ~IsMember(g, p) => ActorOf(g, p) = 0
<1>1. NodesOf(g, p) \in SUBSET Node
    BY DEF NodesOf, GameState
<1>2. ASSUME IsMember(g, p)
      PROVE  ActorOf(g, p) \in Actors
    <2>1. FirstNode(g, p) \in Node
        BY <1>1, <1>2, FrontIn DEF IsMember, FirstNode
    <2> QED
        BY <2>1, <1>2 DEF ActorOf, Node
<1> QED
    BY <1>2, GameAssumption DEF ActorOf, Actors

-----------------------------------------------------------------------------
(* Reservations. *)

\* reserve_expected_user_with_generation() keeps the room's invariant and only
\* adds users, each with a scheduled expiry.
LEMMA ReserveKeeps ==
    ASSUME NEW g \in GameState, NEW users \in SUBSET Users
    PROVE  /\ Reserve(g, users) \in GameState
           /\ SameLease(g, Reserve(g, users))
           /\ Reserve(g, users).peers = g.peers
           /\ Reserve(g, users).config = g.config
           /\ ExpectedUsers(Reserve(g, users)) = ExpectedUsers(g) \cup users
           /\ Expiring(g) => Expiring(Reserve(g, users))
           /\ Drawn(g) => Drawn(Reserve(g, users))
           /\ RoomInv(g) => RoomInv(Reserve(g, users))
<1> DEFINE new == users \ ExpectedUsers(g)
           gen == g.reservations + 1
           h == Reserve(g, users)
<1>1. CASE new = {}
    <2>1. h = g
        BY <1>1 DEF Reserve
    <2>2. users \subseteq ExpectedUsers(g)
        BY <1>1
    <2> QED
        BY <2>1, <2>2 DEF SameLease
<1>2. CASE new # {}
    <2>1. h = [g EXCEPT
                 !.reservations = gen,
                 !.expected = [u \in Users |-> IF u \in new THEN gen ELSE g.expected[u]],
                 !.ownReserved = [u \in Users |-> IF g.creating /\ u \in new THEN gen
                                                  ELSE g.ownReserved[u]],
                 !.expiries = g.expiries \cup {<<u, gen>> : u \in new}]
        BY <1>2 DEF Reserve, GameState
    <2>2. h \in GameState
        <3>1. /\ gen \in Nat
              /\ [u \in Users |-> IF u \in new THEN gen ELSE g.expected[u]] \in [Users -> Nat]
              /\ [u \in Users |-> IF g.creating /\ u \in new THEN gen
                                  ELSE g.ownReserved[u]] \in [Users -> Nat]
              /\ g.expiries \cup {<<u, gen>> : u \in new} \in SUBSET (Users \X Nat)
            BY DEF GameState
        <3> HIDE DEF h, new, gen
        <3> QED
            BY <2>1, <3>1 DEF GameState
    <2>3. /\ SameLease(g, h)
          /\ h.peers = g.peers /\ h.config = g.config
          /\ h.initialExpected = g.initialExpected /\ h.ownRemoved = g.ownRemoved
        BY <2>1 DEF GameState, SameLease
    <2>4. /\ gen \in Nat \ {0}
          /\ \A u \in Users : h.expected[u] = IF u \in new THEN gen ELSE g.expected[u]
          /\ h.expiries = g.expiries \cup {<<u, gen>> : u \in new}
          /\ \A u \in Users : h.ownReserved[u] =
                IF g.creating /\ u \in new THEN gen ELSE g.ownReserved[u]
          /\ h.reservations = gen
        BY <2>1 DEF GameState
    <2> HIDE DEF h
    <2>5. ExpectedUsers(h) = ExpectedUsers(g) \cup users
        BY <2>4 DEF ExpectedUsers
    <2>6. Expiring(g) => Expiring(h)
        BY <2>4 DEF Expiring
    <2>7. InitialKept(g) => InitialKept(h)
        <3>1. \A u \in new : u \in Users /\ u \notin ExpectedUsers(g)
            OBVIOUS
        <3> HIDE DEF new, gen
        <3> QED
            BY <2>3, <2>4, <2>5, <3>1 DEF InitialKept, InitialUsers, ExpectedUsers,
                                              SameLease
    <2>8. Drawn(g) => Drawn(h)
        <3>1. /\ g.reservations \in Nat /\ gen = g.reservations + 1
              /\ \A u \in Users : g.expected[u] \in Nat /\ g.initialExpected[u] \in Nat
            BY DEF GameState
        <3> HIDE DEF new, gen
        <3> QED
            BY <2>3, <2>4, <3>1 DEF Drawn
    <2> QED
        BY <2>2, <2>3, <2>5, <2>6, <2>7, <2>8 DEF RoomInv, OwnerOnly, Distinct, SameLease, h
<1> QED
    BY <1>1, <1>2

\* remove_expected_user() keeps the room's invariant and removes one user.
LEMMA RemoveExpectedKeeps ==
    ASSUME NEW g \in GameState, NEW u \in Users
    PROVE  /\ RemoveExpected(g, u) \in GameState
           /\ SameLease(g, RemoveExpected(g, u))
           /\ RemoveExpected(g, u).peers = g.peers
           /\ RemoveExpected(g, u).config = g.config
           /\ RemoveExpected(g, u).expiries = g.expiries
           /\ \A v \in Users : RemoveExpected(g, u).expected[v] =
                                   IF v = u THEN 0 ELSE g.expected[v]
           /\ InitialKept(g) => InitialKept(RemoveExpected(g, u))
           /\ Drawn(g) => Drawn(RemoveExpected(g, u))
           /\ RoomInv(g) => RoomInv(RemoveExpected(g, u))
<1> DEFINE h == RemoveExpected(g, u)
<1>1. CASE g.expected[u] = 0
    BY <1>1 DEF RemoveExpected, SameLease
<1>2. CASE g.expected[u] # 0
    <2>1. h = [g EXCEPT !.ownRemoved = g.ownRemoved \cup RemovedByOthers(g, u),
                        !.expected = [g.expected EXCEPT ![u] = 0]]
        BY <1>2 DEF RemoveExpected, GameState
    <2>2. RemovedByOthers(g, u) \in SUBSET Users
        BY DEF RemovedByOthers
    <2>3. h \in GameState
        <3>1. [g.expected EXCEPT ![u] = 0] \in [Users -> Nat]
            BY DEF GameState
        <3> HIDE DEF h
        <3> QED
            BY <2>1, <2>2, <3>1 DEF GameState
    <2>4. /\ SameLease(g, h)
          /\ h.peers = g.peers /\ h.config = g.config /\ h.expiries = g.expiries
          /\ h.initialExpected = g.initialExpected /\ h.ownReserved = g.ownReserved
          /\ h.reservations = g.reservations
          /\ h.ownRemoved = g.ownRemoved \cup RemovedByOthers(g, u)
          /\ \A v \in Users : h.expected[v] = IF v = u THEN 0 ELSE g.expected[v]
        BY <2>1 DEF GameState, SameLease
    <2> HIDE DEF h
    <2>5. Expiring(g) => Expiring(h)
        BY <2>4 DEF Expiring
    <2>6. InitialKept(g) => InitialKept(h)
        BY <1>2, <2>4 DEF InitialKept, InitialUsers, ExpectedUsers, SameLease,
                           RemovedByOthers
    <2>7. Drawn(g) => Drawn(h)
        <3>1. g.reservations \in Nat
            BY DEF GameState
        <3> QED
            BY <2>4, <3>1 DEF Drawn
    <2> QED
        BY <2>3, <2>4, <2>5, <2>6, <2>7 DEF RoomInv, OwnerOnly, Distinct, SameLease, h
<1> QED
    BY <1>1, <1>2

\* remove_expected_user_if_generation() removes exactly the reservations of the
\* given generations.  It does not record them for the abort, so it keeps the
\* room's invariant only outside a creation.
LEMMA RemoveIfGenerationKeeps ==
    ASSUME NEW g \in GameState, NEW gens \in [Users -> Nat]
    PROVE  /\ RemoveIfGeneration(g, gens) \in GameState
           /\ SameLease(g, RemoveIfGeneration(g, gens))
           /\ RemoveIfGeneration(g, gens).peers = g.peers
           /\ RemoveIfGeneration(g, gens).config = g.config
           /\ \A u \in Users : RemoveIfGeneration(g, gens).expected[u] =
                 IF gens[u] # 0 /\ g.expected[u] = gens[u] THEN 0 ELSE g.expected[u]
           /\ Expiring(g) => Expiring(RemoveIfGeneration(g, gens))
           /\ Drawn(g) => Drawn(RemoveIfGeneration(g, gens))
           /\ RoomInv(g) /\ ~g.creating => RoomInv(RemoveIfGeneration(g, gens))
<1> DEFINE h == RemoveIfGeneration(g, gens)
<1>1. h = [g EXCEPT !.expected =
              [u \in Users |-> IF gens[u] # 0 /\ g.expected[u] = gens[u] THEN 0
                               ELSE g.expected[u]]]
    BY DEF RemoveIfGeneration, GameState
<1>2. h \in GameState
    BY <1>1 DEF GameState
<1>3. /\ SameLease(g, h)
      /\ h.peers = g.peers /\ h.config = g.config /\ h.expiries = g.expiries
      /\ h.initialExpected = g.initialExpected /\ h.ownReserved = g.ownReserved
      /\ h.reservations = g.reservations
      /\ \A u \in Users : h.expected[u] =
            IF gens[u] # 0 /\ g.expected[u] = gens[u] THEN 0 ELSE g.expected[u]
    BY <1>1 DEF GameState, SameLease
<1> HIDE DEF h
<1>4. Expiring(g) => Expiring(h)
    BY <1>3 DEF Expiring
<1>5. Drawn(g) => Drawn(h)
    <2>1. g.reservations \in Nat
        BY DEF GameState
    <2> QED
        BY <1>3, <2>1 DEF Drawn
<1> QED
    BY <1>2, <1>3, <1>4, <1>5 DEF RoomInv, OwnerOnly, Distinct, InitialKept, SameLease, h

\* The scheduled expiry of a reservation keeps the room's invariant: it retires
\* its own task and, with it, only the reservation the task belongs to.
LEMMA RunExpiryKeeps ==
    ASSUME NEW g \in GameState, NEW task \in g.expiries
    PROVE  /\ RunExpiry(g, task) \in GameState
           /\ SameLease(g, RunExpiry(g, task))
           /\ RunExpiry(g, task).peers = g.peers
           /\ RoomInv(g) => RoomInv(RunExpiry(g, task))
<1> DEFINE u == task[1]
           g1 == [g EXCEPT !.expiries = @ \ {task}]
           h == RunExpiry(g, task)
<1>1. /\ u \in Users
      /\ task = <<u, task[2]>>
    BY DEF GameState
<1>2. g1 \in GameState
    BY DEF GameState
<1>3. /\ SameLease(g, g1)
      /\ g1.peers = g.peers /\ g1.config = g.config
      /\ g1.expected = g.expected
      /\ g1.expiries = g.expiries \ {task}
      /\ g1.initialExpected = g.initialExpected
      /\ g1.ownReserved = g.ownReserved /\ g1.ownRemoved = g.ownRemoved
      /\ g1.reservations = g.reservations
    BY DEF GameState, SameLease
<1>4. h = IF g.expected[u] = task[2] THEN RemoveExpected(g1, u) ELSE g1
    BY DEF RunExpiry
<1> HIDE DEF g1, h, u
<1>5. h \in GameState /\ SameLease(g, h) /\ h.peers = g.peers /\ h.config = g.config
    BY <1>1, <1>2, <1>3, <1>4, RemoveExpectedKeeps DEF SameLease
<1>6. Expiring(g) => Expiring(h)
    BY <1>1, <1>2, <1>3, <1>4, RemoveExpectedKeeps DEF Expiring
<1>7. InitialKept(g) => InitialKept(g1)
    BY <1>3 DEF InitialKept, InitialUsers, ExpectedUsers, SameLease
<1>8. InitialKept(g) => InitialKept(h)
    BY <1>1, <1>2, <1>4, <1>7, RemoveExpectedKeeps
<1>9. Drawn(g) => Drawn(h)
    <2>1. Drawn(g) => Drawn(g1)
        BY <1>3 DEF Drawn
    <2> QED
        BY <1>1, <1>2, <1>4, <2>1, RemoveExpectedKeeps
<1> QED
    BY <1>5, <1>6, <1>8, <1>9 DEF RoomInv, OwnerOnly, Distinct, SameLease, h

-----------------------------------------------------------------------------
(* Members. *)

\* add_peer() and add_peer_for_creation() keep the room's invariant, provided
\* the room is created or is being created by the new member.
LEMMA AddNodeKeeps ==
    ASSUME NEW g \in GameState, NEW p \in Peers,
           FreeActors(g) # {}, MayAdd(g, p),
           ~g.created => g.creating /\ g.owner = p
    PROVE  /\ AddNode(g, p) \in GameState
           /\ SameLease(g, AddNode(g, p))
           /\ NextActor(g) \in Actors
           /\ IsMember(AddNode(g, p), p)
           /\ \A q \in Peers : IsMember(AddNode(g, p), q) => q = p \/ IsMember(g, q)
           /\ RoomInv(g) => RoomInv(AddNode(g, p))
<1> DEFINE a == NextActor(g)
           node == [actor |-> a, peer |-> p, before |-> ActorsIn(g)]
           g1 == [g EXCEPT !.config.lastActor = a, !.peers = @ \cup {node}]
<1>1. a \in Actors /\ a \notin ActorsIn(g)
    BY NextActorFree DEF FreeActors
<1>2. node \in Node
    <2>1. ActorsIn(g) \in SUBSET Actors
        BY DEF ActorsIn, GameState, Node
    <2> QED
        BY <1>1, <2>1 DEF Node
<1>3. /\ node.actor = a /\ node.peer = p
      /\ AddNode(g, p) = RemoveExpected(g1, UserOf[p])
    BY DEF AddNode
<1> HIDE DEF a, node
<1>4. /\ g1 \in GameState
      /\ SameLease(g, g1)
      /\ g1.peers = g.peers \cup {node}
      /\ g1.config.check = g.config.check
      /\ g1.expected = g.expected /\ g1.expiries = g.expiries
      /\ g1.initialExpected = g.initialExpected
      /\ g1.ownReserved = g.ownReserved /\ g1.ownRemoved = g.ownRemoved
      /\ g1.reservations = g.reservations
    <2>1. [g.config EXCEPT !.lastActor = a] \in Config
        BY <1>1, GameAssumption DEF Actors, GameState, Config
    <2>2. g1 = [g EXCEPT !.config = [g.config EXCEPT !.lastActor = a],
                         !.peers = g.peers \cup {node}]
        BY DEF GameState
    <2>3. g1 \in GameState
        BY <1>2, <2>1, <2>2 DEF GameState
    <2>4. g1.config = [g.config EXCEPT !.lastActor = a]
        BY <2>2 DEF GameState
    <2>5. g1.config.check = g.config.check
        BY <2>4 DEF GameState, Config
    <2> QED
        BY <2>2, <2>3, <2>5 DEF GameState, SameLease
<1> HIDE DEF g1
<1>5. UserOf[p] \in Users
    BY GameAssumption
<1>6. /\ AddNode(g, p) \in GameState
      /\ SameLease(g, AddNode(g, p))
      /\ AddNode(g, p).peers = g.peers \cup {node}
    BY <1>3, <1>4, <1>5, RemoveExpectedKeeps DEF SameLease
<1>7. RoomInv(g) => RoomInv(AddNode(g, p))
    <2> SUFFICES ASSUME RoomInv(g) PROVE RoomInv(g1)
        BY <1>3, <1>4, <1>5, RemoveExpectedKeeps
    <2>1. OwnerOnly(g1)
        BY <1>3, <1>4 DEF RoomInv, OwnerOnly, SameLease
    <2>2. Distinct(g1)
        BY <1>1, <1>3, <1>4 DEF RoomInv, Distinct, MayAdd, ActorsIn
    <2>3. Expiring(g1)
        BY <1>4 DEF RoomInv, Expiring
    <2>4. InitialKept(g1)
        BY <1>4 DEF RoomInv, InitialKept, InitialUsers, ExpectedUsers, SameLease
    <2>5. Drawn(g1)
        BY <1>4 DEF RoomInv, Drawn
    <2> QED
        BY <2>1, <2>2, <2>3, <2>4, <2>5 DEF RoomInv
<1> QED
    BY <1>1, <1>3, <1>6, <1>7 DEF IsMember, NodesOf, a

\* remove_peer() keeps the room's invariant and removes the peer, only it, and
\* all of its nodes.
LEMMA RemovePeerKeeps ==
    ASSUME NEW g \in GameState, NEW p \in Peers
    PROVE  /\ RemovePeer(g, p) \in GameState
           /\ SameLease(g, RemovePeer(g, p))
           /\ ~IsMember(RemovePeer(g, p), p)
           /\ \A q \in Peers : IsMember(RemovePeer(g, p), q) => IsMember(g, q)
           /\ RoomInv(g) => RoomInv(RemovePeer(g, p))
<1> DEFINE leaving == {n.actor : n \in NodesOf(g, p)}
           rest == {[n EXCEPT !.before = @ \ leaving] : n \in g.peers \ NodesOf(g, p)}
           m == IF rest # {} /\ Back(NodesOf(g, p)).actor = g.config.master
                THEN Front(rest).actor ELSE g.config.master
           h == RemovePeer(g, p)
<1>1. CASE leaving = {}
    <2>1. h = g
        BY <1>1 DEF RemovePeer
    <2>2. ~IsMember(g, p)
        BY <1>1 DEF IsMember
    <2> QED
        BY <2>1, <2>2 DEF SameLease
<1>2. CASE leaving # {}
    <2>1. rest \in SUBSET Node
        BY DEF GameState, Node
    <2>2. \A k \in rest : \E n \in g.peers :
              n.peer # p /\ k.peer = n.peer /\ k.actor = n.actor
                 /\ k = [n EXCEPT !.before = @ \ leaving]
        BY DEF GameState, Node, NodesOf
    <2>3. m \in Nat
        <3>1. g.config.master \in Nat
            BY DEF GameState, Config
        <3>2. ASSUME rest # {}
              PROVE  Front(rest).actor \in Nat
            <4>1. Front(rest) \in Node
                BY <2>1, <3>2, FrontIn
            <4> QED
                BY <4>1, GameAssumption DEF Node, Actors
        <3> QED
            BY <3>1, <3>2
    <2>4. h = [g EXCEPT !.peers = rest, !.config = [g.config EXCEPT !.master = m]]
        BY <1>2 DEF RemovePeer, GameState
    <2> HIDE DEF rest, leaving, m, h
    <2>5. [g.config EXCEPT !.master = m] \in Config
        BY <2>3 DEF GameState, Config
    <2>6. /\ h \in GameState
          /\ h.config = [g.config EXCEPT !.master = m]
          /\ h.peers = rest
          /\ SameLease(g, h)
          /\ h.expected = g.expected /\ h.expiries = g.expiries
          /\ h.initialExpected = g.initialExpected
          /\ h.ownReserved = g.ownReserved /\ h.ownRemoved = g.ownRemoved
          /\ h.reservations = g.reservations
        BY <2>1, <2>4, <2>5 DEF GameState, SameLease
    <2>7. h.config.check = g.config.check
        BY <2>6 DEF GameState, Config
    <2>8. RoomInv(g) => RoomInv(h)
        <3> SUFFICES ASSUME RoomInv(g) PROVE RoomInv(h)
            OBVIOUS
        <3>1. OwnerOnly(h)
            BY <2>2, <2>6 DEF RoomInv, OwnerOnly, SameLease
        <3>2. Distinct(h)
            <4> SUFFICES ASSUME NEW k \in rest, NEW l \in rest, k # l
                         PROVE  /\ k.actor # l.actor
                                /\ g.config.check => UserOf[k.peer] # UserOf[l.peer]
                BY <2>6, <2>7 DEF Distinct
            <4>1. PICK n \in g.peers : k.peer = n.peer /\ k.actor = n.actor
                                           /\ k = [n EXCEPT !.before = @ \ leaving]
                BY <2>2
            <4>2. PICK o \in g.peers : l.peer = o.peer /\ l.actor = o.actor
                                           /\ l = [o EXCEPT !.before = @ \ leaving]
                BY <2>2
            <4>3. n # o
                BY <4>1, <4>2
            <4> QED
                BY <4>1, <4>2, <4>3 DEF RoomInv, Distinct
        <3>3. Expiring(h)
            BY <2>6 DEF RoomInv, Expiring
        <3>4. InitialKept(h)
            BY <2>6 DEF RoomInv, InitialKept, InitialUsers, ExpectedUsers, SameLease
        <3>5. Drawn(h)
            BY <2>6 DEF RoomInv, Drawn
        <3> QED
            BY <3>1, <3>2, <3>3, <3>4, <3>5 DEF RoomInv
    <2>9. ~IsMember(h, p) /\ \A q \in Peers : IsMember(h, q) => IsMember(g, q)
        BY <2>2, <2>6 DEF IsMember, NodesOf
    <2> QED
        BY <2>6, <2>8, <2>9 DEF h
<1> QED
    BY <1>1, <1>2

-----------------------------------------------------------------------------
(* The creation transaction. *)

\* try_begin_creation() takes a lease of a fresh generation on an empty room and
\* keeps the room's invariant.
LEMMA BeginCreationKeeps ==
    ASSUME NEW g \in GameState, NEW p \in Peers, MayBeginCreation(g)
    PROVE  /\ BeginCreation(g, p) \in GameState
           /\ BeginCreation(g, p).created = FALSE
           /\ BeginCreation(g, p).creating = TRUE
           /\ BeginCreation(g, p).owner = p
           /\ BeginCreation(g, p).generation = g.generation + 1
           /\ \A q \in Peers : ~IsMember(BeginCreation(g, p), q)
           /\ RoomInv(g) => RoomInv(BeginCreation(g, p))
<1> DEFINE h == BeginCreation(g, p)
<1>1. g.expected \in [Users -> Nat]
    BY DEF GameState
<1>2. h = [g EXCEPT !.creating = TRUE,
                    !.owner = p,
                    !.generation = g.generation + 1,
                    !.initial = g.config,
                    !.initialExpected = g.expected,
                    !.ownReserved = [u \in Users |-> 0],
                    !.ownRemoved = {}]
    BY DEF BeginCreation, GameState
<1> HIDE DEF h
<1>3. h \in GameState
    <2> DEFINE none == [u \in Users |-> 0]
               next == g.generation + 1
    <2>1. none \in [Users -> Nat] /\ next \in Nat
        BY DEF GameState
    <2> HIDE DEF none, next
    <2>2. h = [g EXCEPT !.creating = TRUE, !.owner = p, !.generation = next,
                        !.initial = g.config, !.initialExpected = g.expected,
                        !.ownReserved = none, !.ownRemoved = {}]
        BY <1>2 DEF none, next
    <2> QED
        BY <1>1, <2>1, <2>2 DEF GameState
<1>4. /\ h.created = FALSE /\ h.creating = TRUE
      /\ h.owner = p /\ h.generation = g.generation + 1
      /\ h.peers = {}
      /\ h.expected = g.expected /\ h.expiries = g.expiries
      /\ h.initialExpected = g.expected /\ h.ownRemoved = {}
      /\ h.reservations = g.reservations
      /\ \A u \in Users : h.ownReserved[u] = 0
    BY <1>2 DEF GameState, MayBeginCreation
<1>5. \A q \in Peers : ~IsMember(h, q)
    BY <1>4 DEF IsMember, NodesOf
<1>6. InitialKept(h)
    BY <1>4 DEF InitialKept, InitialUsers, ExpectedUsers
<1>7. Expiring(g) => Expiring(h)
    BY <1>4 DEF Expiring
<1>8. Drawn(g) => Drawn(h)
    BY <1>4 DEF Drawn
<1> QED
    BY <1>3, <1>4, <1>5, <1>6, <1>7, <1>8 DEF RoomInv, OwnerOnly, Distinct, h

\* The creator's settings keep the room's invariant when the creator may still
\* be added afterwards: switching CheckUserOnJoin on with two nodes of one user
\* in the room would break it.
LEMMA SettingsKeep ==
    ASSUME NEW g \in GameState, NEW p \in Peers, NEW max \in Nat, NEW check \in BOOLEAN,
           ~g.created, g.owner = p, RoomInv(g),
           MayAdd(Configure(g, max, check), p)
    PROVE  LET h == Configure(g, max, check)
           IN  h \in GameState /\ SameLease(g, h) /\ h.peers = g.peers /\ RoomInv(h)
<1> DEFINE h == Configure(g, max, check)
           c == [g.config EXCEPT !.max = max, !.check = check]
<1>0. c \in Config /\ h = [g EXCEPT !.config = c]
    BY DEF GameState, Config, Configure
<1> HIDE DEF h, c
<1>1. /\ h \in GameState
      /\ SameLease(g, h) /\ h.peers = g.peers
      /\ h.expected = g.expected /\ h.expiries = g.expiries
      /\ h.initialExpected = g.initialExpected
      /\ h.ownReserved = g.ownReserved /\ h.ownRemoved = g.ownRemoved
      /\ h.reservations = g.reservations
    BY <1>0 DEF GameState, SameLease
<1>2. OwnerOnly(h)
    BY <1>1 DEF RoomInv, OwnerOnly, SameLease
<1>3. h.config.check => h.peers = {}
    BY <1>1, <1>2 DEF OwnerOnly, MayAdd, SameLease, h
<1>4. Distinct(h)
    BY <1>1, <1>3 DEF RoomInv, Distinct
<1>5. Expiring(h)
    BY <1>1 DEF RoomInv, Expiring
<1>6. InitialKept(h)
    BY <1>1 DEF RoomInv, InitialKept, InitialUsers, ExpectedUsers, SameLease
<1>7. Drawn(h)
    BY <1>1 DEF RoomInv, Drawn
<1> QED
    BY <1>1, <1>2, <1>4, <1>5, <1>6, <1>7 DEF RoomInv, h

\* commit_creation() ends the transaction and keeps the room's invariant; the
\* creator may close the room in the same step.
LEMMA CommitCreationKeeps ==
    ASSUME NEW g \in GameState, NEW open \in BOOLEAN
    PROVE  LET h == CommitCreation([g EXCEPT !.config.open = open])
           IN  /\ h \in GameState
               /\ h.created = TRUE /\ h.creating = FALSE
               /\ h.generation = g.generation
               /\ h.peers = g.peers
               /\ RoomInv(g) => RoomInv(h)
<1> DEFINE h == CommitCreation([g EXCEPT !.config.open = open])
<1>1. [g.config EXCEPT !.open = open] \in Config
    BY DEF GameState, Config
<1>2. h = [g EXCEPT !.config = [g.config EXCEPT !.open = open],
                    !.created = TRUE, !.owner = NoPeer, !.creating = FALSE]
    BY DEF CommitCreation, GameState
<1> HIDE DEF h
<1>3. /\ h \in GameState
      /\ h.config = [g.config EXCEPT !.open = open]
      /\ h.created = TRUE /\ h.creating = FALSE
      /\ h.generation = g.generation
      /\ h.peers = g.peers /\ h.expected = g.expected /\ h.expiries = g.expiries
      /\ h.initialExpected = g.initialExpected /\ h.ownReserved = g.ownReserved
      /\ h.reservations = g.reservations
    BY <1>1, <1>2 DEF GameState
<1>4. h.config.check = g.config.check
    BY <1>3 DEF GameState, Config
<1>5. RoomInv(g) => RoomInv(h)
    BY <1>3, <1>4 DEF RoomInv, OwnerOnly, Distinct, Expiring, InitialKept, Drawn
<1> QED
    BY <1>3, <1>5 DEF h

\* abort_creation_transaction() under the current lease: the room is empty,
\* uncreated and configured as before, and the users who were expected when the
\* lease was taken are expected again.
LEMMA AbortCreationRestores ==
    ASSUME NEW g \in GameState, NEW p \in Peers, NEW gen \in Nat,
           IsCreationActive(g, p, gen)
    PROVE  LET h == AbortCreation(g, p, gen)
           IN  /\ h \in GameState
               /\ h.created = FALSE /\ h.creating = FALSE
               /\ h.generation = g.generation
               /\ h.peers = {}
               /\ h.config = g.initial
               /\ RoomInv(g) => ExpectedUsers(h) = InitialUsers(g) /\ RoomInv(h)
<1> DEFINE g1 == RemoveIfGeneration(g, g.ownReserved)
           g2 == Reserve(g1, g.ownRemoved)
           h == AbortCreation(g, p, gen)
<1>1. g.ownReserved \in [Users -> Nat] /\ g.ownRemoved \in SUBSET Users
    BY DEF GameState
<1>2. /\ g1 \in GameState /\ SameLease(g, g1)
      /\ \A u \in Users : g1.expected[u] =
            IF g.ownReserved[u] # 0 /\ g.expected[u] = g.ownReserved[u] THEN 0
            ELSE g.expected[u]
      /\ Expiring(g) => Expiring(g1)
      /\ Drawn(g) => Drawn(g1)
    BY <1>1, RemoveIfGenerationKeeps
<1>3. h = [g2 EXCEPT !.peers = {}, !.ownReserved = [u \in Users |-> 0],
                     !.ownRemoved = {}, !.config = g.initial,
                     !.owner = NoPeer, !.created = FALSE, !.creating = FALSE]
    BY DEF AbortCreation
<1> HIDE DEF g1
<1>4. /\ g2 \in GameState /\ SameLease(g1, g2)
      /\ ExpectedUsers(g2) = ExpectedUsers(g1) \cup g.ownRemoved
    BY <1>1, <1>2, ReserveKeeps
<1>5. /\ Expiring(g1) => Expiring(g2)
      /\ Drawn(g1) => Drawn(g2)
    BY <1>1, <1>2, ReserveKeeps
<1> HIDE DEF g2, h
<1>6. g.initial \in Config
    BY DEF GameState
<1>7. /\ h \in GameState
      /\ h.created = FALSE /\ h.creating = FALSE /\ h.peers = {}
      /\ h.config = g.initial
      /\ h.generation = g.generation
      /\ h.expected = g2.expected /\ h.expiries = g2.expiries
      /\ h.initialExpected = g2.initialExpected /\ h.reservations = g2.reservations
      /\ \A u \in Users : h.ownReserved[u] = 0
    BY <1>2, <1>3, <1>4, <1>6 DEF GameState, SameLease
<1>8. RoomInv(g) => ExpectedUsers(h) = InitialUsers(g)
    <2> SUFFICES ASSUME InitialKept(g) PROVE ExpectedUsers(h) = InitialUsers(g)
        BY DEF RoomInv
    <2>1. ExpectedUsers(h) = ExpectedUsers(g2)
        BY <1>7 DEF ExpectedUsers
    <2>2. ExpectedUsers(g1) = {u \in ExpectedUsers(g) : g.ownReserved[u] # g.expected[u]}
        BY <1>2 DEF ExpectedUsers
    <2> QED
        BY <1>4, <2>1, <2>2 DEF InitialKept, IsCreationActive
<1>9. RoomInv(g) => RoomInv(h)
    BY <1>2, <1>5, <1>7 DEF RoomInv, OwnerOnly, Distinct, Expiring, InitialKept, Drawn
<1> QED
    BY <1>7, <1>8, <1>9 DEF h

-----------------------------------------------------------------------------
(* What the methods do with seats: members and reservations. *)

\* Only new users are given a reservation.
LEMMA ReserveSeats ==
    ASSUME NEW g \in GameState, NEW users \in SUBSET Users
    PROVE  \A u \in Users : g.expected[u] # 0 =>
              Reserve(g, users).expected[u] = g.expected[u]
BY DEF Reserve, ExpectedUsers, GameState

\* An expiry ends the reservation that its task belongs to and no other.
LEMMA RunExpirySeats ==
    ASSUME NEW g \in GameState, NEW task \in g.expiries
    PROVE  /\ RunExpiry(g, task).expiries = g.expiries \ {task}
           /\ \A u \in Users : RunExpiry(g, task).expected[u] # g.expected[u] =>
                 task = <<u, g.expected[u]>>
<1> DEFINE g1 == [g EXCEPT !.expiries = @ \ {task}]
<1>1. task[1] \in Users /\ task = <<task[1], task[2]>>
    BY DEF GameState
<1>2. /\ g1 \in GameState /\ g1.expected = g.expected
      /\ g1.expiries = g.expiries \ {task}
    BY DEF GameState
<1>3. RunExpiry(g, task) =
         IF g.expected[task[1]] = task[2] THEN RemoveExpected(g1, task[1]) ELSE g1
    BY DEF RunExpiry
<1> HIDE DEF g1
<1> QED
    BY <1>1, <1>2, <1>3, RemoveExpectedKeeps

LEMMA AddNodeSeats ==
    ASSUME NEW g \in GameState, NEW p \in Peers, FreeActors(g) # {}
    PROVE  /\ \E n \in Node : /\ AddNode(g, p).peers = g.peers \cup {n}
                              /\ n \notin g.peers /\ n.peer = p /\ n.actor = NextActor(g)
           /\ \A u \in Users : AddNode(g, p).expected[u] =
                                   IF u = UserOf[p] THEN 0 ELSE g.expected[u]
           /\ AddNode(g, p).config.max = g.config.max
<1> DEFINE a == NextActor(g)
           n == [actor |-> a, peer |-> p, before |-> ActorsIn(g)]
           g1 == [g EXCEPT !.config.lastActor = a, !.peers = @ \cup {n}]
<1>1. a \in Actors /\ a \notin ActorsIn(g)
    BY NextActorFree DEF FreeActors
<1>2. n \in Node
    <2>1. ActorsIn(g) \in SUBSET Actors
        BY DEF ActorsIn, GameState, Node
    <2> QED
        BY <1>1, <2>1 DEF Node
<1>3. /\ n.actor = a /\ n.peer = p
      /\ AddNode(g, p) = RemoveExpected(g1, UserOf[p])
    BY DEF AddNode
<1> HIDE DEF a, n
<1>4. n \notin g.peers
    BY <1>1, <1>3 DEF ActorsIn
<1>5. /\ g1 \in GameState /\ g1.peers = g.peers \cup {n} /\ g1.expected = g.expected
      /\ g1.config.max = g.config.max
    <2>1. [g.config EXCEPT !.lastActor = a] \in Config
        BY <1>1, GameAssumption DEF Actors, GameState, Config
    <2>2. g1 = [g EXCEPT !.config = [g.config EXCEPT !.lastActor = a],
                         !.peers = g.peers \cup {n}]
        BY DEF GameState
    <2>3. g1 \in GameState
        BY <1>2, <2>1, <2>2 DEF GameState
    <2>4. g1.config = [g.config EXCEPT !.lastActor = a]
        BY <2>2 DEF GameState
    <2>5. g1.config.max = g.config.max
        BY <2>4 DEF GameState, Config
    <2> QED
        BY <2>2, <2>3, <2>5 DEF GameState
<1> HIDE DEF g1
<1>6. UserOf[p] \in Users
    BY GameAssumption
<1>7. /\ AddNode(g, p).peers = g.peers \cup {n}
      /\ \A u \in Users : AddNode(g, p).expected[u] =
                              IF u = UserOf[p] THEN 0 ELSE g.expected[u]
      /\ AddNode(g, p).config.max = g.config.max
    BY <1>3, <1>5, <1>6, RemoveExpectedKeeps
<1> QED
    BY <1>2, <1>3, <1>4, <1>7 DEF a

\* Who stays keeps the actor number.
LEMMA RemovePeerSeats ==
    ASSUME NEW g \in GameState, NEW p \in Peers
    PROVE  /\ RemovePeer(g, p).expected = g.expected
           /\ \A k \in RemovePeer(g, p).peers : \E n \in g.peers :
                 n.peer # p /\ k.peer = n.peer /\ k.actor = n.actor
           /\ \A n \in g.peers : n.peer # p => \E k \in RemovePeer(g, p).peers :
                 k.peer = n.peer /\ k.actor = n.actor
<1> DEFINE leaving == {n.actor : n \in NodesOf(g, p)}
           rest == {[n EXCEPT !.before = @ \ leaving] : n \in g.peers \ NodesOf(g, p)}
           h == RemovePeer(g, p)
<1>1. CASE leaving = {}
    <2>1. h = g
        BY <1>1 DEF RemovePeer
    <2>2. \A n \in g.peers : n.peer # p
        BY <1>1 DEF NodesOf
    <2> QED
        BY <2>1, <2>2
<1>2. CASE leaving # {}
    <2>0. \A n \in g.peers : LET k == [n EXCEPT !.before = @ \ leaving]
                             IN  k.peer = n.peer /\ k.actor = n.actor
        BY DEF GameState, Node
    <2>1. /\ \A k \in rest : \E n \in g.peers :
                n.peer # p /\ k.peer = n.peer /\ k.actor = n.actor
          /\ \A n \in g.peers : n.peer # p => \E k \in rest :
                k.peer = n.peer /\ k.actor = n.actor
        <3> HIDE DEF leaving
        <3>1. ASSUME NEW n \in g.peers, n.peer # p
              PROVE  \E k \in rest : k.peer = n.peer /\ k.actor = n.actor
            <4>1. [n EXCEPT !.before = @ \ leaving] \in rest
                BY <3>1 DEF NodesOf
            <4> QED
                BY <2>0, <4>1
        <3>2. \A k \in rest : \E n \in g.peers :
                  n.peer # p /\ k.peer = n.peer /\ k.actor = n.actor
            BY <2>0 DEF NodesOf
        <3> QED
            BY <3>1, <3>2
    <2>2. h.peers = rest /\ h.expected = g.expected
        BY <1>2 DEF RemovePeer, GameState
    <2> HIDE DEF rest, h
    <2>3. /\ \A k \in h.peers : \E n \in g.peers :
                n.peer # p /\ k.peer = n.peer /\ k.actor = n.actor
          /\ \A n \in g.peers : n.peer # p => \E k \in h.peers :
                k.peer = n.peer /\ k.actor = n.actor
        BY <2>1, <2>2
    <2> QED
        BY <2>2, <2>3 DEF h
<1> QED
    BY <1>1, <1>2

\* Members whose actor numbers were taken before are not more than before.
LEMMA MembersCounted ==
    ASSUME NEW g \in GameState, Distinct(g)
    PROVE  /\ IsFiniteSet(g.peers)
           /\ \A h \in GameState :
                 /\ Distinct(h)
                 /\ \A k \in h.peers : \E n \in g.peers : n.actor = k.actor
                 => Cardinality(h.peers) <= Cardinality(g.peers)
<1>1. IsFiniteSet(g.peers)
    <2> DEFINE f == [n \in g.peers |-> n.actor]
    <2>1. f \in [g.peers -> Actors]
        BY DEF GameState, Node
    <2>2. \A m, n \in g.peers : f[m] = f[n] => m = n
        BY DEF Distinct
    <2>3. f \in Injection(g.peers, Actors)
        BY <2>1, <2>2 DEF Injection, IsInjective
    <2>4. IsFiniteSet(Actors)
        BY FS_Interval, GameAssumption DEF Actors
    <2> HIDE DEF f
    <2> QED
        BY <2>3, <2>4, FS_Injection
<1>2. ASSUME NEW h \in GameState, Distinct(h),
             \A k \in h.peers : \E n \in g.peers : n.actor = k.actor
      PROVE  Cardinality(h.peers) <= Cardinality(g.peers)
    <2> DEFINE f == [k \in h.peers |-> CHOOSE n \in g.peers : n.actor = k.actor]
    <2>1. \A k \in h.peers : f[k] \in g.peers /\ f[k].actor = k.actor
        BY <1>2
    <2>2. f \in [h.peers -> g.peers]
        BY <2>1
    <2> HIDE DEF f
    <2>3. \A k, l \in h.peers : f[k] = f[l] => k = l
        BY <1>2, <2>1 DEF Distinct
    <2>4. f \in Injection(h.peers, g.peers)
        BY <2>2, <2>3 DEF Injection, IsInjective
    <2> QED
        BY <1>1, <2>4, FS_Injection
<1> QED
    BY <1>1, <1>2

\* An abort ends the reservations that the creation made, and no others.
LEMMA AbortSeats ==
    ASSUME NEW g \in GameState, NEW p \in Peers, NEW gen \in Nat
    PROVE  \A u \in Users :
              g.expected[u] # 0 /\ AbortCreation(g, p, gen).expected[u] # g.expected[u] =>
                 IsCreationActive(g, p, gen) /\ g.ownReserved[u] = g.expected[u]
<1> DEFINE g1 == RemoveIfGeneration(g, g.ownReserved)
           g2 == Reserve(g1, g.ownRemoved)
           h == AbortCreation(g, p, gen)
<1>1. CASE ~IsCreationActive(g, p, gen)
    BY <1>1 DEF AbortCreation
<1>2. CASE IsCreationActive(g, p, gen)
    <2>1. g.ownReserved \in [Users -> Nat] /\ g.ownRemoved \in SUBSET Users
        BY DEF GameState
    <2>2. /\ g1 \in GameState
          /\ \A u \in Users : g1.expected[u] =
                IF g.ownReserved[u] # 0 /\ g.expected[u] = g.ownReserved[u] THEN 0
                ELSE g.expected[u]
        BY <2>1, RemoveIfGenerationKeeps
    <2>3. h = [g2 EXCEPT !.peers = {}, !.ownReserved = [u \in Users |-> 0],
                         !.ownRemoved = {}, !.config = g.initial,
                         !.owner = NoPeer, !.created = FALSE, !.creating = FALSE]
        BY <1>2 DEF AbortCreation
    <2> HIDE DEF g1, h
    <2>4. g2 \in GameState
        BY <2>1, <2>2, ReserveKeeps
    <2>5. \A u \in Users : g1.expected[u] # 0 => g2.expected[u] = g1.expected[u]
        BY <2>1, <2>2, ReserveSeats
    <2> HIDE DEF g2
    <2>6. h.expected = g2.expected
        BY <2>3, <2>4 DEF GameState
    <2>7. \A u \in Users : g.expected[u] # 0 /\ h.expected[u] # g.expected[u] =>
              g.ownReserved[u] = g.expected[u]
        BY <2>2, <2>5, <2>6
    <2> QED
        BY <1>2, <2>7 DEF h
<1> QED
    BY <1>1, <1>2

-----------------------------------------------------------------------------
(* The invariant of GameServer. *)

\* IInv, with its part about the room as RoomInv.
Control ==
    /\ TypeOK
    /\ HandlerInv
    /\ CoroutineInv
    /\ LeaseInv
    /\ NoMemberAfterDisconnect

LEMMA IInvSplit ==
    /\ IInv <=> Control /\ RoomInv(game)
    /\ IInv' <=> Control' /\ RoomInv(game')
BY DEF IInv, Control, RoomInv, UncreatedRoomHasNoMembers, OwnerOnly, MembersDistinct,
       Distinct, ReservationsExpire, Expiring, InitialUsersInv, InitialKept,
       GenerationsInv, Drawn

\* A room that keeps its lease fields has the same active creation.
LEMMA SameActive ==
    ASSUME NEW g, NEW h, SameLease(g, h), NEW p, NEW gen
    PROVE  IsCreationActive(h, p, gen) <=> IsCreationActive(g, p, gen)
BY DEF SameLease, IsCreationActive

\* The states a coroutine starts from and ends in.
LEMMA JoinTypes ==
    /\ IdleJoin \in JoinState /\ IdleJoin.pc = "idle" /\ ~IdleJoin.master
    /\ Ended \in JoinState /\ Ended.pc = "done"
    /\ NoOffer \in Offer
<1>1. NoOffer \in Offer
    BY DEF NoOffer, Offer
<1>2. IdleJoin \in JoinState
    BY <1>1, GameAssumption DEF IdleJoin, JoinState, JoinPc
<1>3. Ended \in JoinState /\ Ended.pc = "done"
    BY <1>2 DEF Ended, JoinState, JoinPc
<1> QED
    BY <1>1, <1>2, <1>3 DEF IdleJoin

\* Init establishes the invariant.
LEMMA InitInv == Init => IInv
<1> SUFFICES ASSUME Init PROVE IInv
    OBVIOUS
<1>1. game \in GameState
    <2>1. DefaultConfig \in Config
        BY GameAssumption DEF DefaultConfig, Config
    <2>2. [u \in Users |-> 0] \in [Users -> Nat]
        OBVIOUS
    <2> QED
        BY <2>1, <2>2 DEF Init, NewGame, GameState
<1>2. IdleHandler \in HandlerState
    BY GameAssumption DEF IdleHandler, HandlerState
<1>3. TypeOK
    BY <1>1, <1>2, JoinTypes, GameAssumption DEF Init, TypeOK
<1>4. /\ ~game.creating /\ ~game.created /\ game.peers = {}
      /\ \A u \in Users : /\ game.expected[u] = 0 /\ game.initialExpected[u] = 0
                          /\ game.ownReserved[u] = 0
      /\ game.reservations = 0
    BY DEF Init, NewGame
<1>5. /\ \A r \in Requests : join[r].pc = "idle"
      /\ \A p \in Peers : handler[p] = IdleHandler /\ drop[p].pc = "idle"
    BY JoinTypes DEF Init
<1>6. HandlerInv
    BY <1>5 DEF HandlerInv, IdleHandler
<1>7. CoroutineInv
    BY <1>5 DEF CoroutineInv, Running, RunsCreation
<1>8. LeaseInv /\ NoMemberAfterDisconnect
    BY <1>4, <1>5 DEF LeaseInv, LeaseHasHolder, NoMemberAfterDisconnect
<1>9. RoomInv(game)
    BY <1>4 DEF RoomInv, OwnerOnly, Distinct, Expiring, InitialKept, Drawn
<1> QED
    BY <1>3, <1>6, <1>7, <1>8, <1>9, IInvSplit DEF Control

-----------------------------------------------------------------------------
(* Steps that leave the lease alone. *)

\* A step that touches neither the lease, the members' connections, the
\* coroutines, the disconnects nor what HandlerInv reads of the handlers keeps
\* the invariant: the master server's reservations, their expiry, the wait of a
\* parked request and the Leave operation.
LEMMA QuietStep ==
    ASSUME IInv, TypeOK', RoomInv(game'), SameLease(game, game'),
           \A p \in Peers : IsMember(game', p) => IsMember(game, p),
           \A p \in Peers :
               /\ handler'[p].gone = handler[p].gone
               /\ handler'[p].attached = handler[p].attached
               /\ handler'[p].pending = handler[p].pending
               /\ handler'[p].lease = handler[p].lease,
           UNCHANGED <<join, drop>>
    PROVE  IInv'
<1>1. Control
    BY IInvSplit
<1>2. \A p, gen : IsCreationActive(game', p, gen) <=> IsCreationActive(game, p, gen)
    BY SameActive
<1>3. HandlerInv'
    BY <1>1, <1>2 DEF Control, HandlerInv
<1>4. \A r \in Requests : RunsCreation(r)' <=> RunsCreation(r)
    BY <1>2 DEF RunsCreation
<1>5. CoroutineInv'
    BY <1>1, <1>4, GameServerAssumption DEF Control, CoroutineInv, Running, SameLease
<1>6. LeaseInv'
    BY <1>1, <1>4 DEF Control, LeaseInv, LeaseHasHolder, SameLease
<1>7. NoMemberAfterDisconnect'
    BY <1>1 DEF Control, NoMemberAfterDisconnect
<1>8. Control'
    BY <1>3, <1>5, <1>6, <1>7 DEF Control
<1> QED
    BY <1>8, IInvSplit

\* PendingOverdue keeps the invariant.
LEMMA PendingOverdueInv ==
    ASSUME IInv, NEW p \in Peers, PendingOverdue(p)
    PROVE  IInv'
<1>1. TypeOK /\ RoomInv(game)
    BY IInvSplit DEF Control
<1>2. [handler[p] EXCEPT !.overdue = TRUE] \in HandlerState
    <2>1. handler[p] \in HandlerState
        BY <1>1 DEF TypeOK
    <2> QED
        BY <2>1 DEF HandlerState
<1>3. handler' = [handler EXCEPT ![p] = [handler[p] EXCEPT !.overdue = TRUE]]
    BY <1>1 DEF PendingOverdue, TypeOK
<1>4. TypeOK'
    BY <1>1, <1>2, <1>3 DEF TypeOK, PendingOverdue
<1>5. \A q \in Peers :
         /\ handler'[q].gone = handler[q].gone
         /\ handler'[q].attached = handler[q].attached
         /\ handler'[q].pending = handler[q].pending
         /\ handler'[q].lease = handler[q].lease
    BY <1>1, <1>3 DEF TypeOK, HandlerState
<1>6. game' = game /\ UNCHANGED <<join, drop>>
    BY DEF PendingOverdue
<1> QED
    BY <1>1, <1>4, <1>5, <1>6, QuietStep DEF SameLease

\* The master server's reservations keep the invariant.
LEMMA MasterReserveInv ==
    ASSUME IInv, NEW u \in Users, NEW o \in Offers, MasterReserve(u, o.invited)
    PROVE  IInv'
<1>1. TypeOK /\ RoomInv(game)
    BY IInvSplit DEF Control
<1>2. {u} \cup o.invited \in SUBSET Users
    BY GameServerAssumption DEF Offer
<1>3. game' = Reserve(game, {u} \cup o.invited)
    BY DEF MasterReserve
<1>4. /\ game' \in GameState /\ SameLease(game, game')
      /\ game'.peers = game.peers /\ RoomInv(game')
    BY <1>1, <1>2, <1>3, ReserveKeeps DEF TypeOK
<1>5. TypeOK'
    BY <1>1, <1>4 DEF TypeOK, MasterReserve
<1> QED
    BY <1>4, <1>5, QuietStep DEF MasterReserve, IsMember, NodesOf

\* The expiry of a reservation keeps the invariant.
LEMMA ExpireReservationInv ==
    ASSUME IInv, NEW task \in game.expiries, ExpireReservation(task)
    PROVE  IInv'
<1>1. TypeOK /\ RoomInv(game)
    BY IInvSplit DEF Control
<1>2. game' = RunExpiry(game, task)
    BY DEF ExpireReservation
<1>3. /\ game' \in GameState /\ SameLease(game, game')
      /\ game'.peers = game.peers /\ RoomInv(game')
    BY <1>1, <1>2, RunExpiryKeeps DEF TypeOK
<1>4. TypeOK'
    BY <1>1, <1>3 DEF TypeOK, ExpireReservation
<1> QED
    BY <1>3, <1>4, QuietStep DEF ExpireReservation, IsMember, NodesOf

\* The Leave operation keeps the invariant.
LEMMA LeaveRequestInv ==
    ASSUME IInv, NEW p \in Peers, LeaveRequest(p)
    PROVE  IInv'
<1>1. TypeOK /\ RoomInv(game)
    BY IInvSplit DEF Control
<1>2. TypeOK'
    BY <1>1 DEF TypeOK, LeaveRequest
<1>3. game' = game /\ handler' = handler /\ UNCHANGED <<join, drop>>
    BY DEF LeaveRequest
<1> QED
    BY <1>1, <1>2, <1>3, QuietStep DEF SameLease

\* So does its end, whatever the plugin answers.
LEMMA ResumeLeaveInv ==
    ASSUME IInv, NEW p \in Peers, NEW ok \in BOOLEAN, ResumeLeave(p, ok)
    PROVE  IInv'
<1>1. TypeOK /\ RoomInv(game)
    BY IInvSplit DEF Control
<1> DEFINE h == [handler[p] EXCEPT !.left = TRUE, !.closing = TRUE]
<1>2. handler[p] \in HandlerState
    BY <1>1 DEF TypeOK
<1>3. h \in HandlerState
    BY <1>2 DEF HandlerState
<1>4. handler' = IF ok THEN [handler EXCEPT ![p] = h] ELSE handler
    BY DEF ResumeLeave
<1>5. /\ h.gone = handler[p].gone /\ h.attached = handler[p].attached
      /\ h.pending = handler[p].pending /\ h.lease = handler[p].lease
    BY <1>2 DEF HandlerState
<1> HIDE DEF h
<1>6. TypeOK'
    <2>1. handler' \in [Peers -> HandlerState]
        BY <1>1, <1>3, <1>4 DEF TypeOK
    <2> QED
        BY <1>1, <2>1 DEF TypeOK, ResumeLeave
<1>7. \A q \in Peers :
         /\ handler'[q].gone = handler[q].gone
         /\ handler'[q].attached = handler[q].attached
         /\ handler'[q].pending = handler[q].pending
         /\ handler'[q].lease = handler[q].lease
    BY <1>1, <1>4, <1>5 DEF TypeOK
<1>8. game' = game /\ UNCHANGED <<join, drop>>
    BY DEF ResumeLeave
<1> QED
    BY <1>1, <1>6, <1>7, <1>8, QuietStep DEF SameLease

-----------------------------------------------------------------------------
(* The end of a join coroutine. *)

\* A suspended creator that is still connected holds the lease, and it is the
\* only coroutine that does.
LEMMA CreatorHolds ==
    ASSUME IInv, NEW r \in Requests, Running(r), join[r].master,
           ~handler[Issuer[r]].gone
    PROVE  /\ RunsCreation(r)
           /\ \A s \in Requests : RunsCreation(s) => s = r
BY IInvSplit DEF Control, CoroutineInv

\* A suspended joiner's room exists and is not under creation.
LEMMA JoinerRoom ==
    ASSUME IInv, NEW r \in Requests, Running(r), ~join[r].master
    PROVE  game.created /\ ~game.creating
BY IInvSplit DEF Control, CoroutineInv, LeaseInv

\* What remains of a handler after rollback_join().
LEMMA RollbackHandlerType ==
    ASSUME TypeOK, NEW r \in Requests, NEW close \in BOOLEAN
    PROVE  LET h == handler[Issuer[r]]
               k == RollbackHandler(r, close)
           IN  /\ k \in HandlerState
               /\ k.gone = h.gone /\ k.attached = h.attached /\ k.pending = h.pending
               /\ k.lease = IF join[r].master THEN 0 ELSE h.lease
<1> DEFINE h == handler[Issuer[r]]
<1>1. h \in HandlerState
    BY GameServerAssumption DEF TypeOK
<1>2. (h.closing \/ close) \in BOOLEAN
    OBVIOUS
<1>3. 0 \in 0 .. MaxActor
    BY GameAssumption
<1> DEFINE l == IF join[r].master THEN 0 ELSE h.lease
           c == h.closing \/ close
<1>4. l \in Nat
    BY <1>1 DEF HandlerState
<1>5. RollbackHandler(r, close) = [h EXCEPT !.seat = 0, !.lease = l, !.closing = c]
    BY DEF RollbackHandler
<1> HIDE DEF h, l, c
<1> QED
    BY <1>1, <1>2, <1>3, <1>4, <1>5 DEF HandlerState, h, l, c

\* The coroutine of request r ends: a creator aborts its transaction, a joiner
\* leaves room G, which has the same lease and no new member.
LEMMA EndStep ==
    ASSUME IInv, NEW r \in Requests, Running(r), NEW close \in BOOLEAN, NEW G,
           ~join[r].master => /\ G \in GameState /\ SameLease(game, G) /\ RoomInv(G)
                              /\ \A p \in Peers : IsMember(G, p) => IsMember(game, p),
           game' = IF join[r].master THEN AbortCreation(game, Issuer[r], join[r].gen)
                   ELSE G,
           handler' = [handler EXCEPT ![Issuer[r]] = RollbackHandler(r, close)],
           join' = [join EXCEPT ![r] = Ended],
           UNCHANGED <<leave, drop, announced>>
    PROVE  IInv'
<1> DEFINE p == Issuer[r]
<1>1. Control /\ RoomInv(game) /\ TypeOK
    BY IInvSplit DEF Control
<1>2. p \in Peers
    BY GameServerAssumption
<1>3. /\ join[r] \in JoinState
      /\ join[r].gen \in Nat /\ join[r].master \in BOOLEAN
    BY <1>1 DEF TypeOK, JoinState
<1>4. \A q \in Peers :
         /\ handler'[q].gone = handler[q].gone
         /\ handler'[q].attached = handler[q].attached
         /\ handler'[q].pending = handler[q].pending
         /\ handler'[q].lease = IF q = p /\ join[r].master THEN 0 ELSE handler[q].lease
    BY <1>1, <1>2, RollbackHandlerType DEF TypeOK
<1>5. \A s \in Requests : join'[s] = IF s = r THEN Ended ELSE join[s]
    BY <1>1 DEF TypeOK
<1>6. ASSUME game' \in GameState
      PROVE  TypeOK'
    <2>1. handler' \in [Peers -> HandlerState]
        BY <1>1, <1>2, RollbackHandlerType DEF TypeOK
    <2>2. join' \in [Requests -> JoinState]
        BY <1>1, JoinTypes DEF TypeOK
    <2> QED
        BY <1>1, <1>6, <2>1, <2>2 DEF TypeOK
<1>7. \A s \in Requests : s # r /\ Running(s)' => Running(s)
    BY <1>5 DEF Running
<1>8. ~Running(r)'
    BY <1>5, JoinTypes DEF Running
<1>9. CASE join[r].master /\ ~handler[p].gone
    <2>1. RunsCreation(r) /\ \A s \in Requests : RunsCreation(s) => s = r
        BY <1>9, CreatorHolds
    <2>2. IsCreationActive(game, p, join[r].gen)
        BY <2>1 DEF RunsCreation
    <2>3. /\ game' \in GameState
          /\ game'.created = FALSE /\ game'.creating = FALSE
          /\ game'.generation = game.generation
          /\ game'.peers = {} /\ RoomInv(game')
        <3>1. game \in GameState
            BY <1>1 DEF TypeOK
        <3>2. game' = AbortCreation(game, p, join[r].gen)
            BY <1>9
        <3> HIDE DEF p
        <3> DEFINE h == AbortCreation(game, p, join[r].gen)
        <3>3. /\ h \in GameState
              /\ h.created = FALSE /\ h.creating = FALSE
              /\ h.generation = game.generation
              /\ h.peers = {}
              /\ RoomInv(game) => RoomInv(h)
            BY <1>2, <1>3, <2>2, <3>1, AbortCreationRestores, Zenon
        <3> QED
            BY <1>1, <3>2, <3>3
    <2>4. game.creating /\ game.owner = p /\ ~game.created
        BY <1>1, <2>2 DEF IsCreationActive, Control, LeaseInv
    <2>5. HandlerInv'
        BY <1>1, <1>4, <1>5, <1>9, <2>4 DEF Control, HandlerInv, IsCreationActive, Running
    <2>6. CoroutineInv'
        <3>1. \A s \in Requests : ~RunsCreation(s)'
            BY <2>3 DEF RunsCreation, IsCreationActive
        <3>2. \A s \in Requests : s # r /\ Running(s) =>
                 join[s].master /\ handler[Issuer[s]].gone
            BY <1>1, <2>1, <2>4 DEF Control, CoroutineInv
        <3> QED
            BY <1>1, <1>4, <1>5, <1>7, <1>8, <2>3, <3>1, <3>2, JoinTypes, GameServerAssumption
               DEF Control, CoroutineInv, Running
    <2>7. LeaseInv' /\ NoMemberAfterDisconnect'
        BY <2>3 DEF LeaseInv, LeaseHasHolder, NoMemberAfterDisconnect, IsMember, NodesOf
    <2>8. Control'
        BY <1>6, <2>3, <2>5, <2>6, <2>7 DEF Control
    <2> QED
        BY <2>3, <2>8, IInvSplit
<1>10. CASE ~join[r].master \/ handler[p].gone
    <2>1. /\ game' \in GameState /\ SameLease(game, game') /\ RoomInv(game')
          /\ \A q \in Peers : IsMember(game', q) => IsMember(game, q)
        <3>1. CASE join[r].master
            <4>1. ~IsCreationActive(game, p, join[r].gen)
                BY <1>1, <1>10, <3>1 DEF IsCreationActive, Control, LeaseInv, LeaseHasHolder
            <4>2. game' = game
                BY <3>1, <4>1 DEF AbortCreation
            <4> QED
                BY <1>1, <4>2 DEF SameLease, TypeOK
        <3>2. CASE ~join[r].master
            BY <3>2
        <3> QED
            BY <1>3, <3>1, <3>2
    <2>2. \A q, gen : IsCreationActive(game', q, gen) <=> IsCreationActive(game, q, gen)
        BY <2>1, SameActive
    <2>3. HandlerInv'
        BY <1>1, <1>4, <1>5, <2>2 DEF Control, HandlerInv, Running
    <2>4. \A s \in Requests : RunsCreation(s)' <=> s # r /\ RunsCreation(s)
        BY <1>5, <2>2, JoinTypes DEF RunsCreation
    <2>5. CoroutineInv'
        BY <1>1, <1>4, <1>5, <1>7, <1>8, <2>1, <2>4, JoinTypes, GameServerAssumption
           DEF Control, CoroutineInv, SameLease, Running
    <2>6. LeaseInv'
        <3>1. ~RunsCreation(r)
            BY <1>1, <1>10 DEF RunsCreation, IsCreationActive, Control, LeaseInv, LeaseHasHolder
        <3>2. game.creating /\ game.owner = p => ~join[r].master
            BY <1>1, <1>10 DEF Control, LeaseInv, LeaseHasHolder
        <3> QED
            BY <1>1, <1>4, <2>1, <2>4, <3>1, <3>2 DEF Control, LeaseInv, LeaseHasHolder, SameLease
    <2>7. NoMemberAfterDisconnect'
        BY <1>1, <2>1 DEF Control, NoMemberAfterDisconnect
    <2>8. Control'
        BY <1>6, <2>1, <2>3, <2>5, <2>6, <2>7 DEF Control
    <2> QED
        BY <2>1, <2>8, IInvSplit
<1> QED
    BY <1>3, <1>9, <1>10

\* A joiner that gives up its reservations, and perhaps its seat, leaves a room
\* as EndStep requires.
LEMMA JoinerGivesUp ==
    ASSUME IInv, NEW r \in Requests, Running(r), ~join[r].master,
           NEW g \in {game, RemovePeer(game, Issuer[r])}
    PROVE  LET G == RemoveIfGeneration(g, join[r].added)
           IN  /\ G \in GameState /\ SameLease(game, G) /\ RoomInv(G)
               /\ \A p \in Peers : IsMember(G, p) => IsMember(game, p)
<1>1. TypeOK /\ RoomInv(game) /\ game \in GameState
    BY IInvSplit DEF Control, TypeOK
<1>2. Issuer[r] \in Peers
    BY GameServerAssumption
<1>3. join[r].added \in [Users -> Nat]
    BY <1>1 DEF TypeOK, JoinState
<1>4. ~game.creating
    BY JoinerRoom
<1>5. /\ g \in GameState /\ SameLease(game, g) /\ RoomInv(g)
      /\ \A p \in Peers : IsMember(g, p) => IsMember(game, p)
    <2>1. CASE g = game
        BY <1>1, <2>1 DEF SameLease
    <2>2. CASE g = RemovePeer(game, Issuer[r])
        BY <1>1, <1>2, <2>2, RemovePeerKeeps
    <2> QED
        BY <2>1, <2>2
<1> DEFINE G == RemoveIfGeneration(g, join[r].added)
<1>6. G \in GameState /\ SameLease(g, G) /\ G.peers = g.peers
    BY <1>3, <1>5, RemoveIfGenerationKeeps
<1>7. RoomInv(G)
    BY <1>3, <1>4, <1>5, RemoveIfGenerationKeeps DEF SameLease
<1> HIDE DEF G
<1>8. SameLease(game, G) /\ \A p \in Peers : IsMember(G, p) => IsMember(game, p)
    BY <1>5, <1>6 DEF SameLease, IsMember, NodesOf
<1> QED
    BY <1>6, <1>7, <1>8 DEF G

\* rollback_join() keeps the invariant, from wherever it is called.
LEMMA RollbackInv ==
    ASSUME IInv, NEW r \in Requests, Running(r), NEW close \in BOOLEAN,
           Rollback(r, close)
    PROVE  IInv'
<1> DEFINE g == IF handler[Issuer[r]].seat # 0 THEN RemovePeer(game, Issuer[r]) ELSE game
           G == RemoveIfGeneration(g, join[r].added)
<1>1. game' = IF join[r].master THEN AbortCreation(game, Issuer[r], join[r].gen) ELSE G
    BY DEF Rollback, RollbackGame
<1>2. g \in {game, RemovePeer(game, Issuer[r])}
    OBVIOUS
<1> HIDE DEF g
<1>3. ~join[r].master => /\ G \in GameState /\ SameLease(game, G) /\ RoomInv(G)
                         /\ \A p \in Peers : IsMember(G, p) => IsMember(game, p)
    BY <1>2, JoinerGivesUp
<1> HIDE DEF G
<1> QED
    BY <1>1, <1>3, EndStep DEF Rollback

\* OnJoinGame failing, or the node being retired meanwhile, keeps the invariant.
LEMMA JoinedFailsInv ==
    ASSUME IInv, NEW r \in Requests, JoinedVanished(r) \/ JoinedRefused(r)
    PROVE  IInv'
<1>1. PICK g \in {game, RemovePeer(game, Issuer[r])} :
         game' = IF join[r].master THEN AbortCreation(game, Issuer[r], join[r].gen)
                 ELSE RemoveIfGeneration(g, join[r].added)
    BY DEF JoinedVanished, JoinedRefused
<1> DEFINE G == RemoveIfGeneration(g, join[r].added)
<1>2. Running(r)
    BY DEF JoinedVanished, JoinedRefused, Running
<1>3. ~join[r].master => /\ G \in GameState /\ SameLease(game, G) /\ RoomInv(G)
                         /\ \A p \in Peers : IsMember(G, p) => IsMember(game, p)
    BY <1>2, JoinerGivesUp
<1>4. game' = IF join[r].master THEN AbortCreation(game, Issuer[r], join[r].gen) ELSE G
    BY <1>1
<1>5. join[r].master \in BOOLEAN
    BY IInvSplit DEF Control, TypeOK, JoinState
<1> HIDE DEF G
<1> QED
    BY <1>2, <1>3, <1>4, <1>5, EndStep DEF JoinedVanished, JoinedRefused

-----------------------------------------------------------------------------
(* A join that makes progress. *)

\* The room a request is admitted to: after the creator's settings and the
\* reservations, with a free actor number and without the request's user.
LEMMA AdmittedRoom ==
    ASSUME IInv, NEW r \in Requests, Running(r), LeaseHeld(r),
           Admissible(WithSettings(game, r), r)
    PROVE  LET p == Issuer[r]
               g1 == WithSettings(game, r)
               g2 == WithInvited(g1, r)
           IN  /\ g1 \in GameState
               /\ g2 \in GameState /\ SameLease(game, g2)
               /\ g2.peers = game.peers /\ RoomInv(g2)
               /\ FreeActors(g2) # {} /\ MayAdd(g2, p)
               /\ ~g2.created => g2.creating /\ g2.owner = p
<1> DEFINE p == Issuer[r]
           g1 == WithSettings(game, r)
           g2 == WithInvited(g1, r)
           o == join[r].offer
<1>1. Control /\ RoomInv(game) /\ TypeOK /\ game \in GameState
    BY IInvSplit DEF Control, TypeOK
<1>2. p \in Peers /\ UserOf[p] \in Users
    BY GameServerAssumption, GameAssumption
<1>3. join[r] \in JoinState /\ join[r].master \in BOOLEAN
    BY <1>1 DEF TypeOK, JoinState
<1>4. o.max \in Nat /\ o.check \in BOOLEAN /\ o.invited \in SUBSET Users
    BY <1>3 DEF JoinState, Offer
<1>5. join[r].master => game.creating /\ game.owner = p /\ ~game.created
    BY <1>1 DEF LeaseHeld, IsCreationActive, Control, LeaseInv
<1>6. ~join[r].master => game.created
    BY JoinerRoom
<1>7. FreeActors(g1) # {} /\ MayAdd(g1, p)
    BY DEF Admissible
<1>8. /\ g1 \in GameState /\ SameLease(game, g1)
      /\ g1.peers = game.peers /\ RoomInv(g1)
    <2>1. CASE join[r].master
        <3> HIDE DEF p, o
        <3>1. g1 = Configure(game, o.max, o.check)
            BY <2>1 DEF WithSettings, o
        <3>2. ~game.created /\ game.owner = p
            BY <1>5, <2>1
        <3> DEFINE h == Configure(game, o.max, o.check)
        <3>3. MayAdd(h, p)
            BY <1>7, <3>1
        <3>4. h \in GameState /\ SameLease(game, h) /\ h.peers = game.peers /\ RoomInv(h)
            BY <1>1, <1>2, <1>4, <3>2, <3>3, SettingsKeep, Zenon
        <3> QED
            BY <3>1, <3>4
    <2>2. CASE ~join[r].master
        BY <1>1, <2>2 DEF WithSettings, SameLease
    <2> QED
        BY <1>3, <2>1, <2>2
<1> HIDE DEF g1
<1>9. /\ g2 \in GameState /\ SameLease(g1, g2)
      /\ g2.peers = g1.peers /\ g2.config = g1.config /\ RoomInv(g2)
    <2>1. CASE IsMember(g1, p)
        BY <1>8, <2>1 DEF WithInvited, SameLease
    <2>2. CASE ~IsMember(g1, p)
        <3>1. g2 = Reserve(g1, o.invited \ {UserOf[p]})
            BY <2>2 DEF WithInvited
        <3>2. o.invited \ {UserOf[p]} \in SUBSET Users
            BY <1>4
        <3> QED
            BY <1>8, <3>1, <3>2, ReserveKeeps
    <2> QED
        BY <2>1, <2>2
<1> HIDE DEF g2
<1>10. FreeActors(g2) # {} /\ MayAdd(g2, p)
    BY <1>7, <1>9 DEF FreeActors, ActorsIn, MayAdd
<1>11. ~g2.created => g2.creating /\ g2.owner = p
    BY <1>3, <1>5, <1>6, <1>8, <1>9 DEF SameLease
<1> QED
    BY <1>8, <1>9, <1>10, <1>11 DEF SameLease, g1, g2

\* Admitting a member keeps the invariant.
LEMMA BeforeAdmittedInv ==
    ASSUME IInv, NEW r \in Requests, BeforeAdmitted(r)
    PROVE  IInv'
<1> DEFINE p == Issuer[r]
           g1 == WithSettings(game, r)
           g2 == WithInvited(g1, r)
           g3 == AddNode(g2, p)
<1>1. Control /\ RoomInv(game) /\ TypeOK
    BY IInvSplit DEF Control
<1>2. p \in Peers
    BY GameServerAssumption
<1>3. /\ Running(r) /\ LeaseHeld(r) /\ Admissible(g1, r)
      /\ ~handler[p].gone
    BY DEF BeforeAdmitted, Running
<1>4. /\ g1 \in GameState
      /\ g2 \in GameState /\ SameLease(game, g2)
      /\ g2.peers = game.peers /\ RoomInv(g2)
      /\ FreeActors(g2) # {} /\ MayAdd(g2, p)
      /\ ~g2.created => g2.creating /\ g2.owner = p
    BY <1>3, AdmittedRoom, Zenon
<1>5. /\ game' = g3
      /\ handler' = [handler EXCEPT ![p] = [handler[p] EXCEPT !.seat = NextActor(g2)]]
      /\ join' = [join EXCEPT ![r] = [join[r] EXCEPT !.pc = "joined",
                                                     !.added = AddedBy(g1, g2),
                                                     !.actor = ActorOf(g3, p)]]
      /\ UNCHANGED <<leave, drop, announced>>
    BY <1>1 DEF BeforeAdmitted, TypeOK, JoinState
<1>6. AddedBy(g1, g2) \in [Users -> Nat]
    BY <1>4 DEF AddedBy, GameState
<1> HIDE DEF g1, g2
<1>7. /\ g3 \in GameState /\ SameLease(g2, g3)
      /\ NextActor(g2) \in Actors
      /\ IsMember(g3, p)
      /\ \A q \in Peers : IsMember(g3, q) => q = p \/ IsMember(g2, q)
      /\ RoomInv(g3)
    BY <1>2, <1>4, AddNodeKeeps
<1> HIDE DEF g3
<1>8. SameLease(game, game') /\ RoomInv(game')
    BY <1>4, <1>5, <1>7 DEF SameLease
<1>9. ActorOf(g3, p) \in Actors
    BY <1>2, <1>7, ActorOfType
<1> DEFINE a == NextActor(g2)
           b == ActorOf(g3, p)
           c == AddedBy(g1, g2)
           h == [handler[p] EXCEPT !.seat = a]
           j == [join[r] EXCEPT !.pc = "joined", !.added = c, !.actor = b]
<1>10. handler[p] \in HandlerState /\ join[r] \in JoinState
    BY <1>1, <1>2 DEF TypeOK
<1>11. /\ a \in Actors /\ b \in Actors /\ Actors \subseteq 0 .. MaxActor
       /\ 0 \notin Actors /\ c \in [Users -> Nat]
    BY <1>6, <1>7, <1>9 DEF Actors
<1> HIDE DEF a, b, c
<1>12. /\ h \in HandlerState
       /\ h.gone = handler[p].gone /\ h.attached = handler[p].attached
       /\ h.pending = handler[p].pending /\ h.lease = handler[p].lease
    BY <1>10, <1>11 DEF HandlerState
<1>13. /\ j \in JoinState /\ j.pc = "joined" /\ j.actor # 0
       /\ j.master = join[r].master /\ j.gen = join[r].gen
    BY <1>10, <1>11 DEF JoinState, JoinPc
<1>14. /\ handler' = [handler EXCEPT ![p] = h]
       /\ join' = [join EXCEPT ![r] = j]
    BY <1>5 DEF a, b, c
<1> HIDE DEF h, j, p
<1>15. TypeOK'
    BY <1>1, <1>2, <1>5, <1>7, <1>12, <1>13, <1>14 DEF TypeOK
<1>16. \A q \in Peers :
         /\ handler'[q].gone = handler[q].gone
         /\ handler'[q].attached = handler[q].attached
         /\ handler'[q].pending = handler[q].pending
         /\ handler'[q].lease = handler[q].lease
    BY <1>1, <1>2, <1>12, <1>14 DEF TypeOK
<1>17. \A s \in Requests : join'[s] = IF s = r THEN j ELSE join[s]
    BY <1>1, <1>14 DEF TypeOK
<1>18. \A q, gen : IsCreationActive(game', q, gen) <=> IsCreationActive(game, q, gen)
    BY <1>8, SameActive
<1>19. \A s \in Requests : /\ RunsCreation(s)' <=> RunsCreation(s)
                           /\ Running(s)' <=> Running(s)
                           /\ join'[s].master = join[s].master
                           /\ join'[s].gen = join[s].gen
    BY <1>3, <1>13, <1>17, <1>18 DEF RunsCreation, Running
<1>20. HandlerInv'
    BY <1>1, <1>3, <1>5, <1>16, <1>17, <1>18 DEF Control, HandlerInv, Running
<1>21. CoroutineInv'
    BY <1>1, <1>8, <1>13, <1>16, <1>17, <1>19, GameServerAssumption
       DEF Control, CoroutineInv, SameLease
<1>22. LeaseInv'
    BY <1>1, <1>8, <1>16, <1>19 DEF Control, LeaseInv, LeaseHasHolder, SameLease
<1>23. NoMemberAfterDisconnect'
    <2>1. drop[p].pc = "idle"
        BY <1>1, <1>2, <1>3 DEF Control, HandlerInv, p
    <2>2. \A q \in Peers : IsMember(game', q) => q = p \/ IsMember(game, q)
        BY <1>4, <1>5, <1>7 DEF IsMember, NodesOf
    <2> QED
        BY <1>1, <1>5, <2>1, <2>2 DEF Control, NoMemberAfterDisconnect
<1> QED
    BY <1>8, <1>15, <1>20, <1>21, <1>22, <1>23, IInvSplit DEF Control

\* Completing a join, and committing the creation with it, keeps the invariant.
LEMMA JoinedCompletedInv ==
    ASSUME IInv, NEW r \in Requests, JoinedCompleted(r)
    PROVE  IInv'
<1> DEFINE p == Issuer[r]
           a == join[r].actor
           l == IF join[r].master THEN 0 ELSE handler[p].lease
           h == [handler[p] EXCEPT !.seat = a, !.lease = l]
<1>1. Control /\ RoomInv(game) /\ TypeOK /\ game \in GameState
    BY IInvSplit DEF Control, TypeOK
<1>2. p \in Peers
    BY GameServerAssumption
<1>3. handler[p] \in HandlerState /\ join[r] \in JoinState
    BY <1>1, <1>2 DEF TypeOK
<1>4. /\ Running(r) /\ join[r].pc = "joined" /\ ~handler[p].gone
      /\ handler' = [handler EXCEPT ![p] = h]
      /\ announced' = announced \cup {<<a, p>>}
      /\ join' = [join EXCEPT ![r] = Ended]
      /\ UNCHANGED <<leave, drop>>
    BY DEF JoinedCompleted, Running
<1>5. a \in Actors /\ a \in 0 .. MaxActor /\ l \in Nat /\ join[r].master \in BOOLEAN
    <2>1. a # 0
        BY <1>1, <1>4 DEF Control, CoroutineInv
    <2> QED
        BY <1>3, <2>1 DEF HandlerState, JoinState, Actors
<1> HIDE DEF a
<1>6. /\ h \in HandlerState
      /\ h.gone = handler[p].gone /\ h.attached = handler[p].attached
      /\ h.pending = handler[p].pending
      /\ h.lease = l
    <2> HIDE DEF l
    <2> QED
        BY <1>3, <1>5 DEF HandlerState
<1> HIDE DEF h
<1>7. \A q \in Peers :
         /\ handler'[q].gone = handler[q].gone
         /\ handler'[q].attached = handler[q].attached
         /\ handler'[q].pending = handler[q].pending
         /\ handler'[q].lease = IF q = p /\ join[r].master THEN 0 ELSE handler[q].lease
    BY <1>1, <1>2, <1>4, <1>6 DEF TypeOK
<1>8. \A s \in Requests : join'[s] = IF s = r THEN Ended ELSE join[s]
    BY <1>1, <1>4 DEF TypeOK
<1>9. ASSUME game' \in GameState
      PROVE  TypeOK'
    <2>1. handler' \in [Peers -> HandlerState]
        BY <1>1, <1>2, <1>4, <1>6 DEF TypeOK
    <2>2. join' \in [Requests -> JoinState]
        BY <1>1, <1>4, JoinTypes DEF TypeOK
    <2>3. announced' \in SUBSET (Actors \X Peers)
        BY <1>1, <1>2, <1>4, <1>5 DEF TypeOK
    <2> QED
        BY <1>1, <1>4, <1>9, <2>1, <2>2, <2>3 DEF TypeOK
<1>10. ~Running(r)' /\ \A s \in Requests : s # r /\ Running(s)' => Running(s)
    BY <1>8, JoinTypes DEF Running
<1>11. CASE join[r].master
    <2>1. RunsCreation(r) /\ \A s \in Requests : RunsCreation(s) => s = r
        BY <1>4, <1>11, CreatorHolds
    <2>2. game.creating /\ game.owner = p /\ ~game.created
        BY <1>1, <2>1 DEF RunsCreation, IsCreationActive, Control, LeaseInv
    <2>3. /\ game' \in GameState
          /\ game'.created = TRUE /\ game'.creating = FALSE
          /\ game'.generation = game.generation
          /\ game'.peers = game.peers /\ RoomInv(game')
        <3> DEFINE open == join[r].offer.open
                   g == CommitCreation([game EXCEPT !.config.open = open])
        <3>1. open \in BOOLEAN
            BY <1>3 DEF JoinState, Offer
        <3>2. game' = g
            BY <1>11 DEF JoinedCompleted
        <3> HIDE DEF open
        <3>3. /\ g \in GameState
              /\ g.created = TRUE /\ g.creating = FALSE
              /\ g.generation = game.generation
              /\ g.peers = game.peers
              /\ RoomInv(game) => RoomInv(g)
            BY <1>1, <3>1, CommitCreationKeeps, Zenon
        <3> QED
            BY <1>1, <3>2, <3>3
    <2>4. HandlerInv'
        BY <1>1, <1>4, <1>7, <1>8, <1>11, <2>2 DEF Control, HandlerInv, IsCreationActive
    <2>5. CoroutineInv'
        <3>1. \A s \in Requests : ~RunsCreation(s)'
            BY <2>3 DEF RunsCreation, IsCreationActive
        <3>2. \A s \in Requests : s # r /\ Running(s) =>
                 join[s].master /\ handler[Issuer[s]].gone
            BY <1>1, <2>1, <2>2 DEF Control, CoroutineInv
        <3> QED
            BY <1>1, <1>7, <1>8, <1>10, <2>3, <3>1, <3>2, JoinTypes, GameServerAssumption
               DEF Control, CoroutineInv, Running
    <2>6. LeaseInv' /\ NoMemberAfterDisconnect'
        BY <1>1, <1>4, <2>3 DEF Control, LeaseInv, LeaseHasHolder, NoMemberAfterDisconnect,
                                IsMember, NodesOf
    <2> QED
        BY <1>9, <2>3, <2>4, <2>5, <2>6, IInvSplit DEF Control
<1>12. CASE ~join[r].master
    <2>1. game' = game
        BY <1>12 DEF JoinedCompleted
    <2>2. HandlerInv'
        BY <1>1, <1>4, <1>7, <1>8, <1>12, <2>1 DEF Control, HandlerInv
    <2>3. \A s \in Requests : RunsCreation(s)' <=> s # r /\ RunsCreation(s)
        BY <1>8, <2>1, JoinTypes DEF RunsCreation
    <2>4. CoroutineInv'
        BY <1>1, <1>7, <1>8, <1>10, <2>1, <2>3, JoinTypes, GameServerAssumption
           DEF Control, CoroutineInv, Running
    <2>5. LeaseInv' /\ NoMemberAfterDisconnect'
        <3>1. ~game.creating
            BY <1>4, <1>12, JoinerRoom
        <3> QED
            BY <1>1, <1>4, <2>1, <3>1 DEF Control, LeaseInv, LeaseHasHolder,
                                          NoMemberAfterDisconnect
    <2> QED
        BY <1>1, <1>9, <2>1, <2>2, <2>4, <2>5, IInvSplit DEF Control
<1> QED
    BY <1>5, <1>11, <1>12

-----------------------------------------------------------------------------
(* A join request arrives, is parked, is replayed or gives up. *)

\* A request that is not running is refused, parked, expired or enters a created
\* room; the room and everybody else's state are left alone.
LEMMA EnterQuiet ==
    ASSUME IInv, NEW r \in Requests, ~Running(r), ~handler[Issuer[r]].gone,
           NEW k \in HandlerState, NEW j \in JoinState,
           ~k.gone, k.attached, k.lease = handler[Issuer[r]].lease,
           \/ k.pending = NoRequest
           \/ k.pending = r /\ j.pc = "parked"
           \/ k.pending = handler[Issuer[r]].pending /\ k.pending # r,
           j.pc # "joined",
           j.pc = "before" => ~j.master /\ game.created,
           handler' = [handler EXCEPT ![Issuer[r]] = k],
           join' = [join EXCEPT ![r] = j],
           UNCHANGED <<game, leave, drop, announced>>
    PROVE  IInv'
<1> DEFINE p == Issuer[r]
<1>1. Control /\ RoomInv(game) /\ TypeOK
    BY IInvSplit DEF Control
<1>2. p \in Peers /\ NoRequest \notin Requests
    BY GameServerAssumption
<1>3. TypeOK'
    BY <1>1, <1>2 DEF TypeOK
<1>4. \A q \in Peers : handler'[q] = IF q = p THEN k ELSE handler[q]
    BY <1>1, <1>2 DEF TypeOK
<1>5. \A s \in Requests : join'[s] = IF s = r THEN j ELSE join[s]
    BY <1>1 DEF TypeOK
<1>6. \A q \in Peers : handler[q].pending \in Requests \cup {NoRequest}
    BY <1>1 DEF TypeOK, HandlerState
<1>7. \A q \in Peers : /\ handler'[q].gone <=> handler[q].gone
                       /\ handler'[q].attached <=> handler[q].attached
                       /\ handler'[q].lease = handler[q].lease
    BY <1>1, <1>2, <1>4 DEF Control, HandlerInv
<1>8. HandlerInv'
    <2> SUFFICES ASSUME NEW q \in Peers
                 PROVE  (/\ handler[q].gone <=> ~handler[q].attached
                         /\ handler[q].gone => handler[q].pending = NoRequest
                         /\ drop[q].pc # "idle" => handler[q].gone
                         /\ handler[q].pending # NoRequest =>
                               /\ Issuer[handler[q].pending] = q
                               /\ join[handler[q].pending].pc = "parked"
                         /\ handler[q].lease # 0 =>
                               IsCreationActive(game, q, handler[q].lease))'
        BY DEF HandlerInv
    <2>1. CASE q = p
        BY <1>1, <1>2, <1>4, <1>5, <1>6, <2>1 DEF Control, HandlerInv
    <2>2. CASE q # p
        <3>1. handler'[q] = handler[q]
            BY <1>4, <2>2
        <3>2. handler[q].pending # NoRequest => handler[q].pending # r
            BY <1>1, <2>2 DEF Control, HandlerInv
        <3> QED
            BY <1>1, <1>5, <1>6, <3>1, <3>2 DEF Control, HandlerInv
    <2> QED
        BY <2>1, <2>2
<1>9. \A s \in Requests : RunsCreation(s)' <=> RunsCreation(s)
    BY <1>5 DEF RunsCreation, Running
<1>10. CoroutineInv'
    <2>1. \A s \in Requests : Running(s)' =>
             IF s = r THEN ~join'[s].master /\ game.created ELSE Running(s)
        BY <1>5 DEF Running
    <2> QED
        BY <1>1, <1>5, <1>7, <1>9, <2>1, GameServerAssumption DEF Control, CoroutineInv
<1>11. LeaseInv'
    BY <1>1, <1>7, <1>9 DEF Control, LeaseInv, LeaseHasHolder
<1>12. NoMemberAfterDisconnect'
    BY <1>1 DEF Control, NoMemberAfterDisconnect
<1> QED
    BY <1>1, <1>3, <1>8, <1>10, <1>11, <1>12, IInvSplit DEF Control

\* Taking the creation lease keeps the invariant: no other handler remembers a
\* lease and every other suspended creator has been disconnected.
LEMMA EnterAsMaster ==
    ASSUME IInv, NEW r \in Requests, ~Running(r), ~handler[Issuer[r]].gone,
           NEW h \in HandlerState, NEW o \in Offer,
           ~h.gone, h.attached,
           \/ h.pending = NoRequest
           \/ h.pending = handler[Issuer[r]].pending /\ h.pending # r,
           StartAsMaster(r, h, o),
           UNCHANGED <<leave, drop, announced>>
    PROVE  IInv'
<1> DEFINE p == Issuer[r]
           gen == game.generation + 1
           k == [h EXCEPT !.lease = gen]
           j == [IdleJoin EXCEPT !.pc = "before", !.master = TRUE,
                                 !.gen = gen, !.offer = o]
<1>1. Control /\ RoomInv(game) /\ TypeOK /\ game \in GameState
    BY IInvSplit DEF Control, TypeOK
<1>2. p \in Peers /\ NoRequest \notin Requests
    BY GameServerAssumption
<1>3. gen \in Nat /\ gen # 0 /\ gen > game.generation /\ game.generation \in Nat
    BY <1>1 DEF GameState
<1>4. ~game.created /\ ~game.creating
    BY DEF StartAsMaster, MayBeginCreation
<1>5. /\ game' \in GameState
      /\ game'.created = FALSE /\ game'.creating = TRUE
      /\ game'.owner = p /\ game'.generation = gen
      /\ \A q \in Peers : ~IsMember(game', q)
      /\ RoomInv(game')
    <2>1. game' = BeginCreation(game, p) /\ MayBeginCreation(game)
        BY DEF StartAsMaster
    <2> QED
        BY <1>1, <1>2, <2>1, BeginCreationKeeps
<1>6. handler' = [handler EXCEPT ![p] = k] /\ join' = [join EXCEPT ![r] = j]
    BY <1>5 DEF StartAsMaster
<1> HIDE DEF gen
<1>7. /\ k \in HandlerState
      /\ k.gone = h.gone /\ k.attached = h.attached /\ k.pending = h.pending
      /\ k.lease = gen
    BY <1>3 DEF HandlerState
<1>8. j \in JoinState /\ j.pc = "before" /\ j.master = TRUE /\ j.gen = gen
    BY <1>3, JoinTypes DEF JoinState, JoinPc
<1> HIDE DEF k, j
<1>9. TypeOK'
    BY <1>1, <1>2, <1>5, <1>6, <1>7, <1>8 DEF TypeOK
<1>10. \A q \in Peers : handler'[q] = IF q = p THEN k ELSE handler[q]
    BY <1>1, <1>2, <1>6 DEF TypeOK
<1>11. \A s \in Requests : join'[s] = IF s = r THEN j ELSE join[s]
    BY <1>1, <1>6 DEF TypeOK
<1>12. \A q \in Peers : /\ handler[q].pending \in Requests \cup {NoRequest}
                        /\ handler[q].lease = 0
    <2>1. \A q \in Peers : handler[q].lease = 0
        BY <1>1, <1>4 DEF Control, HandlerInv, IsCreationActive
    <2> QED
        BY <1>1, <2>1 DEF TypeOK, HandlerState
<1>13. IsCreationActive(game', p, gen)
    BY <1>3, <1>5 DEF IsCreationActive
<1>14. HandlerInv'
    <2> SUFFICES ASSUME NEW q \in Peers
                 PROVE  (/\ handler[q].gone <=> ~handler[q].attached
                         /\ handler[q].gone => handler[q].pending = NoRequest
                         /\ drop[q].pc # "idle" => handler[q].gone
                         /\ handler[q].pending # NoRequest =>
                               /\ Issuer[handler[q].pending] = q
                               /\ join[handler[q].pending].pc = "parked"
                         /\ handler[q].lease # 0 =>
                               IsCreationActive(game, q, handler[q].lease))'
        BY DEF HandlerInv
    <2>1. CASE q = p
        <3>1. /\ handler'[p] = k /\ ~k.gone /\ k.attached
              /\ drop'[p].pc = "idle"
            BY <1>1, <1>2, <1>7, <1>10 DEF Control, HandlerInv
        <3>2. k.pending # NoRequest =>
                 Issuer[k.pending] = p /\ join'[k.pending].pc = "parked"
            BY <1>1, <1>2, <1>7, <1>11, <1>12 DEF Control, HandlerInv
        <3> QED
            BY <1>7, <1>13, <2>1, <3>1, <3>2
    <2>2. CASE q # p
        <3>1. handler'[q] = handler[q]
            BY <1>10, <2>2
        <3>2. handler[q].pending # NoRequest => handler[q].pending # r
            BY <1>1, <2>2 DEF Control, HandlerInv
        <3> QED
            BY <1>1, <1>11, <1>12, <3>1, <3>2 DEF Control, HandlerInv
    <2> QED
        BY <2>1, <2>2
<1>15. RunsCreation(r)'
    BY <1>8, <1>11, <1>13 DEF RunsCreation
<1>16. \A s \in Requests : s # r /\ Running(s)' =>
          /\ Running(s) /\ join[s].master /\ join[s].gen \in 1 .. game.generation
          /\ handler[Issuer[s]].gone
    <2>1. \A s \in Requests : ~RunsCreation(s)
        BY <1>4 DEF RunsCreation, IsCreationActive
    <2> QED
        BY <1>1, <1>4, <1>11, <2>1 DEF Control, CoroutineInv, Running
<1>17. CoroutineInv'
    <2>1. \A s \in Requests : RunsCreation(s)' => s = r
        BY <1>3, <1>5, <1>16 DEF RunsCreation, IsCreationActive, Running
    <2>2. \A s \in Requests : handler[Issuer[s]].gone => handler'[Issuer[s]].gone
        BY <1>10, GameServerAssumption
    <2>3. 1 .. game.generation \subseteq 1 .. game'.generation /\ gen \in 1 .. gen
        BY <1>3, <1>5
    <2>4. \A s \in Requests : Running(s)' =>
             IF join'[s].master
             THEN /\ join'[s].gen \in 1 .. game'.generation
                  /\ handler'[Issuer[s]].gone \/ RunsCreation(s)'
             ELSE game'.created
        BY <1>5, <1>8, <1>11, <1>15, <1>16, <2>2, <2>3
    <2>5. \A s \in Requests : join'[s].pc = "joined" => join'[s].actor # 0
        BY <1>1, <1>8, <1>11 DEF Control, CoroutineInv
    <2> QED
        BY <2>1, <2>4, <2>5 DEF CoroutineInv
<1>18. LeaseInv'
    BY <1>2, <1>5, <1>7, <1>10, <1>15 DEF LeaseInv, LeaseHasHolder
<1>19. NoMemberAfterDisconnect'
    BY <1>5 DEF NoMemberAfterDisconnect
<1> QED
    BY <1>5, <1>9, <1>14, <1>17, <1>18, <1>19, IInvSplit DEF Control

\* A join request keeps the invariant, whether it arrives or is replayed.
LEMMA EnterJoinInv ==
    ASSUME IInv, NEW r \in Requests, ~Running(r), ~handler[Issuer[r]].gone,
           NEW h \in HandlerState, NEW o \in Offer,
           ~h.gone, h.attached, h.lease = handler[Issuer[r]].lease,
           \/ h.pending = NoRequest
           \/ h.pending = handler[Issuer[r]].pending /\ h.pending # r,
           EnterJoin(r, h, o)
    PROVE  IInv'
<1> DEFINE p == Issuer[r]
<1>1. TypeOK
    BY IInvSplit DEF Control
<1>2. UNCHANGED <<leave, drop, announced>>
    BY DEF EnterJoin
<1>3. CASE RefuseJoin(r, h, o)
    BY <1>2, <1>3, JoinTypes, EnterQuiet DEF RefuseJoin
<1>4. CASE ParkJoin(r, h, o)
    <2> DEFINE gen == game.generation
               k == [h EXCEPT !.pending = r, !.pendingGen = gen, !.overdue = FALSE]
               j == [IdleJoin EXCEPT !.pc = "parked", !.offer = o]
    <2>1. gen \in Nat
        BY <1>1 DEF TypeOK, GameState
    <2>2. /\ handler' = [handler EXCEPT ![p] = k] /\ join' = [join EXCEPT ![r] = j]
          /\ game' = game
        BY <1>4 DEF ParkJoin
    <2> HIDE DEF gen
    <2>3. /\ k \in HandlerState /\ k.gone = h.gone /\ k.attached = h.attached
          /\ k.pending = r /\ k.lease = h.lease
        BY <2>1 DEF HandlerState
    <2>4. j \in JoinState /\ j.pc = "parked"
        BY JoinTypes DEF JoinState, JoinPc
    <2> HIDE DEF k, j
    <2> QED
        BY <1>2, <2>2, <2>3, <2>4, EnterQuiet
<1>5. CASE StartAsMaster(r, h, o)
    BY <1>2, <1>5, EnterAsMaster
<1>6. CASE StartAsJoiner(r, h, o)
    <2> DEFINE k == [h EXCEPT !.seat = 0]
               j == [IdleJoin EXCEPT !.pc = "before", !.offer = o]
    <2>1. /\ k \in HandlerState /\ k.gone = h.gone /\ k.attached = h.attached
          /\ k.pending = h.pending /\ k.lease = h.lease
        <3>1. 0 \in 0 .. MaxActor
            BY GameAssumption
        <3> QED
            BY <3>1 DEF HandlerState
    <2>2. j \in JoinState /\ j.pc = "before" /\ ~j.master
        BY JoinTypes DEF JoinState, JoinPc, IdleJoin
    <2>3. /\ game.created /\ game' = game
          /\ \/ handler' = [handler EXCEPT ![p] = h] /\ join' = [join EXCEPT ![r] = j]
             \/ handler' = [handler EXCEPT ![p] = k] /\ join' = [join EXCEPT ![r] = Ended]
        BY <1>6 DEF StartAsJoiner
    <2> HIDE DEF k, j
    <2>4. CASE handler' = [handler EXCEPT ![p] = h] /\ join' = [join EXCEPT ![r] = j]
        BY <1>2, <2>2, <2>3, <2>4, EnterQuiet
    <2>5. CASE handler' = [handler EXCEPT ![p] = k] /\ join' = [join EXCEPT ![r] = Ended]
        BY <1>2, <2>1, <2>3, <2>5, JoinTypes, EnterQuiet
    <2> QED
        BY <2>3, <2>4, <2>5
<1> QED
    BY <1>3, <1>4, <1>5, <1>6 DEF EnterJoin

\* A new join request keeps the invariant.
LEMMA JoinRequestInv ==
    ASSUME IInv, NEW r \in Requests, NEW o \in Offers, JoinRequest(r, o)
    PROVE  IInv'
<1> DEFINE p == Issuer[r]
           h == handler[p]
<1>1. Control /\ TypeOK
    BY IInvSplit DEF Control
<1>2. p \in Peers /\ o \in Offer
    BY GameServerAssumption
<1>3. h \in HandlerState
    BY <1>1, <1>2 DEF TypeOK
<1>4. join[r].pc = "idle" /\ h.attached /\ EnterJoin(r, h, o)
    BY DEF JoinRequest
<1>5. ~h.gone /\ ~Running(r)
    BY <1>1, <1>2, <1>4 DEF Control, HandlerInv, Running
<1>6. h.pending = NoRequest \/ h.pending # r
    BY <1>1, <1>2, <1>4 DEF Control, HandlerInv
<1> QED
    BY <1>2, <1>3, <1>4, <1>5, <1>6, EnterJoinInv

\* HandleSlowUpdate() keeps the invariant.
LEMMA HandleSlowUpdateInv ==
    ASSUME IInv, NEW p \in Peers, HandleSlowUpdate(p)
    PROVE  IInv'
<1> DEFINE h == handler[p]
           r == h.pending
           k == Unparked(h)
<1>1. Control /\ TypeOK
    BY IInvSplit DEF Control
<1>2. h \in HandlerState /\ r \in Requests
    BY <1>1 DEF TypeOK, HandlerState, HandleSlowUpdate, ReplayPending, ExpirePending
<1>3. /\ Issuer[r] = p /\ join[r].pc = "parked"
      /\ ~h.gone /\ h.attached /\ ~Running(r)
    BY <1>1, <1>2, GameServerAssumption DEF Control, HandlerInv, Running
<1>4. /\ k \in HandlerState
      /\ k.gone = h.gone /\ k.attached = h.attached /\ k.lease = h.lease
      /\ k.pending = NoRequest
    BY <1>2 DEF Unparked, HandlerState
<1>5. CASE ReplayPending(p)
    <2> DEFINE l == [k EXCEPT !.attached = TRUE]
    <2>1. EnterJoin(r, l, join[r].offer)
        BY <1>5 DEF ReplayPending
    <2>2. /\ l \in HandlerState
          /\ l.gone = k.gone /\ l.attached = TRUE /\ l.lease = k.lease
          /\ l.pending = NoRequest
        <3> HIDE DEF k
        <3> QED
            BY <1>4 DEF HandlerState
    <2>3. join[r].offer \in Offer
        BY <1>1, <1>2 DEF TypeOK, JoinState
    <2> HIDE DEF l
    <2> QED
        BY <1>2, <1>3, <1>4, <2>1, <2>2, <2>3, EnterJoinInv
<1>6. CASE ExpirePending(p)
    <2>1. /\ handler' = [handler EXCEPT ![Issuer[r]] = k]
          /\ join' = [join EXCEPT ![r] = Ended]
          /\ UNCHANGED <<game, leave, drop, announced>>
        BY <1>3, <1>6 DEF ExpirePending
    <2> HIDE DEF k
    <2> QED
        BY <1>2, <1>3, <1>4, <2>1, JoinTypes, EnterQuiet
<1> QED
    BY <1>5, <1>6 DEF HandleSlowUpdate

-----------------------------------------------------------------------------
(* The end of a connection. *)

\* What HandleDisconnect() leaves of a handler.
LEMMA DroppedHandlerType ==
    ASSUME NEW h \in HandlerState
    PROVE  /\ DroppedHandler(h) \in HandlerState
           /\ DroppedHandler(h).gone /\ ~DroppedHandler(h).attached
           /\ DroppedHandler(h).lease = 0 /\ DroppedHandler(h).pending = NoRequest
<1> DEFINE u == Unparked(h)
           seat == IF h.lease # 0 THEN 0 ELSE h.seat
<1>1. u \in HandlerState /\ u.pending = NoRequest /\ u.seat = h.seat
    BY DEF Unparked, HandlerState
<1>2. seat \in 0 .. MaxActor
    <2>1. 0 \in 0 .. MaxActor
        BY GameAssumption
    <2> QED
        BY <2>1 DEF HandlerState
<1> DEFINE v == [u EXCEPT !.gone = TRUE, !.attached = FALSE]
<1>3. DroppedHandler(h) = [v EXCEPT !.lease = 0, !.seat = seat]
    BY <1>1 DEF DroppedHandler, HandlerState
<1> HIDE DEF u, seat
<1>4. v \in HandlerState /\ v.gone /\ ~v.attached /\ v.pending = NoRequest
    BY <1>1 DEF HandlerState
<1> HIDE DEF v
<1> DEFINE w == [v EXCEPT !.lease = 0, !.seat = seat]
<1>5. w \in HandlerState
    BY <1>2, <1>4 DEF HandlerState
<1>6. w.gone = v.gone /\ w.attached = v.attached /\ w.pending = v.pending /\ w.lease = 0
    BY <1>4 DEF HandlerState
<1> HIDE DEF w
<1> QED
    BY <1>3, <1>4, <1>5, <1>6 DEF w

\* HandleDisconnect() up to its await keeps the invariant: it aborts the creation
\* its handler was running, so that no coroutine it leaves behind holds a lease.
LEMMA DisconnectInv ==
    ASSUME IInv, NEW p \in Peers, Disconnect(p)
    PROVE  IInv'
<1> DEFINE h == handler[p]
           g1 == IF h.attached /\ h.lease # 0 THEN AbortCreation(game, p, h.lease)
                 ELSE game
           member == h.attached /\ IsMember(g1, p)
           a == IF member THEN ActorOf(g1, p) ELSE 0
           awaits == member /\ ~h.left
           k == IF awaits THEN DroppedHandler(h) ELSE [DroppedHandler(h) EXCEPT !.seat = 0]
           d == IF awaits THEN [pc |-> "leaving", actor |-> a] ELSE [pc |-> "done", actor |-> 0]
<1>1. Control /\ RoomInv(game) /\ TypeOK /\ game \in GameState
    BY IInvSplit DEF Control, TypeOK
<1>2. h \in HandlerState /\ h.lease \in Nat /\ h.pending \in Requests \cup {NoRequest}
    BY <1>1 DEF TypeOK, HandlerState
<1>3. ~h.gone /\ h.attached
    BY <1>1 DEF Disconnect, Control, HandlerInv
<1>4. /\ game' = IF member /\ h.left THEN RemovePeer(g1, p) ELSE g1
      /\ handler' = [handler EXCEPT ![p] = k]
      /\ drop' = [drop EXCEPT ![p] = d]
      /\ announced' \subseteq announced
      /\ join' = [s \in Requests |-> IF s = h.pending THEN Ended ELSE join[s]]
      /\ leave' = leave
    BY DEF Disconnect
<1>5. /\ k \in HandlerState /\ k.gone /\ ~k.attached /\ k.lease = 0
      /\ k.pending = NoRequest
    <2>1. 0 \in 0 .. MaxActor
        BY GameAssumption
    <2>2. /\ DroppedHandler(h) \in HandlerState
          /\ DroppedHandler(h).gone /\ ~DroppedHandler(h).attached
          /\ DroppedHandler(h).lease = 0 /\ DroppedHandler(h).pending = NoRequest
        BY <1>2, DroppedHandlerType
    <2> HIDE DEF awaits, h
    <2> QED
        BY <2>1, <2>2 DEF HandlerState
<1> HIDE DEF k
<1>6. h.lease # 0 =>
         /\ IsCreationActive(game, p, h.lease)
         /\ game.creating /\ game.owner = p /\ ~game.created
    BY <1>1 DEF Control, HandlerInv, LeaseInv, IsCreationActive
<1>7. h.lease = 0 => ~(game.creating /\ game.owner = p)
    BY <1>1 DEF Control, LeaseInv, LeaseHasHolder, RunsCreation, IsCreationActive
<1>8. /\ g1 \in GameState /\ RoomInv(g1) /\ g1.generation = game.generation
      /\ \A q \in Peers : IsMember(g1, q) => IsMember(game, q)
      /\ h.lease = 0 => SameLease(game, g1)
      /\ h.lease # 0 => ~g1.created /\ ~g1.creating
    <2>1. CASE h.lease = 0
        BY <1>1, <2>1 DEF SameLease
    <2>2. CASE h.lease # 0
        <3> DEFINE g == AbortCreation(game, p, h.lease)
        <3>1. g1 = g
            BY <1>3, <2>2
        <3>2. /\ g \in GameState
              /\ g.created = FALSE /\ g.creating = FALSE
              /\ g.generation = game.generation
              /\ g.peers = {}
              /\ RoomInv(game) => RoomInv(g)
            BY <1>1, <1>2, <1>6, <2>2, AbortCreationRestores, Zenon
        <3> HIDE DEF g, g1
        <3> QED
            BY <1>1, <2>2, <3>1, <3>2 DEF IsMember, NodesOf
    <2> QED
        BY <2>1, <2>2
<1> HIDE DEF g1
<1>9. /\ game' \in GameState /\ RoomInv(game') /\ SameLease(g1, game')
      /\ \A q \in Peers : IsMember(game', q) => IsMember(game, q)
      /\ ~awaits => ~IsMember(game', p)
    <2>1. CASE member /\ h.left
        BY <1>4, <1>8, <2>1, RemovePeerKeeps
    <2>2. CASE ~(member /\ h.left)
        BY <1>3, <1>4, <1>8, <2>2 DEF SameLease
    <2> QED
        BY <2>1, <2>2
<1>10. d \in [pc : {"idle", "leaving", "done"}, actor : 0 .. MaxActor]
       /\ (d.pc = "done" => ~awaits)
    BY <1>8, ActorOfType, GameAssumption
<1> HIDE DEF d, awaits, member, h
<1>11. /\ game'.generation = game.generation
       /\ h.lease = 0 => SameLease(game, game')
       /\ h.lease # 0 => ~game'.created /\ ~game'.creating
    BY <1>8, <1>9 DEF SameLease
<1>12. TypeOK'
    <2>1. handler' \in [Peers -> HandlerState] /\ drop' \in [Peers ->
              [pc : {"idle", "leaving", "done"}, actor : 0 .. MaxActor]]
        BY <1>1, <1>4, <1>5, <1>10 DEF TypeOK
    <2>2. join' \in [Requests -> JoinState]
        BY <1>1, <1>4, JoinTypes DEF TypeOK
    <2> QED
        BY <1>1, <1>4, <1>9, <2>1, <2>2 DEF TypeOK
<1>13. /\ \A q \in Peers : handler'[q] = IF q = p THEN k ELSE handler[q]
       /\ \A q \in Peers : drop'[q] = IF q = p THEN d ELSE drop[q]
       /\ \A s \in Requests : join'[s] = IF s = h.pending THEN Ended ELSE join[s]
    BY <1>1, <1>4 DEF TypeOK
<1>14. /\ \A s \in Requests : Running(s)' => Running(s) /\ join'[s] = join[s]
       /\ \A s \in Requests : Running(s) => join'[s] = join[s]
       /\ \A q \in Peers : q # p /\ handler[q].pending # NoRequest =>
             join'[handler[q].pending] = join[handler[q].pending]
    <2>1. h.pending # NoRequest => Issuer[h.pending] = p /\ join[h.pending].pc = "parked"
        BY <1>1 DEF Control, HandlerInv, h
    <2>2. \A q \in Peers : handler[q].pending \in Requests \cup {NoRequest}
        BY <1>1 DEF TypeOK, HandlerState
    <2>3. \A q \in Peers : q # p /\ handler[q].pending # NoRequest =>
             handler[q].pending # h.pending
        BY <1>1, <2>1 DEF Control, HandlerInv
    <2> QED
        BY <1>13, <2>1, <2>2, <2>3, JoinTypes, GameServerAssumption DEF Running
<1>15. \A q \in Peers : q # p => \A gen :
          (IsCreationActive(game', q, gen) <=> IsCreationActive(game, q, gen))
    BY <1>6, <1>11 DEF SameLease, IsCreationActive
<1>16. HandlerInv'
    BY <1>1, <1>5, <1>13, <1>14, <1>15 DEF Control, HandlerInv
<1>17. \A s \in Requests : Issuer[s] # p => (RunsCreation(s)' <=> RunsCreation(s))
    BY <1>14, <1>15, GameServerAssumption DEF RunsCreation, Running
<1>18. ~game'.creating \/ (game'.creating = game.creating /\ game'.owner = game.owner
                              /\ game.owner # p /\ SameLease(game, game'))
    BY <1>7, <1>11 DEF SameLease
<1>19. \A s \in Requests : RunsCreation(s)' => RunsCreation(s)
    BY <1>14, <1>18 DEF RunsCreation, Running, IsCreationActive, SameLease
<1>20. \A s \in Requests : handler'[Issuer[s]].gone \/
          (Issuer[s] # p /\ handler'[Issuer[s]] = handler[Issuer[s]])
    BY <1>5, <1>13, GameServerAssumption
<1>21. CoroutineInv'
    <2>1. \A s \in Requests : Running(s)' =>
             IF join'[s].master
             THEN /\ join'[s].gen \in 1 .. game'.generation
                  /\ handler'[Issuer[s]].gone \/ RunsCreation(s)'
             ELSE game'.created
        BY <1>1, <1>6, <1>11, <1>14, <1>17, <1>20 DEF Control, CoroutineInv, SameLease
    <2>2. \A s \in Requests : join'[s].pc = "joined" => join'[s].actor # 0
        BY <1>1, <1>14 DEF Control, CoroutineInv, Running
    <2> QED
        BY <1>1, <1>19, <2>1, <2>2 DEF Control, CoroutineInv
<1>22. LeaseInv'
    BY <1>1, <1>13, <1>17, <1>18 DEF Control, LeaseInv, LeaseHasHolder, SameLease
<1>23. NoMemberAfterDisconnect'
    BY <1>1, <1>9, <1>10, <1>13 DEF Control, NoMemberAfterDisconnect
<1> QED
    BY <1>9, <1>12, <1>16, <1>21, <1>22, <1>23, IInvSplit DEF Control

\* The end of HandleDisconnect() keeps the invariant.
LEMMA FinishDisconnectInv ==
    ASSUME IInv, NEW p \in Peers, FinishDisconnect(p)
    PROVE  IInv'
<1>1. Control /\ RoomInv(game) /\ TypeOK /\ game \in GameState
    BY IInvSplit DEF Control, TypeOK
<1> DEFINE h == [handler[p] EXCEPT !.seat = 0, !.lease = 0]
<1>2. handler' = [handler EXCEPT ![p] = h]
    BY DEF FinishDisconnect
<1>3. /\ h \in HandlerState /\ h.lease = 0
      /\ h.gone = handler[p].gone /\ h.attached = handler[p].attached
      /\ h.pending = handler[p].pending
    <2>1. handler[p] \in HandlerState /\ 0 \in 0 .. MaxActor
        BY <1>1, GameAssumption DEF TypeOK
    <2> QED
        BY <2>1 DEF HandlerState
<1> HIDE DEF h
<1>4. handler[p].gone /\ handler[p].lease = 0
    BY <1>1 DEF FinishDisconnect, Control, HandlerInv, LeaseInv, LeaseHasHolder, IsCreationActive
<1>5. /\ game' \in GameState /\ SameLease(game, game') /\ RoomInv(game')
      /\ ~IsMember(game', p)
      /\ \A q \in Peers : IsMember(game', q) => IsMember(game, q)
    BY <1>1, RemovePeerKeeps DEF FinishDisconnect
<1>6. \A q \in Peers :
         /\ handler'[q].gone = handler[q].gone
         /\ handler'[q].attached = handler[q].attached
         /\ handler'[q].pending = handler[q].pending
         /\ handler'[q].lease = handler[q].lease
    BY <1>1, <1>2, <1>3, <1>4 DEF TypeOK
<1>7. /\ drop' = [drop EXCEPT ![p] = [pc |-> "done", actor |-> 0]]
      /\ announced' \subseteq announced /\ UNCHANGED <<join, leave>>
    BY DEF FinishDisconnect
<1>8. TypeOK'
    BY <1>1, <1>2, <1>3, <1>5, <1>7, GameAssumption DEF TypeOK
<1>9. \A q, gen : IsCreationActive(game', q, gen) <=> IsCreationActive(game, q, gen)
    BY <1>5, SameActive
<1>10. \A q \in Peers : drop'[q] = IF q = p THEN [pc |-> "done", actor |-> 0] ELSE drop[q]
    BY <1>1, <1>7 DEF TypeOK
<1>11. HandlerInv'
    BY <1>1, <1>4, <1>6, <1>7, <1>9, <1>10 DEF Control, HandlerInv
<1>12. \A r \in Requests : RunsCreation(r)' <=> RunsCreation(r)
    BY <1>7, <1>9 DEF RunsCreation
<1>13. CoroutineInv'
    BY <1>1, <1>5, <1>6, <1>7, <1>12, GameServerAssumption
       DEF Control, CoroutineInv, Running, SameLease
<1>14. LeaseInv'
    BY <1>1, <1>5, <1>6, <1>12 DEF Control, LeaseInv, LeaseHasHolder, SameLease
<1>15. NoMemberAfterDisconnect'
    BY <1>1, <1>5, <1>10 DEF Control, NoMemberAfterDisconnect
<1> QED
    BY <1>5, <1>8, <1>11, <1>13, <1>14, <1>15, IInvSplit DEF Control

-----------------------------------------------------------------------------
(* The theorems. *)

\* Every step keeps the invariant.
LEMMA NextInv == IInv /\ [Next]_vars => IInv'
<1> SUFFICES ASSUME IInv, [Next]_vars PROVE IInv'
    OBVIOUS
<1>1. CASE UNCHANGED vars
    BY <1>1 DEF vars, IInv, TypeOK, HandlerInv, CoroutineInv, LeaseInv, LeaseHasHolder,
                UncreatedRoomHasNoMembers, NoMemberAfterDisconnect, MembersDistinct,
                ReservationsExpire, InitialUsersInv, GenerationsInv, Running, RunsCreation
<1>2. ASSUME NEW p \in Peers,
             \/ PendingOverdue(p) \/ HandleSlowUpdate(p) \/ LeaveRequest(p)
             \/ \E ok \in BOOLEAN : ResumeLeave(p, ok)
             \/ Disconnect(p) \/ FinishDisconnect(p)
      PROVE  IInv'
    BY <1>2, PendingOverdueInv, HandleSlowUpdateInv, LeaveRequestInv, ResumeLeaveInv,
       DisconnectInv, FinishDisconnectInv
<1>3. ASSUME NEW r \in Requests, NEW o \in Offers, JoinRequest(r, o)
      PROVE  IInv'
    BY <1>3, JoinRequestInv
<1>4. ASSUME NEW r \in Requests, ResumeBefore(r)
      PROVE  IInv'
    <2>1. ASSUME NEW ok \in BOOLEAN, BeforeAborted(r, ok)
          PROVE  IInv'
        BY <2>1, RollbackInv DEF BeforeAborted, Running
    <2>2. ASSUME BeforeRejected(r)
          PROVE  IInv'
        BY <2>2, RollbackInv DEF BeforeRejected, Running
    <2> QED
        BY <1>4, <2>1, <2>2, BeforeAdmittedInv DEF ResumeBefore
<1>5. ASSUME NEW r \in Requests, ResumeJoined(r)
      PROVE  IInv'
    <2>1. ASSUME JoinedGone(r)
          PROVE  IInv'
        BY <2>1, RollbackInv DEF JoinedGone, Running
    <2> QED
        BY <1>5, <2>1, JoinedFailsInv, JoinedCompletedInv DEF ResumeJoined
<1>6. ASSUME NEW u \in Users, NEW o \in Offers, MasterReserve(u, o.invited)
      PROVE  IInv'
    BY <1>6, MasterReserveInv
<1>7. ASSUME NEW task \in game.expiries, ExpireReservation(task)
      PROVE  IInv'
    BY <1>7, ExpireReservationInv
<1> QED
    BY <1>1, <1>2, <1>3, <1>4, <1>5, <1>6, <1>7 DEF Next

\* IInv holds in every state of every behaviour.
THEOREM Invariance == Spec => []IInv
BY InitInv, NextInv, PTL DEF Spec

\* Every variable keeps its type: actor numbers stay in 1 .. MaxActor however
\* often create_peer() wraps around and whoever leaves.
THEOREM TypeCorrect == Spec => []TypeOK
<1>1. IInv => TypeOK
    BY DEF IInv
<1> QED
    BY Invariance, <1>1, PTL

\* is_creating is never left set without a connected handler and a coroutine that
\* will clear it.
THEOREM LeaseSafe == Spec => []LeaseHasHolder
<1>1. IInv => LeaseHasHolder
    BY DEF IInv, LeaseInv
<1> QED
    BY Invariance, <1>1, PTL

\* A room that is not created has no member but the one creating it, so a failed
\* creation can always be started again.
THEOREM PlaceholderEmpty == Spec => []UncreatedRoomHasNoMembers
<1>1. IInv => UncreatedRoomHasNoMembers
    BY DEF IInv
<1> QED
    BY Invariance, <1>1, PTL

\* Once HandleDisconnect() has finished the peer is out of the room for good.
THEOREM DisconnectFinal == Spec => []NoMemberAfterDisconnect
<1>1. IInv => NoMemberAfterDisconnect
    BY DEF IInv
<1> QED
    BY Invariance, <1>1, PTL

\* No two members share an actor number nor, under CheckUserOnJoin, a user.
THEOREM MembersUnique == Spec => []MembersDistinct
<1>1. IInv => MembersDistinct
    BY DEF IInv
<1> QED
    BY Invariance, <1>1, PTL

\* No reservation outlives its TTL: its expiry task is always scheduled.
THEOREM NoReservationLeak == Spec => []ReservationsExpire
<1>1. IInv => ReservationsExpire
    BY DEF IInv
<1> QED
    BY Invariance, <1>1, PTL

\* What an abort under the current lease restores.
LEMMA AbortStep ==
    ASSUME IInv, game.creating, ~game'.creating,
           NEW p \in Peers, NEW gen \in Nat, game' = AbortCreation(game, p, gen)
    PROVE  /\ game'.peers = {}
           /\ game'.config = game.initial
           /\ ExpectedUsers(game') = InitialUsers(game)
<1>1. RoomInv(game) /\ game \in GameState
    BY IInvSplit DEF Control, TypeOK
<1>2. IsCreationActive(game, p, gen)
    BY DEF AbortCreation
<1> DEFINE h == AbortCreation(game, p, gen)
<1>3. /\ h.peers = {}
      /\ h.config = game.initial
      /\ RoomInv(game) => ExpectedUsers(h) = InitialUsers(game)
    BY <1>1, <1>2, AbortCreationRestores, Zenon
<1> QED
    BY <1>1, <1>3

\* A step that ends a creation without committing it restores the room.
LEMMA AbortRestores ==
    ASSUME IInv, Next, game.creating, ~game'.creating, ~game'.created
    PROVE  /\ game'.peers = {}
           /\ game'.config = game.initial
           /\ ExpectedUsers(game') = InitialUsers(game)
<1> DEFINE Goal == /\ game'.peers = {}
                   /\ game'.config = game.initial
                   /\ ExpectedUsers(game') = InitialUsers(game)
<1>1. Control /\ RoomInv(game) /\ TypeOK /\ game \in GameState
    BY IInvSplit DEF Control, TypeOK
<1>2. /\ game' # game
      /\ ~SameLease(game, game')
    BY DEF SameLease
<1>3. \A r \in Requests : /\ Issuer[r] \in Peers /\ join[r].gen \in Nat
                          /\ join[r].master \in BOOLEAN
    BY <1>1, GameServerAssumption DEF TypeOK, JoinState
<1>4. ASSUME NEW r \in Requests, Running(r), NEW G,
             game' = IF join[r].master THEN AbortCreation(game, Issuer[r], join[r].gen) ELSE G
      PROVE  Goal
    <2>1. join[r].master
        BY <1>3, <1>4, JoinerRoom
    <2> QED
        BY <1>3, <1>4, <2>1, AbortStep
<1>5. ASSUME NEW r \in Requests, NEW h, NEW o, EnterJoin(r, h, o)
      PROVE  FALSE
    BY <1>2, <1>5 DEF EnterJoin, RefuseJoin, ParkJoin, StartAsMaster, StartAsJoiner,
                      MayBeginCreation
<1>6. ASSUME NEW p \in Peers, HandleSlowUpdate(p)
      PROVE  FALSE
    <2>1. CASE ReplayPending(p)
        BY <2>1 DEF ReplayPending
    <2>2. CASE ExpirePending(p)
        BY <1>2, <2>2 DEF ExpirePending
    <2> QED
        BY <1>6, <2>1, <2>2 DEF HandleSlowUpdate
<1>7. ASSUME NEW p \in Peers, Disconnect(p)
      PROVE  Goal
    <2> DEFINE h == handler[p]
               g1 == IF h.attached /\ h.lease # 0 THEN AbortCreation(game, p, h.lease)
                     ELSE game
    <2>1. h.lease \in Nat
        BY <1>1 DEF TypeOK, HandlerState
    <2>2. \/ game' = g1
          \/ IsMember(g1, p) /\ game' = RemovePeer(g1, p)
        BY <1>7 DEF Disconnect
    <2>3. h.attached /\ h.lease # 0
        <3> SUFFICES ASSUME g1 = game PROVE FALSE
            BY DEF g1
        <3> HIDE DEF g1
        <3> QED
            BY <1>1, <1>2, <2>2, RemovePeerKeeps
    <2>4. IsCreationActive(game, p, h.lease)
        BY <1>1, <2>3 DEF Control, HandlerInv
    <2> DEFINE g == AbortCreation(game, p, h.lease)
    <2>5. g.peers = {}
        BY <1>1, <2>1, <2>4, AbortCreationRestores, Zenon
    <2>6. ~IsMember(g, p)
        BY <2>5 DEF IsMember, NodesOf
    <2>7. game' = g
        <3>1. g1 = g
            BY <2>3
        <3> HIDE DEF g, g1
        <3> QED
            BY <2>2, <2>6, <3>1
    <2> HIDE DEF g1, h
    <2> QED
        BY <2>1, <2>7, AbortStep
<1>8. ASSUME NEW p \in Peers,
             \/ PendingOverdue(p) \/ LeaveRequest(p)
             \/ \E ok \in BOOLEAN : ResumeLeave(p, ok)
             \/ FinishDisconnect(p)
      PROVE  FALSE
    BY <1>1, <1>2, <1>8, RemovePeerKeeps
       DEF PendingOverdue, LeaveRequest, ResumeLeave, FinishDisconnect
<1>9. ASSUME NEW r \in Requests, NEW close \in BOOLEAN, Running(r), Rollback(r, close)
      PROVE  Goal
    BY <1>4, <1>9 DEF Rollback, RollbackGame
<1>10. ASSUME NEW r \in Requests, BeforeAdmitted(r)
       PROVE  FALSE
    <2> DEFINE p == Issuer[r]
               g2 == WithInvited(WithSettings(game, r), r)
    <2>1. Running(r) /\ LeaseHeld(r) /\ Admissible(WithSettings(game, r), r)
        BY <1>10 DEF BeforeAdmitted, Running
    <2>2. /\ g2 \in GameState /\ SameLease(game, g2)
          /\ FreeActors(g2) # {} /\ MayAdd(g2, p)
          /\ ~g2.created => g2.creating /\ g2.owner = p
        BY <2>1, AdmittedRoom, Zenon
    <2>3. game' = AddNode(g2, p)
        BY <1>10 DEF BeforeAdmitted
    <2> HIDE DEF g2
    <2>4. SameLease(g2, AddNode(g2, p))
        BY <1>3, <2>2, AddNodeKeeps
    <2> QED
        BY <1>2, <2>2, <2>3, <2>4 DEF SameLease
<1>11. ASSUME NEW r \in Requests, JoinedVanished(r) \/ JoinedRefused(r)
       PROVE  Goal
    BY <1>4, <1>11 DEF JoinedVanished, JoinedRefused, Running
<1>12. ASSUME NEW r \in Requests, JoinedCompleted(r)
       PROVE  FALSE
    <2>1. join[r].master
        BY <1>2, <1>12 DEF JoinedCompleted
    <2> DEFINE open == join[r].offer.open
               g == CommitCreation([game EXCEPT !.config.open = open])
    <2>2. game' = g
        BY <1>12, <2>1 DEF JoinedCompleted
    <2>3. open \in BOOLEAN
        BY <1>1 DEF TypeOK, JoinState, Offer
    <2> HIDE DEF open
    <2>4. g.created = TRUE
        BY <1>1, <2>3, CommitCreationKeeps, Zenon
    <2> QED
        BY <2>2, <2>4
<1>13. ASSUME NEW u \in Users, NEW o \in Offers, MasterReserve(u, o.invited)
       PROVE  FALSE
    <2>1. {u} \cup o.invited \in SUBSET Users
        BY GameServerAssumption DEF Offer
    <2> QED
        BY <1>1, <1>2, <1>13, <2>1, ReserveKeeps DEF MasterReserve
<1>14. ASSUME NEW task \in game.expiries, ExpireReservation(task)
       PROVE  FALSE
    BY <1>1, <1>2, <1>14, RunExpiryKeeps DEF ExpireReservation
<1>15. ASSUME NEW r \in Requests,
              (\E o \in Offers : JoinRequest(r, o)) \/ ResumeBefore(r) \/ ResumeJoined(r)
       PROVE  Goal
    <2>1. ASSUME NEW ok \in BOOLEAN, BeforeAborted(r, ok)
          PROVE  Goal
        BY <1>9, <2>1 DEF BeforeAborted, Running
    <2>2. ASSUME BeforeRejected(r)
          PROVE  Goal
        BY <1>9, <2>2 DEF BeforeRejected, Running
    <2>3. ASSUME JoinedGone(r)
          PROVE  Goal
        BY <1>9, <2>3 DEF JoinedGone, Running
    <2>4. ASSUME NEW o \in Offers, JoinRequest(r, o)
          PROVE  Goal
        BY <1>5, <2>4 DEF JoinRequest
    <2> QED
        BY <1>10, <1>11, <1>12, <1>15, <2>1, <2>2, <2>3, <2>4 DEF ResumeBefore, ResumeJoined
<1> HIDE DEF Goal
<1>16. Goal
    BY <1>6, <1>7, <1>8, <1>13, <1>14, <1>15 DEF Next
<1> QED
    BY <1>16 DEF Goal

\* abort_creation_transaction() undoes the whole transaction, from wherever it is
\* called and whatever reservations were made, used or expired meanwhile.
THEOREM AbortIsClean == Spec => AbortRestoresRoom
<1>1. IInv /\ [Next]_vars =>
         [CreationAborted =>
             /\ game'.peers = {}
             /\ game'.config = game.initial
             /\ ExpectedUsers(game') = InitialUsers(game)]_vars
    BY AbortRestores DEF CreationAborted
<1> QED
    BY Invariance, <1>1, PTL DEF Spec, AbortRestoresRoom

-----------------------------------------------------------------------------
(* Seats: what a step does with members and reservations. *)

\* What a step may do with the room.
LEMMA RoomSteps ==
    ASSUME IInv, [Next]_vars
    PROVE  \/ game'.peers = game.peers /\ game'.expected = game.expected
           \/ \E users \in SUBSET Users : game' = Reserve(game, users)
           \/ \E task \in game.expiries : game' = RunExpiry(game, task)
           \/ \E p \in Peers : \E gen \in Nat : game' = AbortCreation(game, p, gen)
           \/ \E r \in Requests : \E g \in {game, RemovePeer(game, Issuer[r])} :
                 /\ join'[r].pc = "done"
                 /\ game' = RemoveIfGeneration(g, join[r].added)
           \/ \E p \in Peers : game' = RemovePeer(game, p)
           \/ \E r \in Requests : BeforeAdmitted(r)
<1> DEFINE Same == game'.peers = game.peers /\ game'.expected = game.expected
           Reserves == \E users \in SUBSET Users : game' = Reserve(game, users)
           Expires == \E task \in game.expiries : game' = RunExpiry(game, task)
           Aborts == \E p \in Peers : \E gen \in Nat : game' = AbortCreation(game, p, gen)
           GivesUp == \E r \in Requests : \E g \in {game, RemovePeer(game, Issuer[r])} :
                         /\ join'[r].pc = "done"
                         /\ game' = RemoveIfGeneration(g, join[r].added)
           Removes == \E p \in Peers : game' = RemovePeer(game, p)
           Admits == \E r \in Requests : BeforeAdmitted(r)
           Goal == Same \/ Reserves \/ Expires \/ Aborts \/ GivesUp \/ Removes \/ Admits
<1>1. Control /\ RoomInv(game) /\ TypeOK /\ game \in GameState
    BY IInvSplit DEF Control, TypeOK
<1>2. \A r \in Requests : /\ Issuer[r] \in Peers /\ join[r].gen \in Nat
                          /\ join[r].master \in BOOLEAN
    BY <1>1, GameServerAssumption DEF TypeOK, JoinState
<1>3. ASSUME game' = game PROVE Same
    BY <1>3
<1>4. ASSUME NEW r \in Requests, NEW g \in {game, RemovePeer(game, Issuer[r])},
             game' = IF join[r].master THEN AbortCreation(game, Issuer[r], join[r].gen)
                     ELSE RemoveIfGeneration(g, join[r].added),
             join' = [join EXCEPT ![r] = Ended]
      PROVE  Aborts \/ GivesUp
    <2>1. CASE join[r].master
        BY <1>2, <1>4, <2>1
    <2>2. CASE ~join[r].master
        <3>1. join'[r].pc = "done"
            BY <1>1, <1>4, JoinTypes DEF TypeOK
        <3> QED
            BY <1>4, <2>2, <3>1
    <2> QED
        BY <1>2, <2>1, <2>2
<1>5. ASSUME NEW r \in Requests, NEW close, Rollback(r, close) PROVE Aborts \/ GivesUp
    <2> DEFINE g == IF handler[Issuer[r]].seat # 0 THEN RemovePeer(game, Issuer[r]) ELSE game
    <2>1. g \in {game, RemovePeer(game, Issuer[r])}
        OBVIOUS
    <2>2. game' = IF join[r].master THEN AbortCreation(game, Issuer[r], join[r].gen)
                  ELSE RemoveIfGeneration(g, join[r].added)
        BY <1>5 DEF Rollback, RollbackGame
    <2> HIDE DEF g
    <2>3. join' = [join EXCEPT ![r] = Ended]
        BY <1>5 DEF Rollback
    <2> QED
        BY <1>4, <2>1, <2>2, <2>3
<1>6. ASSUME NEW r \in Requests, NEW h, NEW o, EnterJoin(r, h, o) PROVE Same
    <2>1. CASE StartAsMaster(r, h, o)
        <3>1. game' = BeginCreation(game, Issuer[r])
            BY <2>1 DEF StartAsMaster
        <3> QED
            BY <1>1, <3>1 DEF BeginCreation, GameState
    <2>2. CASE game' = game
        BY <1>3, <2>2
    <2> QED
        BY <1>6, <2>1, <2>2 DEF EnterJoin, RefuseJoin, ParkJoin, StartAsJoiner
<1>7. ASSUME NEW p \in Peers, HandleSlowUpdate(p) PROVE Same
    <2>1. CASE ReplayPending(p)
        <3>1. handler[p].pending \in Requests
            BY <1>1, <2>1 DEF ReplayPending, TypeOK, HandlerState
        <3> QED
            BY <1>6, <2>1, <3>1 DEF ReplayPending
    <2>2. CASE ExpirePending(p)
        BY <1>3, <2>2 DEF ExpirePending
    <2> QED
        BY <1>7, <2>1, <2>2 DEF HandleSlowUpdate
<1>8. ASSUME NEW p \in Peers, Disconnect(p) PROVE Same \/ Aborts \/ Removes
    <2> DEFINE h == handler[p]
               g1 == IF h.attached /\ h.lease # 0 THEN AbortCreation(game, p, h.lease)
                     ELSE game
    <2>1. h.lease \in Nat
        BY <1>1 DEF TypeOK, HandlerState
    <2>2. \/ game' = g1
          \/ IsMember(g1, p) /\ game' = RemovePeer(g1, p)
        BY <1>8 DEF Disconnect
    <2>3. CASE ~(h.attached /\ h.lease # 0)
        BY <1>3, <2>2, <2>3
    <2>4. CASE h.attached /\ h.lease # 0
        <3>1. IsCreationActive(game, p, h.lease)
            BY <1>1, <2>4 DEF Control, HandlerInv
        <3> DEFINE g == AbortCreation(game, p, h.lease)
        <3>2. g.peers = {}
            BY <1>1, <2>1, <3>1, AbortCreationRestores, Zenon
        <3>3. ~IsMember(g, p)
            BY <3>2 DEF IsMember, NodesOf
        <3>4. g1 = g
            BY <2>4
        <3> HIDE DEF g1
        <3>5. game' = g
            BY <2>2, <3>3, <3>4
        <3> QED
            BY <2>1, <3>5
    <2> QED
        BY <2>3, <2>4
<1>9. ASSUME NEW r \in Requests, JoinedCompleted(r) PROVE Same
    <2>1. CASE game' = game
        BY <1>3, <2>1
    <2>2. CASE game' = CommitCreation([game EXCEPT !.config.open = join[r].offer.open])
        BY <1>1, <2>2 DEF CommitCreation, GameState
    <2> QED
        BY <1>9, <2>1, <2>2 DEF JoinedCompleted
<1>10. ASSUME NEW r \in Requests, JoinedVanished(r) \/ JoinedRefused(r)
       PROVE  Aborts \/ GivesUp
    <2>1. PICK g \in {game, RemovePeer(game, Issuer[r])} :
             game' = IF join[r].master THEN AbortCreation(game, Issuer[r], join[r].gen)
                     ELSE RemoveIfGeneration(g, join[r].added)
        BY <1>10 DEF JoinedVanished, JoinedRefused
    <2>2. join' = [join EXCEPT ![r] = Ended]
        BY <1>10 DEF JoinedVanished, JoinedRefused
    <2> QED
        BY <1>4, <2>1, <2>2
<1>11. ASSUME NEW p \in Peers,
              \/ PendingOverdue(p) \/ LeaveRequest(p)
              \/ \E ok \in BOOLEAN : ResumeLeave(p, ok)
              \/ FinishDisconnect(p)
       PROVE  Same \/ Removes
    <2>1. game' = game \/ game' = RemovePeer(game, p)
        BY <1>11 DEF PendingOverdue, LeaveRequest, ResumeLeave, FinishDisconnect
    <2> QED
        BY <1>3, <2>1
<1>12. ASSUME NEW u \in Users, NEW o \in Offers, MasterReserve(u, o.invited)
       PROVE  Reserves
    <2>1. {u} \cup o.invited \in SUBSET Users
        BY GameServerAssumption DEF Offer
    <2> QED
        BY <1>12, <2>1 DEF MasterReserve
<1>13. ASSUME NEW task \in game.expiries, ExpireReservation(task) PROVE Expires
    BY <1>13 DEF ExpireReservation
<1>14. ASSUME NEW r \in Requests,
              (\E o \in Offers : JoinRequest(r, o)) \/ ResumeBefore(r) \/ ResumeJoined(r)
       PROVE  Same \/ Aborts \/ GivesUp \/ Admits
    <2>1. ASSUME NEW ok \in BOOLEAN, BeforeAborted(r, ok) PROVE Aborts \/ GivesUp
        BY <1>5, <2>1 DEF BeforeAborted
    <2>2. ASSUME BeforeRejected(r) PROVE Aborts \/ GivesUp
        BY <1>5, <2>2 DEF BeforeRejected
    <2>3. ASSUME JoinedGone(r) PROVE Aborts \/ GivesUp
        BY <1>5, <2>3 DEF JoinedGone
    <2>4. ASSUME NEW o \in Offers, JoinRequest(r, o) PROVE Same
        BY <1>6, <2>4 DEF JoinRequest
    <2>5. ASSUME BeforeAdmitted(r) PROVE Admits
        BY <2>5
    <2> HIDE DEF Same, Aborts, GivesUp, Admits
    <2> QED
        BY <1>9, <1>10, <1>14, <2>1, <2>2, <2>3, <2>4, <2>5 DEF ResumeBefore, ResumeJoined
<1>15. ASSUME UNCHANGED vars PROVE Same
    BY <1>3, <1>15 DEF vars
<1> HIDE DEF Same, Reserves, Expires, Aborts, GivesUp, Removes, Admits
<1>16. ASSUME NEW p \in Peers,
              \/ PendingOverdue(p) \/ HandleSlowUpdate(p) \/ LeaveRequest(p)
              \/ \E ok \in BOOLEAN : ResumeLeave(p, ok)
              \/ Disconnect(p) \/ FinishDisconnect(p)
       PROVE  Goal
    BY <1>7, <1>8, <1>11, <1>16
<1>17. Goal
    BY <1>12, <1>13, <1>14, <1>15, <1>16 DEF Next
<1> QED
    BY <1>17 DEF Same, Reserves, Expires, Aborts, GivesUp, Removes, Admits

\* The members and the reservations after an admission, against the room that
\* was validated.
LEMMA AdmittedSeats ==
    ASSUME IInv, NEW r \in Requests, BeforeAdmitted(r)
    PROVE  LET p == Issuer[r]
               g1 == WithSettings(game, r)
               invited == IF IsMember(g1, p) THEN {} ELSE join[r].offer.invited \ {UserOf[p]}
           IN  /\ g1 \in GameState /\ g1.peers = game.peers /\ g1.expected = game.expected
               /\ ValidateJoin(g1, UserOf[p], join[r].offer.invited, join[r].master)
               /\ invited \in SUBSET Users
               /\ \E n \in Node : /\ game'.peers = game.peers \cup {n}
                                  /\ n \notin game.peers /\ n.peer = p
               /\ ExpectedUsers(game') = (ExpectedUsers(g1) \cup invited) \ {UserOf[p]}
               /\ \A u \in Users : game.expected[u] # 0 /\ u # UserOf[p] =>
                     game'.expected[u] = game.expected[u]
               /\ game'.config.max = g1.config.max
<1> DEFINE p == Issuer[r]
           g1 == WithSettings(game, r)
           g2 == WithInvited(g1, r)
           invited == IF IsMember(g1, p) THEN {} ELSE join[r].offer.invited \ {UserOf[p]}
<1>1. TypeOK /\ game \in GameState
    BY IInvSplit DEF Control, TypeOK
<1>2. p \in Peers /\ UserOf[p] \in Users
    BY GameServerAssumption, GameAssumption
<1>3. /\ Running(r) /\ LeaseHeld(r) /\ Admissible(g1, r) /\ game' = AddNode(g2, p)
    BY DEF BeforeAdmitted, Running
<1>4. /\ g1 \in GameState
      /\ g2 \in GameState /\ g2.peers = game.peers /\ FreeActors(g2) # {}
    BY <1>3, AdmittedRoom, Zenon
<1>5. g1.peers = game.peers /\ g1.expected = game.expected
    BY <1>1 DEF WithSettings, Configure, GameState
<1>6. ValidateJoin(g1, UserOf[p], join[r].offer.invited, join[r].master)
    BY <1>3 DEF Admissible
<1>7. join[r].offer.invited \in SUBSET Users
    BY <1>1 DEF TypeOK, JoinState, Offer
<1>8. invited \in SUBSET Users
    BY <1>7
<1>9. g2 = IF IsMember(g1, p) THEN g1 ELSE Reserve(g1, join[r].offer.invited \ {UserOf[p]})
    BY DEF WithInvited
<1>10. join[r].offer.invited \ {UserOf[p]} \in SUBSET Users
    BY <1>7
<1>11. /\ ExpectedUsers(g2) = ExpectedUsers(g1) \cup invited
       /\ g2.config = g1.config
       /\ \A u \in Users : g1.expected[u] # 0 => g2.expected[u] = g1.expected[u]
    <2> HIDE DEF g1, g2
    <2> QED
        BY <1>4, <1>9, <1>10, ReserveKeeps, ReserveSeats
<1> HIDE DEF g1, g2, invited, p
<1>12. /\ \E n \in Node : /\ game'.peers = game.peers \cup {n}
                          /\ n \notin game.peers /\ n.peer = p
       /\ \A u \in Users : game'.expected[u] = IF u = UserOf[p] THEN 0 ELSE g2.expected[u]
       /\ game'.config.max = g1.config.max
    BY <1>2, <1>3, <1>4, <1>11, AddNodeSeats
<1>13. ExpectedUsers(game') = (ExpectedUsers(g1) \cup invited) \ {UserOf[p]}
    BY <1>11, <1>12 DEF ExpectedUsers
<1>14. \A u \in Users : game.expected[u] # 0 /\ u # UserOf[p] =>
           game'.expected[u] = game.expected[u]
    BY <1>5, <1>11, <1>12
<1> QED
    BY <1>4, <1>5, <1>6, <1>8, <1>12, <1>13, <1>14 DEF g1, invited, p

\* Why a step ends a reservation.
LEMMA ReservationEnds ==
    ASSUME IInv, [Next]_vars, NEW u \in Users,
           game.expected[u] # 0, game'.expected[u] # game.expected[u]
    PROVE  \/ \E n \in game'.peers \ game.peers : UserOf[n.peer] = u
           \/ <<u, game.expected[u]>> \in game.expiries \ game'.expiries
           \/ \E r \in Requests : join[r].added[u] = game.expected[u] /\ join'[r].pc = "done"
           \/ CreationAborted /\ game.expected[u] # game.initialExpected[u]
<1>1. TypeOK /\ RoomInv(game) /\ game \in GameState
    BY IInvSplit DEF Control, TypeOK
<1>2. ASSUME NEW users \in SUBSET Users, game' = Reserve(game, users) PROVE FALSE
    BY <1>1, <1>2, ReserveSeats
<1>3. ASSUME NEW task \in game.expiries, game' = RunExpiry(game, task)
      PROVE  <<u, game.expected[u]>> \in game.expiries \ game'.expiries
    <2>1. game'.expiries = game.expiries \ {task} /\ task = <<u, game.expected[u]>>
        BY <1>1, <1>3, RunExpirySeats
    <2> QED
        BY <2>1
<1>4. ASSUME NEW p \in Peers, NEW gen \in Nat, game' = AbortCreation(game, p, gen)
      PROVE  CreationAborted /\ game.expected[u] # game.initialExpected[u]
    <2>1. IsCreationActive(game, p, gen) /\ game.ownReserved[u] = game.expected[u]
        BY <1>1, <1>4, AbortSeats
    <2> DEFINE h == AbortCreation(game, p, gen)
    <2>2. h.created = FALSE /\ h.creating = FALSE
        BY <1>1, <2>1, AbortCreationRestores, Zenon
    <2>3. game.expected[u] # game.initialExpected[u]
        BY <1>1, <2>1 DEF RoomInv, Drawn
    <2> QED
        BY <1>4, <2>1, <2>2, <2>3 DEF IsCreationActive, CreationAborted
<1>5. ASSUME NEW r \in Requests, NEW g \in {game, RemovePeer(game, Issuer[r])},
             join'[r].pc = "done", game' = RemoveIfGeneration(g, join[r].added)
      PROVE  join[r].added[u] = game.expected[u] /\ join'[r].pc = "done"
    <2>1. Issuer[r] \in Peers /\ join[r].added \in [Users -> Nat]
        BY <1>1, GameServerAssumption DEF TypeOK, JoinState
    <2>2. g \in GameState /\ g.expected = game.expected
        BY <1>1, <2>1, RemovePeerKeeps, RemovePeerSeats
    <2> QED
        BY <1>5, <2>1, <2>2, RemoveIfGenerationKeeps
<1>6. ASSUME NEW p \in Peers, game' = RemovePeer(game, p) PROVE FALSE
    BY <1>1, <1>6, RemovePeerSeats
<1>7. ASSUME NEW r \in Requests, BeforeAdmitted(r)
      PROVE  \E n \in game'.peers \ game.peers : UserOf[n.peer] = u
    <2> DEFINE p == Issuer[r]
    <2>1. /\ \E n \in Node : /\ game'.peers = game.peers \cup {n}
                             /\ n \notin game.peers /\ n.peer = p
          /\ \A v \in Users : game.expected[v] # 0 /\ v # UserOf[p] =>
                game'.expected[v] = game.expected[v]
        BY <1>7, AdmittedSeats, Zenon
    <2>2. u = UserOf[p]
        BY <2>1
    <2> HIDE DEF p
    <2> QED
        BY <2>1, <2>2
<1> QED
    BY <1>2, <1>3, <1>4, <1>5, <1>6, <1>7, RoomSteps

\* A step that admits a member fits it into the limits of the room.
LEMMA AdmissionFits ==
    ASSUME IInv, NEW r \in Requests, BeforeAdmitted(r)
    PROVE  LET seats == Cardinality(game'.peers) + Cardinality(ExpectedUsers(game'))
           IN  /\ game'.config.max > 0 => seats <= game'.config.max
               /\ AppCap > 0 => seats <= AppCap
               /\ seats <= MaxActor
<1> DEFINE p == Issuer[r]
           user == UserOf[p]
           g1 == WithSettings(game, r)
           asked == join[r].offer.invited
           invited == IF IsMember(g1, p) THEN {} ELSE asked \ {user}
           E == ExpectedUsers(g1)
           new == {u \in asked : u # user /\ u \notin E}
           needed == (IF user \in E THEN 0 ELSE 1) + Cardinality(new)
           final == Cardinality(g1.peers) + Cardinality(E) + needed
           seats == Cardinality(game'.peers) + Cardinality(ExpectedUsers(game'))
<1>1. TypeOK /\ RoomInv(game) /\ game \in GameState
    BY IInvSplit DEF Control, TypeOK
<1>2. /\ g1 \in GameState /\ g1.peers = game.peers
      /\ ValidateJoin(g1, user, asked, join[r].master)
      /\ invited \in SUBSET Users
      /\ \E n \in Node : game'.peers = game.peers \cup {n} /\ n \notin game.peers
      /\ ExpectedUsers(game') = (E \cup invited) \ {user}
      /\ game'.config.max = g1.config.max
    BY AdmittedSeats, Zenon
<1>3. /\ g1.config.max > 0 => final <= g1.config.max
      /\ AppCap > 0 => final <= AppCap
      /\ final <= MaxActor
    BY <1>2 DEF ValidateJoin
<1>4. asked \in SUBSET Users /\ E \in SUBSET Users
    BY <1>1 DEF TypeOK, JoinState, Offer, ExpectedUsers
<1>5. IsFiniteSet(Users) /\ IsFiniteSet(game.peers)
    BY <1>1, GameAssumption, MembersCounted DEF RoomInv
<1> HIDE DEF E, g1, asked
<1>6. IsFiniteSet(E) /\ IsFiniteSet(new) /\ new \in SUBSET Users
    BY <1>4, <1>5, FS_Subset
<1>7. Cardinality(game'.peers) = Cardinality(game.peers) + 1
      /\ Cardinality(game.peers) \in Nat
    <2>1. PICK n : game'.peers = game.peers \cup {n} /\ n \notin game.peers
        BY <1>2
    <2> QED
        BY <1>5, <2>1, FS_AddElement, FS_CardinalityType
<1>8. /\ Cardinality(E) \in Nat /\ Cardinality(new) \in Nat
      /\ IsFiniteSet(E \cup new)
      /\ Cardinality(E \cup new) = Cardinality(E) + Cardinality(new)
    <2>1. E \cap new = {}
        OBVIOUS
    <2> HIDE DEF new
    <2>2. Cardinality(E) \in Nat /\ Cardinality(new) \in Nat
        BY <1>6, FS_CardinalityType
    <2>3. /\ IsFiniteSet(E \cup new)
          /\ Cardinality(E \cup new) =
                Cardinality(E) + Cardinality(new) - Cardinality(E \cap new)
        BY <1>6, FS_Union, Zenon
    <2>4. Cardinality(E \cap new) = 0
        BY <2>1, FS_EmptySet, Zenon
    <2> QED
        BY <2>2, <2>3, <2>4
<1>9. /\ IsFiniteSet((E \cup new) \ {user})
      /\ Cardinality((E \cup new) \ {user}) =
            IF user \in E THEN Cardinality(E) + Cardinality(new) - 1
            ELSE Cardinality(E) + Cardinality(new)
    <2>1. user \in E \cup new <=> user \in E
        OBVIOUS
    <2> HIDE DEF new
    <2>2. /\ IsFiniteSet((E \cup new) \ {user})
          /\ Cardinality((E \cup new) \ {user}) =
                IF user \in E \cup new THEN Cardinality(E \cup new) - 1
                ELSE Cardinality(E \cup new)
        BY <1>8, FS_RemoveElement, Zenon
    <2> QED
        BY <1>8, <2>1, <2>2
<1>10. ExpectedUsers(game') \in SUBSET ((E \cup new) \ {user})
    BY <1>2
<1>11. /\ Cardinality(ExpectedUsers(game')) \in Nat
       /\ Cardinality(ExpectedUsers(game')) <= Cardinality((E \cup new) \ {user})
    BY <1>9, <1>10, FS_Subset, FS_CardinalityType
<1> HIDE DEF new, user
<1>12. seats \in Nat /\ final \in Nat /\ seats <= final
    BY <1>2, <1>7, <1>8, <1>9, <1>11
<1>13. g1.config.max \in Nat /\ AppCap \in Nat /\ MaxActor \in Nat
    BY <1>2, GameAssumption DEF GameState, Config
<1> HIDE DEF final, seats
<1>14. /\ game'.config.max > 0 => seats <= game'.config.max
       /\ AppCap > 0 => seats <= AppCap
       /\ seats <= MaxActor
    BY <1>2, <1>3, <1>12, <1>13
<1> QED
    BY <1>14 DEF seats

\* No other step adds a member.
LEMMA MembersGrow ==
    ASSUME IInv, [Next]_vars, Cardinality(game'.peers) > Cardinality(game.peers)
    PROVE  \E r \in Requests : BeforeAdmitted(r)
<1>1. TypeOK /\ RoomInv(game) /\ game \in GameState
    BY IInvSplit DEF Control, TypeOK
<1>2. game' \in GameState /\ RoomInv(game')
    BY NextInv, IInvSplit DEF Control, TypeOK
<1>3. /\ Distinct(game) /\ Distinct(game') /\ IsFiniteSet(game.peers)
      /\ IsFiniteSet(game'.peers)
    BY <1>1, <1>2, MembersCounted DEF RoomInv
<1>4. Cardinality(game'.peers) \in Nat /\ Cardinality(game.peers) \in Nat
    BY <1>3, FS_CardinalityType
<1>5. ASSUME \A k \in game'.peers : \E n \in game.peers : n.actor = k.actor
      PROVE  FALSE
    <2>1. Cardinality(game'.peers) <= Cardinality(game.peers)
        BY <1>1, <1>2, <1>3, <1>5, MembersCounted
    <2> QED
        BY <1>4, <2>1
<1>6. ASSUME NEW users \in SUBSET Users, game' = Reserve(game, users) PROVE FALSE
    BY <1>1, <1>5, <1>6, ReserveKeeps
<1>7. ASSUME NEW task \in game.expiries, game' = RunExpiry(game, task) PROVE FALSE
    BY <1>1, <1>5, <1>7, RunExpiryKeeps
<1>8. ASSUME NEW p \in Peers, NEW gen \in Nat, game' = AbortCreation(game, p, gen)
      PROVE  FALSE
    <2> DEFINE h == AbortCreation(game, p, gen)
    <2>1. CASE ~IsCreationActive(game, p, gen)
        BY <1>5, <1>8, <2>1 DEF AbortCreation
    <2>2. CASE IsCreationActive(game, p, gen)
        <3>1. h.peers = {}
            BY <1>1, <2>2, AbortCreationRestores, Zenon
        <3> QED
            BY <1>5, <1>8, <3>1
    <2> QED
        BY <2>1, <2>2
<1>9. ASSUME NEW r \in Requests, NEW g \in {game, RemovePeer(game, Issuer[r])},
             game' = RemoveIfGeneration(g, join[r].added)
      PROVE  FALSE
    <2>1. Issuer[r] \in Peers /\ join[r].added \in [Users -> Nat]
        BY <1>1, GameServerAssumption DEF TypeOK, JoinState
    <2>2. g \in GameState /\ \A k \in g.peers : \E n \in game.peers : n.actor = k.actor
        BY <1>1, <2>1, RemovePeerKeeps, RemovePeerSeats
    <2>3. game'.peers = g.peers
        BY <1>9, <2>1, <2>2, RemoveIfGenerationKeeps
    <2> QED
        BY <1>5, <2>2, <2>3
<1>10. ASSUME NEW p \in Peers, game' = RemovePeer(game, p) PROVE FALSE
    BY <1>1, <1>5, <1>10, RemovePeerSeats
<1>11. game'.peers # game.peers
    BY <1>5
<1> QED
    BY <1>6, <1>7, <1>8, <1>9, <1>10, <1>11, RoomSteps

\* However often a user was expected before, whatever requests were rolled back
\* and whichever tasks are still scheduled, a reservation is ended only by its
\* user's arrival, by its own task, by the rollback of the request that made it,
\* or by the abort of a creation during which it was made, by whomever.
THEOREM ReservationsAreKept == Spec => ReservationKept
<1>1. IInv /\ [Next]_vars =>
         [\A u \in Users :
             LET g == game.expected[u] IN
             g # 0 /\ game'.expected[u] # g =>
                \/ \E n \in game'.peers \ game.peers : UserOf[n.peer] = u
                \/ <<u, g>> \in game.expiries \ game'.expiries
                \/ \E r \in Requests : join[r].added[u] = g /\ join'[r].pc = "done"
                \/ CreationAborted /\ g # game.initialExpected[u]]_vars
    BY ReservationEnds
<1> QED
    BY Invariance, <1>1, PTL DEF Spec, ReservationKept

\* The seats that a joiner was promised before the plugin's callback are counted
\* again after it: an admission never takes members and reservations beyond the
\* limits of the room, of the application or of the actor numbers.
THEOREM AdmissionsFit == Spec => AdmissionWithinCapacity
<1>1. IInv /\ [Next]_vars =>
         [Cardinality(game'.peers) > Cardinality(game.peers) =>
             LET seats == Cardinality(game'.peers) + Cardinality(ExpectedUsers(game'))
             IN  /\ game'.config.max > 0 => seats <= game'.config.max
                 /\ AppCap > 0 => seats <= AppCap
                 /\ seats <= MaxActor]_vars
    BY MembersGrow, AdmissionFits
<1> QED
    BY Invariance, <1>1, PTL DEF Spec, AdmissionWithinCapacity

-----------------------------------------------------------------------------
(* Announced members, when every connection sends one join request at most. *)
(* Each action concerns one connection: the others keep what they had.      *)

\* The node that actor_id_for_peer() finds is one of the peer's.
LEMMA ActorOfNode ==
    ASSUME NEW g \in GameState, NEW p \in Peers, IsMember(g, p)
    PROVE  \E n \in NodesOf(g, p) : n.actor = ActorOf(g, p)
<1>1. NodesOf(g, p) \in SUBSET Node /\ NodesOf(g, p) # {}
    BY DEF NodesOf, IsMember, GameState
<1>2. FirstNode(g, p) \in NodesOf(g, p)
    BY <1>1, FrontIn DEF FirstNode
<1> QED
    BY <1>2 DEF ActorOf

\* The connections that a step does not concern stay as they are.
LEMMA OthersPresent ==
    ASSUME PresenceInv, NEW p \in Peers,
           \A k \in game'.peers : k.peer # p =>
               \E n \in game.peers : n.peer = k.peer /\ n.actor = k.actor,
           \A n \in game.peers : n.peer # p =>
               \E k \in game'.peers : k.peer = n.peer /\ k.actor = n.actor,
           \A e \in announced' : e[2] # p => e \in announced,
           \A q \in Peers : q # p => drop'[q] = drop[q],
           \A r \in Requests : Issuer[r] # p => join'[r].pc = join[r].pc,
           PresentAt(p)'
    PROVE  PresenceInv'
<1> SUFFICES ASSUME NEW q \in Peers, q # p
             PROVE  PresentAt(q)'
    BY DEF PresenceInv
<1>1. PresentAt(q)
    BY DEF PresenceInv
<1>2. \A k \in NodesOf(game', q) : \E n \in NodesOf(game, q) : n.actor = k.actor
    BY DEF NodesOf
<1>3. \A n \in NodesOf(game, q) : \E k \in NodesOf(game', q) : k.actor = n.actor
    BY DEF NodesOf
<1>4. \A r \in Requests : Issuer[r] = q => join'[r].pc = join[r].pc
    OBVIOUS
<1>5. ASSUME NEW n \in NodesOf(game', q)
      PROVE  /\ \A r \in Requests : Issuer[r] = q => join'[r].pc \in {"joined", "done"}
             /\ \A m \in NodesOf(game', q) : m.actor = n.actor
    BY <1>1, <1>2, <1>4, <1>5 DEF PresentAt
<1>6. ASSUME NEW e \in announced', e[2] = q
      PROVE  /\ \E n \in NodesOf(game', q) : n.actor = e[1]
             /\ \A r \in Requests : Issuer[r] = q => join'[r].pc = "done"
             /\ drop'[q].pc = "leaving" => drop'[q].actor = e[1]
    <2>1. e \in announced /\ drop'[q] = drop[q]
        BY <1>6
    <2> QED
        BY <1>1, <1>3, <1>4, <1>6, <2>1 DEF PresentAt
<1> QED
    BY <1>5, <1>6 DEF PresentAt

\* A connection whose request has not been admitted has no member.
LEMMA NotYetPresent ==
    ASSUME PresenceInv, NEW r \in Requests, join[r].pc \notin {"joined", "done"}
    PROVE  /\ NodesOf(game, Issuer[r]) = {}
           /\ \A e \in announced : e[2] # Issuer[r]
<1>1. PresentAt(Issuer[r])
    BY GameServerAssumption DEF PresenceInv
<1> QED
    BY <1>1 DEF PresentAt

\* A connection whose request has not ended has not been announced.
LEMMA NotYetAnnounced ==
    ASSUME PresenceInv, NEW r \in Requests, join[r].pc # "done"
    PROVE  \A e \in announced : e[2] # Issuer[r]
<1>1. PresentAt(Issuer[r])
    BY GameServerAssumption DEF PresenceInv
<1> QED
    BY <1>1 DEF PresentAt

\* A connection without members and without announcement.
LEMMA AbsentPresent ==
    ASSUME NEW p, NodesOf(game', p) = {}, \A e \in announced' : e[2] # p
    PROVE  PresentAt(p)'
BY DEF PresentAt

\* Nobody has been announced in a room that is being created.
LEMMA CreationUnannounced ==
    ASSUME IInv, PresenceInv, game.creating
    PROVE  /\ \A n \in game.peers : n.peer = game.owner
           /\ \A e \in announced : e[2] # game.owner
<1>1. LeaseHasHolder /\ ~game.created /\ UncreatedRoomHasNoMembers
    BY DEF IInv, LeaseInv
<1>2. PICK r \in Requests : Issuer[r] = game.owner /\ RunsCreation(r)
    BY <1>1 DEF LeaseHasHolder
<1>3. join[r].pc # "done"
    BY <1>2 DEF RunsCreation
<1> QED
    BY <1>1, <1>2, <1>3, NotYetAnnounced DEF UncreatedRoomHasNoMembers

\* Steps that leave members, coroutines and announcements alone.
LEMMA SamePresence ==
    ASSUME PresenceInv, game'.peers = game.peers, UNCHANGED <<join, drop, announced>>
    PROVE  PresenceInv'
BY DEF PresenceInv, PresentAt, NodesOf

\* A request that arrives, is replayed or expires is not yet admitted.
LEMMA EnterPresence ==
    ASSUME IInv, PresenceInv, NEW r \in Requests, join[r].pc \notin {"joined", "done"},
           NEW j, join' = [join EXCEPT ![r] = j],
           game'.peers = game.peers, UNCHANGED <<drop, announced>>
    PROVE  PresenceInv'
<1>1. TypeOK /\ Issuer[r] \in Peers
    BY IInvSplit, GameServerAssumption DEF Control
<1>2. /\ NodesOf(game, Issuer[r]) = {}
      /\ \A e \in announced : e[2] # Issuer[r]
    BY NotYetPresent
<1>3. PresentAt(Issuer[r])'
    <2>1. PICK p \in Peers : p = Issuer[r]
        BY <1>1
    <2>2. NodesOf(game', p) = {} /\ \A e \in announced' : e[2] # p
        BY <1>2, <2>1 DEF NodesOf
    <2> QED
        BY <2>1, <2>2, AbsentPresent
<1>4. \A s \in Requests : Issuer[s] # Issuer[r] => join'[s].pc = join[s].pc
    BY <1>1 DEF TypeOK
<1> QED
    BY <1>1, <1>3, <1>4, OthersPresent

\* A coroutine that ends without completing its join takes its node with it, or
\* leaves it to the disconnect: nobody was told of it.
LEMMA EndPresence ==
    ASSUME IInv, PresenceInv, NEW r \in Requests, Running(r),
           NEW g \in {game, RemovePeer(game, Issuer[r])},
           game' = IF join[r].master THEN AbortCreation(game, Issuer[r], join[r].gen)
                   ELSE RemoveIfGeneration(g, join[r].added),
           join' = [join EXCEPT ![r] = Ended], UNCHANGED <<drop, announced>>
    PROVE  PresenceInv'
<1>1. PICK p \in Peers : p = Issuer[r]
    BY GameServerAssumption
<1>2. /\ TypeOK /\ game \in GameState /\ join[r].gen \in Nat
      /\ join[r].added \in [Users -> Nat] /\ join[r].master \in BOOLEAN
    BY IInvSplit DEF Control, TypeOK, JoinState
<1>3. \A e \in announced : e[2] # p
    BY <1>1, NotYetAnnounced DEF Running
<1>4. /\ \A k \in game'.peers : \E n \in game.peers : n.peer = k.peer /\ n.actor = k.actor
      /\ \A n \in game.peers : n.peer # p =>
            \E k \in game'.peers : k.peer = n.peer /\ k.actor = n.actor
    <2>1. CASE join[r].master /\ ~IsCreationActive(game, p, join[r].gen)
        BY <1>1, <2>1 DEF AbortCreation
    <2>2. CASE join[r].master /\ IsCreationActive(game, p, join[r].gen)
        <3> DEFINE h == AbortCreation(game, p, join[r].gen)
        <3>1. h.peers = {}
            BY <1>2, <2>2, AbortCreationRestores, Zenon
        <3>2. game' = h
            BY <1>1, <2>2
        <3>3. \A n \in game.peers : n.peer = p
            BY <2>2, CreationUnannounced DEF IsCreationActive
        <3> HIDE DEF h
        <3> QED
            BY <3>1, <3>2, <3>3
    <2>3. CASE ~join[r].master
        <3>1. /\ g \in GameState
              /\ \A k \in g.peers : \E n \in game.peers : n.peer = k.peer /\ n.actor = k.actor
              /\ \A n \in game.peers : n.peer # p =>
                    \E k \in g.peers : k.peer = n.peer /\ k.actor = n.actor
            BY <1>1, <1>2, RemovePeerKeeps, RemovePeerSeats
        <3>2. game'.peers = g.peers
            BY <1>2, <2>3, <3>1, RemoveIfGenerationKeeps
        <3> QED
            BY <3>1, <3>2
    <2> QED
        BY <1>2, <2>1, <2>2, <2>3
<1>5. /\ join'[r].pc = "done"
      /\ \A s \in Requests : s # r => join'[s] = join[s]
    BY <1>2, JoinTypes DEF TypeOK
<1>6. PresentAt(p)'
    <2>1. PresentAt(p)
        BY DEF PresenceInv
    <2>2. \A k \in NodesOf(game', p) : \E n \in NodesOf(game, p) : n.actor = k.actor
        BY <1>4 DEF NodesOf
    <2> QED
        BY <1>3, <1>5, <2>1, <2>2 DEF PresentAt
<1> QED
    BY <1>1, <1>4, <1>5, <1>6, OthersPresent

\* An admission: the connection had no member, and it is not announced yet.
LEMMA AdmittedPresence ==
    ASSUME IInv, PresenceInv, OneRequest, NEW r \in Requests, BeforeAdmitted(r)
    PROVE  PresenceInv'
<1>1. PICK p \in Peers : p = Issuer[r]
    BY GameServerAssumption
<1>2. TypeOK
    BY IInvSplit DEF Control
<1>3. join[r].pc = "before" /\ UNCHANGED <<drop, announced>>
    BY DEF BeforeAdmitted
<1>4. NodesOf(game, p) = {} /\ \A e \in announced : e[2] # p
    BY <1>1, <1>3, NotYetPresent
<1>5. PICK n \in Node : game'.peers = game.peers \cup {n} /\ n.peer = p
    BY <1>1, AdmittedSeats, Zenon
<1>6. /\ join'[r].pc = "joined"
      /\ \A s \in Requests : s # r => join'[s] = join[s]
    BY <1>2 DEF BeforeAdmitted, TypeOK, JoinState
<1>7. NodesOf(game', p) = {n}
    BY <1>4, <1>5 DEF NodesOf
<1>8. PresentAt(p)'
    <2>1. \A s \in Requests : Issuer[s] = p => s = r
        BY <1>1 DEF OneRequest
    <2> QED
        BY <1>3, <1>4, <1>6, <1>7, <2>1 DEF PresentAt
<1> QED
    BY <1>1, <1>3, <1>5, <1>6, <1>8, OthersPresent

\* The completion of a join announces the member that the request made.
LEMMA CompletedPresence ==
    ASSUME IInv, PresenceInv, OneRequest, NEW r \in Requests, JoinedCompleted(r)
    PROVE  PresenceInv'
<1>1. PICK p \in Peers : p = Issuer[r]
    BY GameServerAssumption
<1>2. TypeOK /\ game \in GameState /\ HandlerInv /\ CoroutineInv
    BY IInvSplit DEF Control, TypeOK
<1>3. /\ join[r].pc = "joined" /\ ~handler[p].gone /\ ActorOf(game, p) = join[r].actor
      /\ announced' = announced \cup {<<join[r].actor, p>>}
      /\ join' = [join EXCEPT ![r] = Ended] /\ drop' = drop
    BY <1>1 DEF JoinedCompleted
<1>4. game'.peers = game.peers
    <2>1. CASE game' = game
        BY <2>1
    <2>2. CASE game' = CommitCreation([game EXCEPT !.config.open = join[r].offer.open])
        BY <1>2, <2>2 DEF CommitCreation, GameState
    <2> QED
        BY <2>1, <2>2 DEF JoinedCompleted
<1>5. PICK n \in NodesOf(game, p) : n.actor = join[r].actor
    <2>1. ActorOf(game, p) # 0
        BY <1>2, <1>3 DEF CoroutineInv
    <2>2. IsMember(game, p)
        BY <2>1 DEF ActorOf
    <2> QED
        BY <1>2, <1>3, <2>2, ActorOfNode
<1>6. \A e \in announced : e[2] # p
    BY <1>1, <1>3, NotYetAnnounced
<1>7. drop[p].pc = "idle"
    BY <1>2, <1>3 DEF HandlerInv
<1>8. /\ join'[r].pc = "done"
      /\ \A s \in Requests : s # r => join'[s] = join[s]
    BY <1>2, <1>3, JoinTypes DEF TypeOK
<1>9. PresentAt(p)'
    <2>1. \A s \in Requests : Issuer[s] = p => join'[s].pc = "done"
        BY <1>1, <1>8 DEF OneRequest
    <2>2. PresentAt(p) /\ NodesOf(game', p) = NodesOf(game, p)
        BY <1>4 DEF PresenceInv, NodesOf
    <2>3. \A e \in announced' : e[2] = p => e[1] = join[r].actor
        BY <1>3, <1>6
    <2>4. drop'[p].pc # "leaving"
        BY <1>3, <1>7
    <2> QED
        BY <1>5, <2>1, <2>2, <2>3, <2>4 DEF PresentAt
<1>10. \A e \in announced' : e[2] # p => e \in announced
    BY <1>3
<1> QED
    BY <1>1, <1>3, <1>4, <1>8, <1>9, <1>10, OthersPresent

\* The end of a disconnect announces the departure of the member it removes.
LEMMA FinishPresence ==
    ASSUME IInv, PresenceInv, NEW p \in Peers, FinishDisconnect(p)
    PROVE  PresenceInv'
<1>1. TypeOK /\ game \in GameState
    BY IInvSplit DEF Control, TypeOK
<1>2. /\ drop[p].pc = "leaving" /\ game' = RemovePeer(game, p)
      /\ announced' = announced \ {<<drop[p].actor, p>>} /\ join' = join
      /\ \A q \in Peers : q # p => drop'[q] = drop[q]
    BY <1>1 DEF FinishDisconnect, TypeOK
<1>3. NodesOf(game', p) = {}
    BY <1>1, <1>2, RemovePeerKeeps DEF IsMember
<1>4. \A e \in announced : e[2] = p => e = <<drop[p].actor, p>>
    <2>1. PresentAt(p)
        BY DEF PresenceInv
    <2> QED
        BY <1>1, <1>2, <2>1 DEF PresentAt, TypeOK
<1>5. PresentAt(p)'
    BY <1>2, <1>3, <1>4, AbsentPresent
<1>6. /\ \A k \in game'.peers : k.peer # p =>
            \E n \in game.peers : n.peer = k.peer /\ n.actor = k.actor
      /\ \A n \in game.peers : n.peer # p =>
            \E k \in game'.peers : k.peer = n.peer /\ k.actor = n.actor
    BY <1>1, <1>2, RemovePeerSeats
<1> QED
    BY <1>2, <1>5, <1>6, OthersPresent

\* A disconnect either waits, and remembers the actor it will announce, or
\* removes and announces at once.
LEMMA DisconnectPresence ==
    ASSUME IInv, PresenceInv, NEW p \in Peers, Disconnect(p)
    PROVE  PresenceInv'
<1> DEFINE h == handler[p]
<1>1. /\ TypeOK /\ game \in GameState /\ HandlerInv /\ h.lease \in Nat
      /\ h.pending \in Requests \cup {NoRequest}
    BY IInvSplit DEF Control, TypeOK, HandlerState
<1>2. ~h.gone /\ h.attached
    BY <1>1 DEF Disconnect, HandlerInv
<1>3. PresentAt(p)
    BY DEF PresenceInv
<1>4. \A e \in announced : e = <<e[1], e[2]>>
    BY <1>1 DEF TypeOK
<1>5. join' = [s \in Requests |-> IF s = h.pending THEN Ended ELSE join[s]]
    BY DEF Disconnect
<1>6. \A s \in Requests : Issuer[s] # p => join'[s].pc = join[s].pc
    BY <1>1, <1>5, GameServerAssumption DEF HandlerInv
<1>7. \A q \in Peers : q # p => drop'[q] = drop[q]
    BY <1>1 DEF Disconnect, TypeOK
<1>8. \A e \in announced' : e \in announced
    BY DEF Disconnect
<1>9. CASE h.lease # 0
    <2> DEFINE g == AbortCreation(game, p, h.lease)
    <2>1. IsCreationActive(game, p, h.lease)
        BY <1>1, <1>9 DEF HandlerInv
    <2>2. g.peers = {}
        BY <1>1, <2>1, AbortCreationRestores, Zenon
    <2>3. ~IsMember(g, p)
        BY <2>2 DEF IsMember, NodesOf
    <2>4. game' = g
        <3> HIDE DEF g
        <3> QED
            BY <1>2, <1>9, <2>3 DEF Disconnect, g
    <2>5. game'.peers = {}
        BY <2>2, <2>4
    <2>6. (\A n \in game.peers : n.peer = p) /\ \A e \in announced : e[2] # p
        BY <2>1, CreationUnannounced DEF IsCreationActive
    <2>7. PresentAt(p)'
        BY <1>8, <2>5, <2>6, AbsentPresent DEF NodesOf
    <2> QED
        BY <1>6, <1>7, <1>8, <2>5, <2>6, <2>7, OthersPresent
<1>10. CASE h.lease = 0 /\ ~IsMember(game, p)
    <2>1. game' = game
        BY <1>10 DEF Disconnect
    <2>2. NodesOf(game', p) = {}
        BY <1>10, <2>1 DEF IsMember
    <2>3. \A e \in announced' : e[2] # p
        BY <1>3, <1>8, <1>10 DEF PresentAt, IsMember
    <2>4. PresentAt(p)'
        BY <2>2, <2>3, AbsentPresent
    <2> QED
        BY <1>6, <1>7, <1>8, <2>1, <2>4, OthersPresent
<1>11. CASE h.lease = 0 /\ IsMember(game, p)
    <2> DEFINE a == ActorOf(game, p)
    <2>1. \A e \in announced : e[2] = p => e[1] = a
        <3>1. PICK n \in NodesOf(game, p) : n.actor = a
            BY <1>1, <1>11, ActorOfNode
        <3> QED
            BY <1>3, <3>1 DEF PresentAt
    <2>2. CASE h.left
        <3>1. game' = RemovePeer(game, p) /\ announced' = announced \ {<<a, p>>}
            BY <1>2, <1>11, <2>2 DEF Disconnect
        <3>2. NodesOf(game', p) = {}
            BY <1>1, <3>1, RemovePeerKeeps DEF IsMember
        <3>3. \A e \in announced' : e[2] # p
            BY <1>4, <2>1, <3>1
        <3>4. PresentAt(p)'
            BY <3>2, <3>3, AbsentPresent
        <3>5. /\ \A k \in game'.peers : k.peer # p =>
                    \E n \in game.peers : n.peer = k.peer /\ n.actor = k.actor
              /\ \A n \in game.peers : n.peer # p =>
                    \E k \in game'.peers : k.peer = n.peer /\ k.actor = n.actor
            BY <1>1, <3>1, RemovePeerSeats
        <3> QED
            BY <1>6, <1>7, <1>8, <3>4, <3>5, OthersPresent
    <2>3. CASE ~h.left
        <3>1. /\ game' = game /\ announced' = announced
              /\ drop' = [drop EXCEPT ![p] = [pc |-> "leaving", actor |-> a]]
            BY <1>2, <1>11, <2>3 DEF Disconnect
        <3>2. drop'[p].actor = a
            BY <1>1, <3>1 DEF TypeOK
        <3>3. h.pending = NoRequest
            <4> SUFFICES ASSUME h.pending # NoRequest PROVE FALSE
                OBVIOUS
            <4>1. h.pending \in Requests /\ Issuer[h.pending] = p /\ join[h.pending].pc = "parked"
                BY <1>1 DEF HandlerInv
            <4> HIDE DEF h
            <4>2. NodesOf(game, p) = {}
                BY <4>1, NotYetPresent
            <4> QED
                BY <1>11, <4>2 DEF IsMember
        <3>4. \A s \in Requests : join'[s] = join[s]
            BY <1>5, <3>3, GameServerAssumption
        <3>5. PresentAt(p)'
            <4> HIDE DEF a, h
            <4> QED
                BY <1>3, <2>1, <3>1, <3>2, <3>4 DEF PresentAt
        <3> QED
            BY <1>6, <1>7, <1>8, <3>1, <3>5, OthersPresent
    <2> QED
        BY <1>1, <2>2, <2>3 DEF TypeOK, HandlerState
<1> QED
    BY <1>9, <1>10, <1>11

\* The request handlers that do not admit or complete keep the presence.
LEMMA EnterJoinPresence ==
    ASSUME IInv, PresenceInv, NEW r \in Requests, join[r].pc \notin {"joined", "done"},
           NEW h, NEW o, EnterJoin(r, h, o)
    PROVE  PresenceInv'
<1>1. game \in GameState /\ UNCHANGED <<drop, announced>>
    BY IInvSplit DEF Control, TypeOK, EnterJoin
<1>2. game'.peers = game.peers
    BY <1>1 DEF EnterJoin, RefuseJoin, ParkJoin, StartAsMaster, StartAsJoiner,
                BeginCreation, GameState
<1>3. \E j : join' = [join EXCEPT ![r] = j]
    BY DEF EnterJoin, RefuseJoin, ParkJoin, StartAsMaster, StartAsJoiner
<1> QED
    BY <1>1, <1>2, <1>3, EnterPresence

\* The actions of a connection.
LEMMA ConnectionPresence ==
    ASSUME IInv, PresenceInv, NEW p \in Peers,
           \/ PendingOverdue(p) \/ HandleSlowUpdate(p) \/ LeaveRequest(p)
           \/ \E ok \in BOOLEAN : ResumeLeave(p, ok)
           \/ Disconnect(p) \/ FinishDisconnect(p)
    PROVE  PresenceInv'
<1>1. TypeOK /\ HandlerInv
    BY IInvSplit DEF Control
<1>2. CASE PendingOverdue(p) \/ LeaveRequest(p) \/ \E ok \in BOOLEAN : ResumeLeave(p, ok)
    BY <1>2, SamePresence DEF PendingOverdue, LeaveRequest, ResumeLeave
<1>3. CASE HandleSlowUpdate(p)
    <2> DEFINE r == handler[p].pending
    <2>1. r \in Requests /\ join[r].pc = "parked"
        BY <1>1, <1>3 DEF HandleSlowUpdate, ReplayPending, ExpirePending, TypeOK,
                          HandlerState, HandlerInv
    <2>2. CASE ReplayPending(p)
        <3>1. \E h, o : EnterJoin(r, h, o)
            BY <2>2 DEF ReplayPending
        <3> HIDE DEF r
        <3> QED
            BY <2>1, <3>1, EnterJoinPresence
    <2>3. CASE ExpirePending(p)
        <3>1. join' = [join EXCEPT ![r] = Ended] /\ UNCHANGED <<game, drop, announced>>
            BY <2>3 DEF ExpirePending
        <3> HIDE DEF r
        <3> QED
            BY <2>1, <3>1, EnterPresence
    <2> QED
        BY <1>3, <2>2, <2>3 DEF HandleSlowUpdate
<1> QED
    BY <1>2, <1>3, DisconnectPresence, FinishPresence

\* The actions of a join request.
LEMMA RequestPresence ==
    ASSUME IInv, PresenceInv, OneRequest, NEW r \in Requests,
           (\E o \in Offers : JoinRequest(r, o)) \/ ResumeBefore(r) \/ ResumeJoined(r)
    PROVE  PresenceInv'
<1>1. ASSUME NEW close \in BOOLEAN, Running(r), Rollback(r, close) PROVE PresenceInv'
    <2> DEFINE g == IF handler[Issuer[r]].seat # 0 THEN RemovePeer(game, Issuer[r]) ELSE game
    <2>1. g \in {game, RemovePeer(game, Issuer[r])}
        OBVIOUS
    <2>2. game' = IF join[r].master THEN AbortCreation(game, Issuer[r], join[r].gen)
                  ELSE RemoveIfGeneration(g, join[r].added)
        BY <1>1 DEF Rollback, RollbackGame
    <2> HIDE DEF g
    <2>3. join' = [join EXCEPT ![r] = Ended] /\ UNCHANGED <<drop, announced>>
        BY <1>1 DEF Rollback
    <2> QED
        BY <1>1, <2>1, <2>2, <2>3, EndPresence
<1>2. ASSUME NEW ok \in BOOLEAN, BeforeAborted(r, ok) PROVE PresenceInv'
    BY <1>1, <1>2 DEF BeforeAborted, Running
<1>3. ASSUME BeforeRejected(r) PROVE PresenceInv'
    BY <1>1, <1>3 DEF BeforeRejected, Running
<1>4. ASSUME JoinedGone(r) PROVE PresenceInv'
    BY <1>1, <1>4 DEF JoinedGone, Running
<1>5. ASSUME JoinedVanished(r) \/ JoinedRefused(r) PROVE PresenceInv'
    <2>1. PICK g \in {game, RemovePeer(game, Issuer[r])} :
             game' = IF join[r].master THEN AbortCreation(game, Issuer[r], join[r].gen)
                     ELSE RemoveIfGeneration(g, join[r].added)
        BY <1>5 DEF JoinedVanished, JoinedRefused
    <2>2. Running(r) /\ join' = [join EXCEPT ![r] = Ended] /\ UNCHANGED <<drop, announced>>
        BY <1>5 DEF JoinedVanished, JoinedRefused, Running
    <2> QED
        BY <2>1, <2>2, EndPresence
<1>6. ASSUME NEW o \in Offers, JoinRequest(r, o) PROVE PresenceInv'
    BY <1>6, EnterJoinPresence DEF JoinRequest
<1> QED
    BY <1>2, <1>3, <1>4, <1>5, <1>6, AdmittedPresence, CompletedPresence
       DEF ResumeBefore, ResumeJoined

\* The presence of the announced members is inductive relative to IInv.
LEMMA PresenceNext ==
    ASSUME IInv, PresenceInv, OneRequest, [Next]_vars
    PROVE  PresenceInv'
<1>1. game \in GameState
    BY IInvSplit DEF Control, TypeOK
<1>2. ASSUME NEW u \in Users, NEW o \in Offers, MasterReserve(u, o.invited)
      PROVE  PresenceInv'
    <2>1. {u} \cup o.invited \in SUBSET Users
        BY GameServerAssumption DEF Offer
    <2>2. game'.peers = game.peers
        BY <1>1, <1>2, <2>1, ReserveKeeps DEF MasterReserve
    <2> QED
        BY <1>2, <2>2, SamePresence DEF MasterReserve
<1>3. ASSUME NEW task \in game.expiries, ExpireReservation(task)
      PROVE  PresenceInv'
    <2>1. game'.peers = game.peers
        BY <1>1, <1>3, RunExpiryKeeps DEF ExpireReservation
    <2> QED
        BY <1>3, <2>1, SamePresence DEF ExpireReservation
<1>4. ASSUME UNCHANGED vars PROVE PresenceInv'
    BY <1>4, SamePresence DEF vars
<1> QED
    BY <1>2, <1>3, <1>4, ConnectionPresence, RequestPresence DEF Next

\* While no connection sends a second join request, whatever plugins, leaves,
\* disconnects and rolled back creations interleave, every player the room was
\* told of is still a member until a Leave event is sent for it.
THEOREM AnnouncedStay == ASSUME OneRequest PROVE Spec => []AnnouncedAreMembers
<1>1. Init => PresenceInv
    BY DEF Init, NewGame, PresenceInv, PresentAt, NodesOf
<1>2. IInv /\ PresenceInv /\ [Next]_vars => PresenceInv'
    BY PresenceNext
<1>3. TypeOK /\ PresenceInv => AnnouncedAreMembers
    <2> SUFFICES ASSUME TypeOK, PresenceInv, NEW e \in announced
                 PROVE  \E n \in game.peers : n.actor = e[1] /\ n.peer = e[2]
        BY DEF AnnouncedAreMembers
    <2>1. e[2] \in Peers
        BY DEF TypeOK
    <2>2. PresentAt(e[2])
        BY <2>1 DEF PresenceInv
    <2> QED
        BY <2>2 DEF PresentAt, NodesOf
<1> QED
    BY Invariance, TypeCorrect, <1>1, <1>2, <1>3, PTL DEF Spec
=============================================================================
