-------------------------------- MODULE Game --------------------------------
(***************************************************************************)
(* The Game class of game.hpp / game.cpp: one room, its creation lease,    *)
(* its member list and its table of reserved ("expected") users.           *)
(*                                                                         *)
(* A room is a record g; every method that changes the room under          *)
(* admission_mutex is an operator that returns the changed record.  The    *)
(* handlers that call the methods, and the points where they suspend, are  *)
(* in the module GameServer.                                               *)
(*                                                                         *)
(*   created, creating   is_created, is_creating                           *)
(*   owner, generation   creation_owner_, active_creation_generation_      *)
(*   config              the settings creation may change and abort        *)
(*                       restores: max_peers, CheckUserOnJoin, is_open,    *)
(*                       master_actor and last_actor_id                    *)
(*   initial             creation_initial_* (the snapshot of config)       *)
(*   initialExpected     creation_initial_expected_users_ and              *)
(*                       creation_initial_expected_user_generations_       *)
(*   peers               the list of GamePeer nodes.  A node carries the   *)
(*                       set of actors that precede it in the list         *)
(*   expected            expected_users and expected_user_generations: the *)
(*                       generation of a user's reservation, 0 for none    *)
(*   reservations        next_expected_user_generation                     *)
(*   ownReserved         creation_reserved_expected_user_generations_      *)
(*   ownRemoved          the keys of creation_removed_expected_...         *)
(*   expiries            the scheduled expiry tasks, as <<user, generation>>*)
(***************************************************************************)
EXTENDS Naturals, FiniteSets

CONSTANTS
    Peers,      \* connections that may reach the game server
    NoPeer,     \* the null Peer
    Users,      \* user ids
    UserOf,     \* the user id a connection has authenticated as
    MaxActor,   \* 0xfe: the largest actor number
    AppCap      \* the application's max_peers_per_game, 0 for no cap

ASSUME GameAssumption ==
    /\ NoPeer \notin Peers
    /\ IsFiniteSet(Users)
    /\ UserOf \in [Peers -> Users]
    /\ MaxActor \in Nat \ {0}
    /\ AppCap \in Nat

Actors == 1 .. MaxActor

Node == [actor : Actors, peer : Peers, before : SUBSET Actors]

Config == [max : Nat, check : BOOLEAN, open : BOOLEAN,
           master : Nat, lastActor : 0 .. MaxActor]

GameState ==
    [created : BOOLEAN, creating : BOOLEAN,
     owner : Peers \cup {NoPeer}, generation : Nat,
     config : Config, initial : Config, initialExpected : [Users -> Nat],
     peers : SUBSET Node,
     expected : [Users -> Nat], reservations : Nat,
     ownReserved : [Users -> Nat], ownRemoved : SUBSET Users,
     expiries : SUBSET (Users \X Nat)]

DefaultConfig == [max |-> 0, check |-> TRUE, open |-> TRUE,
                  master |-> 1, lastActor |-> 0]

NewGame ==
    [created |-> FALSE, creating |-> FALSE,
     owner |-> NoPeer, generation |-> 0,
     config |-> DefaultConfig, initial |-> DefaultConfig,
     initialExpected |-> [u \in Users |-> 0],
     peers |-> {},
     expected |-> [u \in Users |-> 0], reservations |-> 0,
     ownReserved |-> [u \in Users |-> 0], ownRemoved |-> {},
     expiries |-> {}]

-----------------------------------------------------------------------------
(* Looking up members. *)

\* Mutant: members are looked up by user id instead of by connection.
NodesOfUser(g, p) == {n \in g.peers : UserOf[n.peer] = UserOf[p]}

NodesOf(g, p) == {n \in g.peers : n.peer = p}

IsMember(g, p) == NodesOf(g, p) # {}

ActorsIn(g) == {n.actor : n \in g.peers}

\* A node's index in the list, from 0.
Position(n) == Cardinality(n.before)

Front(nodes) == CHOOSE n \in nodes : \A m \in nodes : Position(n) <= Position(m)

Back(nodes) == CHOOSE n \in nodes : \A m \in nodes : Position(m) <= Position(n)

\* find_peer(peer): the first of the peer's nodes in list order.
FirstNode(g, p) == Front(NodesOf(g, p))

\* actor_id_for_peer(), with 0 for nullopt.
ActorOf(g, p) == IF IsMember(g, p) THEN FirstNode(g, p).actor ELSE 0

ExpectedUsers(g) == {u \in Users : g.expected[u] # 0}

\* The users who were expected when the room's creation was begun.
InitialUsers(g) == {u \in Users : g.initialExpected[u] # 0}

-----------------------------------------------------------------------------
(* Reservations. *)

\* reserve_expected_user_with_generation(), for the users of one request.  It
\* skips users that are already expected.  Generations are only ever compared
\* for the same user, so one request draws one number for all of its users.
\* While the room is being created the reservation is filed under the creation,
\* whoever makes it.
Reserve(g, users) ==
    LET new == users \ ExpectedUsers(g)
        gen == g.reservations + 1
    IN  IF new = {} THEN g
        ELSE [g EXCEPT
                !.reservations = gen,
                !.expected = [u \in Users |-> IF u \in new THEN gen ELSE @[u]],
                !.ownReserved =
                    [u \in Users |-> IF g.creating /\ u \in new THEN gen ELSE @[u]],
                !.expiries = @ \cup {<<u, gen>> : u \in new}]

\* Mutant: removals during a creation are not recorded.
RemovedUnrecorded(g, u) == {}

\* A reservation that goes away while the room is being created, and that was
\* not made during the creation, is remembered so that an abort can restore it.
RemovedByOthers(g, u) ==
    IF g.creating /\ g.ownReserved[u] # g.expected[u] THEN {u} ELSE {}

\* remove_expected_user()
RemoveExpected(g, u) ==
    IF g.expected[u] = 0 THEN g
    ELSE [g EXCEPT !.ownRemoved = @ \cup RemovedByOthers(g, u),
                   !.expected[u] = 0]

\* remove_expected_user_if_generation(), for the users and generations of one
\* request; 0 in gens stands for a user the request did not reserve.
RemoveIfGeneration(g, gens) ==
    [g EXCEPT !.expected =
        [u \in Users |-> IF gens[u] # 0 /\ @[u] = gens[u] THEN 0 ELSE @[u]]]

\* Mutants: the task ends whatever reservation its user has by then; the task
\* runs without ending any.
RunExpiryOfUser(g, task) == RemoveExpected([g EXCEPT !.expiries = @ \ {task}], task[1])

RunExpiryInVain(g, task) == [g EXCEPT !.expiries = @ \ {task}]

\* The scheduled task of a reservation.
RunExpiry(g, task) ==
    LET u == task[1]
        g1 == [g EXCEPT !.expiries = @ \ {task}]
    IN  IF g.expected[u] = task[2] THEN RemoveExpected(g1, u) ELSE g1

-----------------------------------------------------------------------------
(* Admission. *)

\* Mutant: only the members are counted.
ValidateMembersOnly(g, user, invited, allowUncreated) ==
    /\ g.created \/ allowUncreated
    /\ g.config.open
    /\ g.config.max > 0 => Cardinality(g.peers) < g.config.max
    /\ AppCap > 0 => Cardinality(g.peers) < AppCap
    /\ Cardinality(g.peers) < MaxActor
    /\ g.config.check => \A n \in g.peers : UserOf[n.peer] # user

\* validate_join(): allowUncreated is set for the creator only.
ValidateJoin(g, user, invited, allowUncreated) ==
    LET newUsers == {u \in invited : u # user /\ u \notin ExpectedUsers(g)}
        needed == (IF user \in ExpectedUsers(g) THEN 0 ELSE 1) + Cardinality(newUsers)
        final == Cardinality(g.peers) + Cardinality(ExpectedUsers(g)) + needed
    IN  /\ g.created \/ allowUncreated
        /\ g.config.open
        /\ g.config.max > 0 => final <= g.config.max
        /\ AppCap > 0 => final <= AppCap
        /\ final <= MaxActor
        /\ g.config.check => \A n \in g.peers : UserOf[n.peer] # user

\* create_peer() tries the actors after last_actor_id cyclically and takes the
\* first free one.  Distance orders the actors by when they are tried.
Distance(g, a) == IF a > g.config.lastActor THEN a ELSE a + MaxActor

FreeActors(g) == Actors \ ActorsIn(g)

\* Mutants: the number after the last one, without wrapping around; wrapping
\* around, without looking whether it is free.
SuccessorActor(g) == g.config.lastActor + 1

CyclicActor(g) == IF g.config.lastActor = MaxActor THEN 1 ELSE g.config.lastActor + 1

NextActor(g) ==
    CHOOSE a \in FreeActors(g) : \A b \in FreeActors(g) : Distance(g, a) <= Distance(g, b)

\* What add_peer() and add_peer_for_creation() check of the new node.
MayAdd(g, p) ==
    g.config.check => \A n \in g.peers : UserOf[n.peer] # UserOf[p]

\* create_peer() followed by the emplace_back and remove_expected_user() that
\* add_peer() and add_peer_for_creation() share.
AddNode(g, p) ==
    LET a == NextActor(g)
        g1 == [g EXCEPT
                 !.config.lastActor = a,
                 !.peers = @ \cup {[actor |-> a, peer |-> p, before |-> ActorsIn(g)]}]
    IN  RemoveExpected(g1, UserOf[p])

\* remove_peer(): drops every node of the peer and remembers the actor of the
\* last one it meets; when that is the master's, the front of the remaining list
\* becomes the master.
RemovePeer(g, p) ==
    LET leaving == {n.actor : n \in NodesOf(g, p)}
        rest == {[n EXCEPT !.before = @ \ leaving] : n \in g.peers \ NodesOf(g, p)}
    IN  IF leaving = {} THEN g
        ELSE [g EXCEPT
                !.peers = rest,
                !.config.master =
                    IF rest # {} /\ Back(NodesOf(g, p)).actor = @
                    THEN Front(rest).actor ELSE @]

-----------------------------------------------------------------------------
(* The creation transaction. *)

\* The condition under which try_begin_creation() grants the lease.
MayBeginCreation(g) == ~g.created /\ ~g.creating /\ g.peers = {}

BeginCreation(g, p) ==
    [g EXCEPT !.creating = TRUE,
              !.owner = p,
              !.generation = @ + 1,
              !.initial = g.config,
              !.initialExpected = g.expected,
              !.ownReserved = [u \in Users |-> 0],
              !.ownRemoved = {}]

\* is_creation_active(owner, generation)
IsCreationActive(g, p, gen) ==
    g.creating /\ gen # 0 /\ gen = g.generation /\ g.owner = p

\* The creator's max_peers and CheckUserOnJoin.
Configure(g, max, check) == [g EXCEPT !.config.max = max, !.config.check = check]

\* commit_creation() succeeds only while the owner is still in the room.
MayCommit(g, p, gen) == IsCreationActive(g, p, gen) /\ IsMember(g, p)

\* Mutant: the lease is given up and is_created is not set.
CommitLeaseOnly(g) == [g EXCEPT !.owner = NoPeer, !.creating = FALSE]

CommitCreation(g) ==
    [g EXCEPT !.created = TRUE, !.owner = NoPeer, !.creating = FALSE]

\* abort_creation_transaction(): a stale lease changes nothing.  Otherwise the
\* members go, the reservations made during the creation go, those that were removed
\* meanwhile come back under fresh generations, and the settings are restored
\* (creation_initial_is_created_ is false: only an uncreated room is leased).
\* reserve_expected_user_with_generation() records the restored reservations in
\* ownReserved (is_creating is still set); the maps are cleared right after.
AbortCreation(g, p, gen) ==
    IF ~IsCreationActive(g, p, gen) THEN g
    ELSE LET g1 == RemoveIfGeneration(g, g.ownReserved)
             g2 == Reserve(g1, g.ownRemoved)
         IN  [g2 EXCEPT !.peers = {},
                        !.ownReserved = [u \in Users |-> 0],
                        !.ownRemoved = {},
                        !.config = g.initial,
                        !.owner = NoPeer,
                        !.created = FALSE,
                        !.creating = FALSE]
=============================================================================
