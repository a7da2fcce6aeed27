# Luxon Server: a TLA+ model of its rooms, sessions and processes

Luxon Server is a game server that speaks the Photon protocol. Clients pass
through three servers, which share one process and one main loop (or run in
several processes connected by IPC):

* the **NameServer** authenticates and names a master server;
* the **MasterServer** keeps lobbies, matches players and routes them to rooms;
* the **GameServer** runs the rooms: joins, events, properties.

This project models the parts of it in which the order of steps decides whether
the server is right, checks them with TLC on small instances and proves
their safety with TLAPS for instances of any size: every invariant and every
action property that a passing run checks is also a theorem.

Paths below are relative to the repository's root.

## 1. Inventory

| Component | State | Operations | Interacts with |
|---|---|---|---|
| Game room (`src/game.cpp`) | creation lease, settings and their snapshot, members, reservations with generations, event cache, properties | begin/commit/abort creation, validate, add, remove, reserve, expire, broadcast | handlers, scheduler, lobby |
| GameServerHandler (`src/handler_gameserver.cpp`) | current room, own member node, lease, parked join, disconnected/left flags | Join/Create, Leave, RaiseEvent, SetProperties, disconnect, slow update | room, plugins (awaited), peer |
| MasterServerHandler (`src/handler_masterserver.cpp`) | joined lobby, queue of list updates, parked join, own reservations | JoinLobby, LeaveLobby, CreateGame, JoinGame, JoinRandomGame, slow update | App, Lobby, room, persistent peers |
| App and Lobby (`src/apps.cpp`, `src/lobby.cpp`) | weak maps of rooms and lobbies, subscribers | create room, deleter, lists, SQL query | handlers, settings |
| Peer persistence (`src/peer_persistence.cpp`) | stored peers by token, generations | store, load, expire, sync | all handlers, IPC |
| Authentication (`src/authentication.cpp`) | none of its own | decide, call a provider | settings, HTTP |
| ServerManager (`src/server_manager.cpp`) | connections, scheduled tasks, subprocesses | main loop, slow updates, IPC dispatch | everything |
| IPC (`src/ipc.cpp`) | send and receive buffers | send, receive | ServerManager |
| Coroutines (`basic-coro/`) | task and awaiter state | suspend, resume, complete | handlers, plugins |
| `offset_map.hpp`, settings database, HTTP server, metrics, FFI, SQL virtual table | | | |

What makes this code hard:

* **Suspension.** A handler awaits plugin callbacks. Between the await and the
  resumption any other handler runs, and so do the same connection's disconnect
  and its next message. `operation_mutex_` is recursive and there is one main
  thread, so it does not keep these apart.
* **Transactions without a database.** Creating a room applies settings,
  reservations and an actor number step by step and must undo all of it.
* **Generations.** Reservations, leases, parked joins and stored peers are
  compared by generation, copies of rooms by revision, to recognise what is out
  of date; the counters belong to one process and are compared in another.
* **Weak pointers and deleters.** Rooms and lobbies live while somebody holds
  them; registries hold weak pointers.
* **Batches.** List updates are queued for five seconds, by room or by name.
* **Processes.** A session and a room exist in several processes at once, kept
  equal by messages over non-blocking sockets that split and delay them.

What makes each part correct:

* a lease always has somebody who ends it; an aborted creation leaves no trace;
* members and reservations fit in the room when somebody is admitted;
* a connection that is gone is not, and does not become, a member;
* a reservation ends by its own expiry, by its own rollback, by use, or with the
  creation during which it was made;
* a parked request is answered;
* the role of the master is passed on, and every player knows who has it;
* every player has the current properties, and no update of one is lost;
* every player gets the events that are cached, in one order, whenever it came;
* a room's name is taken exactly while the room lives, and limits hold;
* a player's list shows what exists;
* a session that was handed over can be picked up, once, and does not stay;
* the processes agree on a room, and each knows which rooms are its own;
* IPC delivers messages whole, once and in order.

The hazards, each with the line where it bites and the properties aimed at it,
are in `PROJECT.json`.

## 2. Modules

| Module | Models |
|---|---|
| `Game` | the room as a record; every method of `Game` that changes it is an operator |
| `GameServer` | `GameServerHandler` on one room: a state machine over `Game` |
| `MCGameServer` | instances of `GameServer` for TLC |
| `GameServerProofs` | what each operator of `Game` keeps, and the invariants of `GameServer` |
| `Lobby` | App, Lobby and the lists of the MasterServer's clients |
| `MCLobby` | an instance of `Lobby` |
| `LobbyProofs` | the invariants of the registry and of the room lists |
| `Room` | a created room seen by its players: members, joins and departures under way, the master |
| `RoomProofs` | the invariants of `Room` |
| `RoomProperties` | extends `Room`: SetProperties and what players are told of properties |
| `MCRoomProperties` | instances of `RoomProperties` |
| `RoomPropertiesProofs` | players have the current properties, and no update is lost |
| `RoomEvents` | extends `Room`: RaiseEvent, the event cache, the flood, interest groups |
| `MCRoomEvents` | instances of `RoomEvents` |
| `RoomEventsProofs` | players get the cached events, in order |
| `MessageQueue` | abstract specification: what one direction of an IPC channel promises |
| `IPC` | the framing of `ipc.cpp` over a stream socket; implements `MessageQueue` |
| `MCIPC` | an instance of `IPC` |
| `IPCProofs` | the stream invariant and the refinement |
| `PeerPersistence` | sessions: persistent peers, authentication, their copies in other processes |
| `MCPeerPersistence` | an instance of `PeerPersistence` |
| `PeerPersistenceProofs` | what is kept expires, and can be picked up, once |
| `Mirror` | one room and its copies in the other processes |
| `MCMirror` | an instance of `Mirror` |
| `MirrorProofs` | a process keeps its own room, and the copies are current |

### Game and GameServer

`Game` is a library of operators on a record `g`. The fields are those an abort
has to restore plus the members, the reservations and the scheduled expiry
tasks. The member list is a set of nodes; each node carries the actors before it
in the list, from which the list order (`Front`, `Back`, `FirstNode`) is
recovered. Actor numbers are `1 .. MaxActor` (0xfe in the code) and
`last_actor_id` wraps as in `create_peer()`. Generations are naturals; the
code's 64-bit counters skip 0 when they wrap, which no run of the server meets.

`GameServer` has one action for each stretch of code between two awaits.

| Code | Actions |
|---|---|
| JoinGame/CreateGame up to the first await | `JoinRequest` (`RefuseJoin`, `ParkJoin`, `StartAsMaster`, `StartAsJoiner`) |
| after OnCreateGame or BeforeJoin, up to OnJoinGame | `ResumeBefore` (`BeforeAborted`, `BeforeRejected`, `BeforeAdmitted`) |
| after OnJoinGame | `ResumeJoined` (`JoinedGone`, `JoinedVanished`, `JoinedRefused`, `JoinedCompleted`) |
| HandleSlowUpdate, parked join | `ReplayPending`, `ExpirePending`; `PendingOverdue` is the clock |
| Leave | `LeaveRequest`, `ResumeLeave` |
| HandleDisconnect | `Disconnect`, `FinishDisconnect` |
| expiry task of a reservation | `ExpireReservation` |
| MasterServer's JoinGame, as far as it touches the room | `MasterReserve` |

What a request asks for is an *offer*: whether it may create, the limit, the
user check and the open flag it would set, and the users it invites. A plugin's
answer is a free choice. Builds without plugins, or without coroutines, have the
behaviours in which each resumption follows its suspension at once, so the
safety results hold for them too. The branches of the join that test a condition
for the second time without an await in between cannot be taken and are folded
into the first test.

The variable `announced` is what the room's members have been told by Join and
Leave events.

### Lobby

The rooms of one application, several lobbies of the default type, and
connections to the master server. A room is *unborn*, *live* or *deleted*; who
holds it is abstracted, it may be deleted whenever it lives. The deleter of
`create_game()` is modelled as it runs: it frees the name, announces a visible
room's deletion, and does not find the room among its lobby's weak pointers. A
lobby without rooms and clients is destroyed with its list.

A client's `view` is the list it was sent after JoinLobby with the later events
applied; that the player's program replaces its list on JoinLobby is assumed of
the client, which is not part of the repository. `stale` and `missed` are
auxiliary: nothing in the server depends on them.

### Room, RoomProperties and RoomEvents

`GameServer` asks who may enter a room; `Room` starts where a member was
admitted and asks what the players know. A connection is named by its actor
number. A member may be *joining* (OnJoinGame awaited) and *leaving* (OnLeave
awaited) at the same time, and requests of members, also of those that are
joining, await their own plugins.

| Code | Actions |
|---|---|
| the node is added / OnJoinGame returned / the join is undone | `Admit`, `Complete`, `Revert` |
| HandleDisconnect up to OnLeave / after it / after a Leave request | `BeginDrop`, `FinishDrop`, `Leave` |
| SetProperties up to BeforeSetProperties / after it | `SetProperties` / `FailSetProperties`, `ApplySetProperties`, `RejectSetProperties` |
| RaiseEvent up to OnRaiseEvent / after it | `RaiseEvent` / `FailRaiseEvent`, `RemoveFromCache`, `PublishEvent` |
| ChangeInterestGroups | `ChangeInterestGroups` |
| MasterClientId in SetProperties | `SetMaster` (in `Room` only) |

The two extensions add their variables to the actions of `Room`
(`AdmitMember`, `CompleteMember`, ...), so they share its invariant and its
lemmas. What players know (`known`, `view`, `got`) are the messages sent to them;
delivery is in order, as on a reliable channel. An event is cached at most once,
so `event_cache` is a set of entries, each with the events that were cached
before it, instead of a list; `order[a]` relates the events that actor `a` was
last sent in this order. An ActorList that is present but empty is kept apart
from one that is absent. `unsettled`, `blind` and `late`
are auxiliary: they say when a property is not claimed, or claims less, and are
set by what the code leaves open on purpose (a request that is not broadcast, a
plugin that keeps properties from others) or not (see "Where the code and its
documentation differ"). `unsettled` says that, since the players were last told
of the master, the role was with a member whose departure was not sure to be
announced: its join was not answered, or its HandleDisconnect had already found
it not to be the master. It ends with the next event that names a master.

Rooms have no DeleteNullProps, a request sets one key, and the built-in property
UserId is left out. The code and the data that a cache removal filters by are
one value.

### MessageQueue and IPC

`IPC` is one direction of a channel at the level of bytes. `sendBuf`, `socket`
and `recvBuf` are `send_buffer_`, the socket and `recv_buffer_`; one action is
one `send()` or `recv()` that moves any number of bytes the socket can take.
`send_message()` is `SendMessage` (queue the frame), `Write` as often as
possible, and `Flushed`, `WouldBlock` or `WriteFails`; `receive_message()` is
`Read` until the socket is empty, then `ReceiveMessage` or `EndOfStream`. Either
process may exit at any point. Serialisation and byte order are parameters that
are only assumed to be injective. 
`MessageQueue` is the abstract specification: a sequence of messages, delivered
whole, once and in order until the channel breaks. The refinement mapping takes
the messages sent and not yet returned as the queue. `PeerPersistence` and
`Mirror` then use such queues between processes.

### PeerPersistence

| Code | Actions |
|---|---|
| `authenticate()` without a token | `Login` |
| with a token, at a name or master server | `FrontAuthenticate`, `FrontRefuse` |
| with a token, at a game server | `GameAuthenticate`, `GamePark` |
| HandleSlowUpdate, parked authentication | `Retry`, `GiveUp` |
| CreateGame, JoinGame, JoinRandomGame: the client is routed | `Route` |
| Disconnected state change / the handler is destroyed | `Lose` / `Destroy` |
| timer of `store_persistent_peer()` | `Expire` |
| PersistentPeerStore, PersistentPeerConsume | `Receive` |

A record is its token and its generation; user, application and invitation do
not influence any of this, but for whether the room is one of the process, which
is a free choice. `reconnect_ttl_ms` is 30000 wherever it is set, so every store
has a timer; timers may run at any time, which covers every length of the delay.
`handed`, `doubled` and `outlived` are auxiliary: where a session was stored and
neither loaded by anybody since nor expired, and the two ways in which a token
may be in two places. `doubled` are the tokens that two connections used at once.
`outlived` are the copies that a consumption elsewhere leaves behind, because
their process is not told of it (`Unreached`) or because they count as newer;
the mark goes when the process is handed the token anew or the copy expires.

Processes are connected in a tree: two neighbours have no neighbour in common.
The server starts a parent with its children.

### Mirror

One name, and the room that the process `Owner` has under it. Processes form a
star, a parent with its children. Each action of the room that calls
`trigger_lobby_update()` publishes (`Join`, `Leave`, `CommitCreation`,
`AbortCreation`, `SetProperties` of built-in settings); `BeginCreation`,
`Configure` and custom properties change the room silently. `ReceiveUpdate` is
the GameUpdate branch of `process_ipc_event()`: the drop by revision, the fields
that are set first, then `insert_game_props()` with its own revision, its
comparison and its new broadcast, which skips the sender. `ReceiveDelete` and
`Release` are GameDelete and the destruction of a copy, which broadcasts again.

## 3. What TLC checks

All runs have `CHECK_DEADLOCK FALSE`: each request, room and reservation of the
instance is used once, after which the system really may stop.

| Run | Instance | Shows |
|---|---|---|
| `admission` | 3 connections of 2 users, a request each, 2 actor numbers | leases have holders; a room that is not created has no members; no member after disconnect; actors unique though numbers run out and wrap; nobody is removed without a Leave event; admissions within capacity |
| `reservations` | 2 connections, application cap 2, 2 reservations of the master server | reservations always expire; each ends by its own expiry, rollback or use, or with the creation during which it was made, and none from before a creation ends with it; aborts restore the room |
| `abort_reservations` | that of `reservations` | **violated**, see below |
| `committed_join` | 2 connections, one with two requests | **violated**, see below |
| `progress` | 2 connections, one with two requests | a parked join is resolved by the slow update alone; creations end and closed connections leave when plugins return |
| `room_lists` | 2 rooms of one name, 2 lobbies, no room limit, queue limit 3 | the name is registered exactly while a room has it; a client that entered with an empty queue sees exactly what exists after the batch; if updates were dropped, no ghosts; a deleted room's name leaves the list |
| `master` | 4 actors | the role is passed on at every departure; a player that is wrong about the master believes in somebody who is gone, and only after the role passed to a member on its way in or out |
| `properties` | 2 actors, 3 requests, 2 values | players have the current properties and no update is lost |
| `events` | 2 actors, 2 requests of all kinds, one group | players have been sent the cached events, in the cache's order; only events that resumed late outlive their sender |
| `pipe` | 4 messages of 2 lengths, socket of 3 bytes, frames of 3 and 5 | no byte is lost or doubled wherever frames are split; the channel refines `MessageQueue`; what was written arrives |
| `handover` | a master server and two game servers in 2 processes, 2 tokens, 2 stores a process | a stored session can be picked up until its own timer runs; nothing is kept without a timer; what was picked up is gone everywhere, with the exceptions below; a wait for a token ends |
| `mirror` | a room in one of 2 children, 6 revisions, 2 players | copies in neighbours are as published, settings reach all processes, a process never takes its own room for another's, a deleted room disappears everywhere |

### Bounds

* `MaxActor` is 2 or 3 so that the numbers run out and wrap within a few joins.
  The code's 0xfe differs only in how many joins that takes.
* Two users on three connections make the user check matter. Two requests of
  one connection, whose joins then overlap, are in `progress` and
  `committed_join`; the theorems cover any number of requests per connection.
* `MaxReservations` bounds the reservations the master server makes, counted
  together with all others; 2 lets a user be reserved again after the first
  reservation went away, which is what generations are for.
* `MaxPending` stands for the code's 500 and `MaxQueue` bounds how far the
  uncapped deletions may grow before a batch is sent; 3 entries are what it
  takes to delete, create and hide a name in one batch.
* Two actors are a setter and a player who is told, and one of them may be the
  target; two requests race, and a third shows a value restored by another
  request. In `events` they are a sender and a player whose join is under way;
  either may leave. Four actors in `master` let the role move twice while
  earlier departures are pending. `Silence` (updates that are not published) is
  off in `properties` to leave room for the third request; `PlayersAreCurrent` is
  proved for both.
* In `pipe` the socket is smaller than the longer frame, so that every split of
  header and payload occurs, and four messages suffice for one that waits for
  the next send. Sizes up to 3 in two one-bit bytes stand for 32-bit lengths;
  the theorems hold for all.
* In `handover` two stores in each process let a generation of one be smaller,
  equal and greater than one of the other, and the timer of the first store run
  during the second. The third connection makes a token used twice at once. With
  two processes each is told of every consumption; `TokensAreConsumedOnce` is
  proved for every tree.
* In `mirror` six revisions are a creation, its abort, another creation and
  changes after it. A publication waits until every link has less than
  `MaxQueue` messages; what is passed on does not.

### Fairness

* `SlowUpdateFairness`, `UpdateFairness`: `run_once()` calls
  `HandleSlowUpdate()` of every connection every 250 ms, and time passes.
* `PluginFairness`: an awaited plugin callback returns. This is an assumption on
  plugins and a hypothesis of `CreationEnds` and `ClosedPeerLeaves`;
  `PendingResolved` does without it.
* `CloseFairness`: `peer_->disconnect()` is followed by the connection's
  Disconnected state change, on which the server calls `HandleDisconnect()`.
* `FairSpec` of `IPC`: a call of `send_message()` goes on until it returns, and
  `run_once()` calls `receive_message()` again and again. Nobody is bound to send
  another message, so a remainder that the socket did not take may stay.
* `FairSpec` of `PeerPersistence`: the slow update of every connection, as above.
* `FairSpec` of `Mirror`: each process receives its messages and runs the timers
  that hold a copy.

Nothing is assumed of clients.

### Where the code and its documentation differ

* `committed_join`. A connection may have two joins under way, because a join
  suspended in BeforeJoin is not yet a member. If the first commits and the
  second is then rejected, `rollback_join()` of the second sees `game_peer_` set
  and removes the member; the others are told nothing. The comment above it says
  that a committed join's peer is never erased on this path.
* `abort_reservations`. While one client creates a room, another client's
  JoinGame with join mode 1 reserves a place in it through the master server
  (`handler_masterserver.cpp:486`, `524`). `game.cpp:393` files every reservation
  made during a creation under that creation, and its abort removes them. The
  comment at `game.cpp:267` says "Roll back only reservations owned by this
  creation attempt." `ReservationKept` and `AbortRestoresRoom` state what the code
  does: with an aborted creation go the reservations made during it, by whomever,
  and no others.

The code also does the following. Models and properties take it into account,
and no run claims otherwise:

* The lobby's list keeps deleted rooms (`lobby.cpp:127`) and `get_game_count()`
  adds up the lists, so a room is refused with fewer than `max_game_count` live
  rooms, the "maximum number of active game sessions" of `settings_database.md`.
  `RoomLimit` proves the other direction: never more than `max_game_count`.
* The queue of list updates survives LeaveLobby and JoinLobby
  (`handler_masterserver.cpp:802`): a room of the old lobby may appear on the
  list in the new one, and its removal is not sent. `stale` marks these clients.
* An event whose plugin callback returns after its sender was removed is cached
  in a room that deletes a departed actor's events (`handler_gameserver.cpp:427`).
  `PurgedUnlessLate` shows that there is no other way for one to stay.
* A token can be loaded twice, in spite of the comment at `server_manager.cpp:980`
  ("a delayed re-route can never resurrect a token that another process has
  already consumed"). Generations of stored sessions are counted per process and
  compared between processes (`server_manager.cpp:825`, `985`): when a process
  with a lower counter consumes a token, the copy in another counts as newer and
  stays until it expires. A consumption is sent to the neighbours of the process
  and not passed on, so that of a child does not reach its sibling. And what is
  left of a consumption that did not reach every copy may be consumed again.
  `ConsumedOnce` excepts these copies (`outlived`) and shows that there are no others.
* A parked authentication stays when the client authenticates with another token
  meanwhile, and its timeout disconnects the authenticated peer (`GiveUp`).
* `game.hpp:210` calls `state_revision_` a "Monotonic counter bumped by every
  externally visible state transition", but joins, departures and reservations
  do not change it. A copy that has counted a revision of its own drops the
  following updates that only change the players. `missed` in `MirrorCurrent`
  allows for that, and shows that nothing else is lost that way.
* A copy passes on, and shows to its lobby's clients, only updates that change a
  setting: stage, visibility and players are set before the comparison.
  LobbyProperties is not sent, so a copy passes no custom properties on.
* A message that the socket did not take waits for the next `send_message()`;
  frames in the receive buffer are lost when the other end closes; the exception
  then ends the process, so the loss of a child ends its parent.
* `is_subprocess_` is never set (`server_manager.cpp:487`), so "Stop if parent
  has died" is not reached; `run_scheduled_tasks()` runs one due task per call.

* A member that becomes master while its HandleDisconnect awaits OnLeave, or while
  its own join is not answered, goes without an event that names its successor
  (`handler_gameserver.cpp:165`, `563`). The players then go on believing in a
  master who left before, until the next event that names one. `MasterKnown`
  allows for that and for nothing else: no player takes a member for the master
  who is not.
* With `allow_change_master` off, a player's update of MasterClientId is not
  stored, but it is answered Ok and published. `MasterKnown` is therefore stated
  for applications that allow the change.
* `flood_peer()` sends the actors' properties with TargetActorNo 0, as entries of
  the room's properties. `RoomProperties` leaves these entries out.
* A member whose join awaits OnJoinGame is sent events before it has the
  properties, and again with the flood. `CacheDelivered` and `CacheOrder` show
  that nothing is lost and that the order is right in the end.
* ChangeInterestGroups without groups to remove first removes all.

## 4. What is proved

Every invariant and every action property that a passing run checks is a theorem
about the specification, for every value of the constants that satisfies the
named assumptions (`GameAssumption`, `GameServerAssumption`, `LobbyAssumption`,
`RoomAssumption`, `PropertiesAssumption`, `EventsAssumption`, `AsksAssumption`,
`IPCAssumption`, `PersistenceAssumption`, `MirrorAssumption`,
`NoGameAssumption`). These say what kind of values the constants are, that
serialisation and byte order are injective, that rooms and users are finitely
many, and that the processes of `PeerPersistence` form a tree and those of
`Mirror` a star. The number of connections, requests, users, rooms, lobbies,
clients, actors, keys, values, tokens and processes is arbitrary. One theorem,
`AnnouncedStay`, has a hypothesis of its own. TLC checked each inductive
invariant on small instances before it was proved.

**GameServer.** `IInv` is inductive (`Invariance`). Besides the properties it
contains what they need:

* `HandlerInv`: a handler that is gone has let go of its room, its parked
  request and its lease; a remembered lease is really held. Without it a
  disconnect could abort somebody else's creation.
* `CoroutineInv`: a suspended creator holds the lease or is gone, at most one
  coroutine holds it, and a suspended joiner's room is created. Without it an
  abort could hit a committed room.
* `InitialUsersInv`: while a room is being created, the users expected at the
  start are those expected now under others' reservations together with those
  recorded as removed. This is why an abort restores exactly that set.
* `GenerationsInv`: the counter of generations is never behind one in use, so
  what is reserved during a creation differs from what was reserved before it.
  This is why an abort leaves the earlier reservations alone.

`GameServerProofs` first states for each operator of `Game` which of these it
keeps, then has one lemma for each action. From `IInv` follow `TypeCorrect`,
`LeaseSafe`, `PlaceholderEmpty`, `DisconnectFinal`, `MembersUnique`,
`NoReservationLeak` and three action properties. `AbortIsClean` uses
`InitialUsersInv`. `ReservationsAreKept` goes through the actions that take from
the table of reservations and finds a reason for each: rollback and expiry
compare generations, a generation is given once, and an abort takes only what was
reserved since the lease was taken. `AdmissionsFit` counts seats:
a step that admits a member passed `ValidateJoin` on the room as it is at that
moment, and the member's own reservation, if it has one, becomes its seat.

`AnnouncedStay` (`AnnouncedAreMembers`) assumes `OneRequest`, that no connection
sends a second join. The run `committed_join` shows that it is false otherwise.
Its invariant is `PresenceInv`: a member's requests have passed the admission, so
none of them can be rolled back as if it had not; those of an announced member
have ended; and a disconnect that awaits OnLeave will announce the very actor
that was announced.

**Lobby.** `RegistryInv` is inductive (`RegistryInvariance`). It needs
`LiveListed`, that a live room is in its own lobby's list: the limit compares the
sizes of these lists, so they must not be too short. `RegistryIsExact` and
`RoomLimit` follow. `ListInv` extends it to the players' lists
(`ListInvariance`). The two properties speak of the list after the batch; the
invariant speaks of the list and the queue apart. `ViewBacked`: what is on the
list is shown, or the queue holds its deletion. `OpenReported`: an open room is
on the list with no deletion queued, or the queue holds an update of it that no
deletion follows. `UpdatesOwn`: queued updates are of rooms of the lobby. Sending
the batch turns these into `RoomListsAreSound` and `RoomListsAreComplete`.

**Room.** `RoomInv` is inductive (`RoomInvariant`). It needs `MasterSettled`:
unless the room is `unsettled`, the departure of the present master will be
announced (`Heralded`): its join was answered and, if it is leaving, it took the
snapshot for its Leave event when it was master already. In a room that is
`unsettled`, the players were told of a master who is gone or of the present one. `RoomWellTyped`,
`MasterIsKnown` and the action property `MasterIsSucceeded` follow. Its step
lemmas are used again by the proofs of the two extensions.

**RoomProperties.** `PropInv` extends `RoomInv` by `FreshUnset` (nothing is
known of actors that have not come yet, so an admission leaves the pictures
right) and `AwaitingKeyed`. `PropertiesWellTyped` and `PlayersAreCurrent` follow.
`UpdatesAreNotLost` compares two counts, of the requests that stored a value and
of those that expected and replaced it. `UpdateInv` makes that inductive
(`StoredBacked`): as long as the value is stored, one more replacement is paid for.

**RoomEvents.** `EventsInv` extends `RoomInv` by the properties themselves and
`EntriesSettled`: cached events, and those before them, are of requests that have
ended, so a request that is under way is nobody's predecessor; and the sender in
the cache is the one who raised the event or nobody, so the flood leaves out only
the joiner's own. Two steps put something at risk. The end of a join is made up
for by the flood, which sends all entries in their order; the end of a RaiseEvent
that is cached by the broadcast, which reaches every member but, perhaps, the
sender. `EventsWellTyped`, `CachedEventsReachPlayers`, `CacheIsInOrder` and
`RemovedArePurged` follow.

**IPC.** `IPCInv` is inductive. Its core is `StreamWhole`: the bytes in the two
buffers and the socket are the frames not yet returned, byte by byte, which no
split changes. It needs `FramesAdjoin`, that frames follow each other without a
gap: then the header at the front of the buffer is that of the next frame and
what is cut off is exactly that frame. `StreamIsWhole` follows, and with it
`IPCImplementsQueue`: `ReceiveMessage` returns the head of the queue, sending
appends, closing breaks, and all other steps leave the queue unchanged.

**PeerPersistence.** `PersistenceInv` is `TypeOK` and `KeptExpires`: each store
replaces the token's record and adds its own timer, and a timer that runs takes
exactly its own record. `KeptRecordsExpire` follows. The other two properties
need to know what is on the links.

* `HandoverInv`, for `SessionsAreHandedOver`: a consumption that is on its way to
  where a session was handed over is of an earlier use, and the new store comes
  behind it on the same link (`ConsumeRedone`). For a session that a connection
  holds, consumptions come from that connection's process only (`HolderConsumes`);
  when it stores the session again, the store is sent on the same links.
* `ConsumptionInv`, for `TokensAreConsumedOnce`, token by token: between two
  stores on a link there is a consumption (`StoresAlternate`); where the session
  is not handed over, each store on its way has a consumption behind it and each
  copy is about to be consumed (`ConsumeBehind`); a copy from before a store that
  is on its way is about to be consumed too (`StoreReplaces`); the stores on their
  way come from one process (`OneStorer`); and while a connection holds a
  session, nobody is handed it (`HolderAlone`).

The first formulation of `ConsumedOnce` held in the run and was false: the
attempt to prove it for more than two processes led to the sibling that is not
told and to copies consumed a second time (see section 3), which `outlived` now
names.

**Mirror.** `MirrorInv` adds `UpdatesLeave` to `OwnRoomNotExternal`: no update is
on a link towards the process of the room. It is kept because a copy passes an
update on to everybody but its sender, in a star of processes. `RoomStaysOwn`
follows, for any number of children. `PathInv` (`PathInvariance`) describes what
is on the links while the room lives. From the room to a neighbour
(`RoomPath`), updates come in the order of their publication and end with the
last one, and the neighbour's copy is at most one revision ahead of what it
shows: its own count passes the room's only when it has just applied a change.
From the parent to another child (`ForwardPath`), updates are alternately open
and closed and never older than the child's copy. `CopiesAreCurrent` and
`OpeningIsForwarded` follow once the links are empty.

Only model-checked: the liveness properties (`PendingResolved`, `CreationEnds`,
`ClosedPeerLeaves`, `DeletedRoomVanishes`, `WrittenIsDelivered`, `WaitEnds`,
`DeletedEverywhere`), which with fairness and ENABLED are beyond the prover.
`CommittedJoinKept` and `AbortEndsOwnReservations` are what comments of the code
claim; they are false, so they are no theorems.

## 5. Not modelled

See `components` in `PROJECT.json` for every part and the reason. Code that only
formats, parses, logs, measures or talks to the operating system, vendored
libraries, and the foreign-function layer stay outside. Within the modelled
parts, the following are left out: DeleteNullProps and updates of several
properties; UserId; plugins that change events or properties on the way;
unsolicited joins; SQL lobbies; the cut of the first room list at 500 entries;
the choice of a room by JoinRandomGame and the master server's own parked join;
the providers that authentication asks; two rooms of one name in two processes
at once; in `Mirror`, trees deeper than a parent and its children (the code
starts no others).

Most lines of the repository are the vendored `sqlite3.c`, `json.hpp`, `yaml.cpp`
and `wepoll.c` and the foreign-function layer, which hold no logic of the server;
the share of the server's own logic that is modelled is much larger than the
share of all lines.

## 6. Plan

The rooms came first, because all other parts exist to bring players into them:
`Game` and `GameServer`, then `Lobby`, then `Room` with its extensions; then the
processes: `IPC` over its abstract specification, `PeerPersistence`, `Mirror`.
Left, in this order:

1. **Proofs**: `AnnouncedAreMembers` with several requests per connection, as far
   as it holds (what exactly `rollback_join()` may remove).
2. **Routing**: JoinRandomGame, the master server's parked join and
   `owned_reservations_`, composed with `Game`; two processes that create rooms
   of one name, composed of `PeerPersistence` and `Mirror`.
3. **Rooms, completed**: DeleteNullProps and UserId in `RoomProperties`; the
   room as its players see it as an abstract specification of `GameServer`.
4. **Runtime**: the order of `run_once()`, completion against suspension in the
   coroutine library, `offset_map` against a map.
