-------------------------------- MODULE Lobby --------------------------------
(***************************************************************************)
(* The rooms of one application: App::games_, the lobbies' game lists      *)
(* (lobby.cpp, apps.cpp) and the room lists that the MasterServer's        *)
(* clients are shown (handler_masterserver.cpp).  Only lobbies of the      *)
(* default type keep their clients' lists up to date, and only those are   *)
(* modelled.                                                               *)
(*                                                                         *)
(* room[g]      the Game object g: whether it is unborn, live or deleted,  *)
(*              its id and lobby, and is_created, is_visible, is_open      *)
(* games[id]    App::games_                                                *)
(* listed[l]    Lobby::games: the rooms its weak pointers were made from,  *)
(*              those of deleted rooms included                            *)
(* client[c]    the MasterServerHandler of connection c:                   *)
(*   lobby        joined_lobby_                                            *)
(*   pending      pending_game_list_updates_: updates of a room (by weak   *)
(*                pointer) and deletions of a room id                      *)
(*   view         the room list its player has been sent: the first list   *)
(*                after JoinLobby with the later GameList events applied   *)
(*   stale        auxiliary: it entered the lobby with updates pending     *)
(*   missed       auxiliary: an update was dropped since it entered        *)
(***************************************************************************)
EXTENDS Naturals, Sequences, FiniteSets

CONSTANTS
    Games, NoGame,     \* Game objects, over the life of the application
    Ids, NoId,         \* room names
    Lobbies, NoLobby,
    Clients,           \* connections to the master server
    MaxGameCount,      \* max_game_count, 0 for no limit
    MaxPending,        \* 500: no update is queued behind that many entries
    MaxQueue           \* bound: rooms change only while the queues are shorter

ASSUME LobbyAssumption ==
    /\ IsFiniteSet(Games)
    /\ NoGame \notin Games /\ NoId \notin Ids /\ NoLobby \notin Lobbies
    /\ MaxGameCount \in Nat /\ MaxPending \in Nat /\ MaxQueue \in Nat

VARIABLES room, games, listed, client

vars == <<room, games, listed, client>>

Room == [state : {"unborn", "live", "deleted"}, id : Ids \cup {NoId},
         lobby : Lobbies \cup {NoLobby}, created : BOOLEAN, visible : BOOLEAN,
         open : BOOLEAN]

Update == [kind : {"update"}, of : Games] \cup [kind : {"delete"}, of : Ids]

Client == [lobby : Lobbies \cup {NoLobby}, pending : Seq(Update),
           view : SUBSET Ids, stale : BOOLEAN, missed : BOOLEAN]

Unborn == [state |-> "unborn", id |-> NoId, lobby |-> NoLobby, created |-> FALSE,
           visible |-> TRUE, open |-> TRUE]

NewClient == [lobby |-> NoLobby, pending |-> << >>, view |-> {},
              stale |-> FALSE, missed |-> FALSE]

Init ==
    /\ room = [g \in Games |-> Unborn]
    /\ games = [id \in Ids |-> NoGame]
    /\ listed = [l \in Lobbies |-> {}]
    /\ client = [c \in Clients |-> NewClient]

TypeOK ==
    /\ room \in [Games -> Room]
    /\ games \in [Ids -> Games \cup {NoGame}]
    /\ listed \in [Lobbies -> SUBSET Games]
    /\ client \in [Clients -> Client]

Live == {g \in Games : room[g].state = "live"}

-----------------------------------------------------------------------------
(* Counting and listing rooms. *)

\* App::get_game_count() adds up the sizes of the lobbies' lists; a room is in
\* the list of its own lobby only.
GameCount(lists) == Cardinality(UNION {lists[l] : l \in Lobbies})

MayCreate == MaxGameCount > 0 => GameCount(listed) < MaxGameCount

\* is_created && is_visible, on which a batched update decides.
Shown(g) == room[g].state = "live" /\ room[g].created /\ room[g].visible

\* get_game_list(): the live rooms of the lobby that are is_joinable().
GameList(l) == {room[g].id : g \in {h \in listed[l] : Shown(h) /\ room[h].open}}

-----------------------------------------------------------------------------
(* The subscribed handlers' queues. *)

Updated(g) == [kind |-> "update", of |-> g]
Deleted(id) == [kind |-> "delete", of |-> id]

\* Mutant: the limit also holds for deletions.
QueueBounded(k, u) ==
    IF Len(k.pending) < MaxPending
    THEN [k EXCEPT !.pending = Append(@, u)] ELSE [k EXCEPT !.missed = TRUE]

\* The callbacks that join_lobby() registers: game_update drops the update when
\* the queue is long, game_delete never does.
Queue(k, u) ==
    IF u.kind = "delete" \/ Len(k.pending) < MaxPending
    THEN [k EXCEPT !.pending = Append(@, u)] ELSE [k EXCEPT !.missed = TRUE]

\* One entry to every handler that joined lobby l.
Notify(k, l, u) ==
    [c \in Clients |-> IF k[c].lobby = l THEN Queue(k[c], u) ELSE k[c]]

\* insert_game_props(), of a room that was visible and open as before says and
\* becomes as now says: a room that is hidden is deleted from the lists, and
\* any change of the two is published.
Publish(k, g, before, now) ==
    LET l == before.lobby
        k1 == IF before.visible /\ ~now.visible THEN Notify(k, l, Deleted(before.id)) ELSE k
    IN  IF before.visible # now.visible \/ before.open # now.open
        THEN Notify(k1, l, Updated(g)) ELSE k1

\* A lobby is destroyed, with its list, once no room and no client holds it.
Kept(lists, r, k) ==
    [l \in Lobbies |->
        IF (\E g \in Games : r[g].state = "live" /\ r[g].lobby = l)
           \/ (\E c \in Clients : k[c].lobby = l)
        THEN lists[l] ELSE {}]

-----------------------------------------------------------------------------
(* Rooms. *)

\* Lobby::create_game(), for CreateGame, JoinGame and JoinRandomGame.
CreateGame(g, id, l) ==
    /\ room[g].state = "unborn"
    /\ games[id] = NoGame
    /\ MayCreate
    /\ room' = [room EXCEPT ![g] = [Unborn EXCEPT !.state = "live", !.id = id, !.lobby = l]]
    /\ games' = [games EXCEPT ![id] = g]
    /\ listed' = [listed EXCEPT ![l] = @ \cup {g}]
    /\ client' = Notify(client, l, Updated(g))

\* The creator's join completes: its properties are stored and the creation is
\* committed, which publishes the room.
CommitGame(g, visible, open) ==
    LET now == [room[g] EXCEPT !.created = TRUE, !.visible = visible, !.open = open] IN
    /\ room[g].state = "live" /\ ~room[g].created
    /\ room' = [room EXCEPT ![g] = now]
    /\ client' = Notify(Publish(client, g, room[g], now), now.lobby, Updated(g))
    /\ UNCHANGED <<games, listed>>

QueuesShort == \A c \in Clients : Len(client[c].pending) < MaxQueue

\* A member sets IsVisible or IsOpen.
SetGameProps(g, visible, open) ==
    LET now == [room[g] EXCEPT !.visible = visible, !.open = open] IN
    /\ room[g].state = "live" /\ room[g].created
    /\ QueuesShort
    /\ room' = [room EXCEPT ![g] = now]
    /\ client' = Publish(client, g, room[g], now)
    /\ UNCHANGED <<games, listed>>

\* trigger_lobby_update() after a join, a leave or an aborted creation.
TriggerLobbyUpdate(g) ==
    /\ room[g].state = "live"
    /\ client' = Notify(client, room[g].lobby, Updated(g))
    /\ UNCHANGED <<room, games, listed>>

\* Mutant: a hidden room keeps its name.
UnregisteredIfVisible(g) ==
    IF room[g].visible THEN [games EXCEPT ![room[g].id] = NoGame] ELSE games

Unregistered(g) == [games EXCEPT ![room[g].id] = NoGame]

\* Mutant: a room that is deleted is not announced.
DeleteSilently(g) == client

DeleteAnnounced(g) ==
    IF room[g].visible THEN Notify(client, room[g].lobby, Deleted(room[g].id)) ELSE client

\* The room's last reference goes and create_game()'s deleter runs.  Its search
\* in the lobby's list compares expired weak pointers with the room: it finds
\* nothing, and the entry stays.
DeleteGame(g) ==
    /\ room[g].state = "live"
    /\ room' = [room EXCEPT ![g].state = "deleted"]
    /\ games' = Unregistered(g)
    /\ client' = DeleteAnnounced(g)
    /\ listed' = Kept(listed, room', client')

-----------------------------------------------------------------------------
(* Clients. *)

\* JoinLobby, also out of another lobby or into the same one again.  What is
\* pending stays pending; the player gets the whole list.
JoinLobby(c, l) ==
    /\ client' = [client EXCEPT ![c].lobby = l,
                                ![c].view = GameList(l),
                                ![c].stale = client[c].pending # << >>,
                                ![c].missed = FALSE]
    /\ listed' = Kept(listed, room, client')
    /\ UNCHANGED <<room, games>>

LeaveLobby(c) ==
    /\ client[c].lobby # NoLobby
    /\ client' = [client EXCEPT ![c].lobby = NoLobby]
    /\ listed' = Kept(listed, room, client')
    /\ UNCHANGED <<room, games>>

\* The handler is destroyed and with it joined_lobby_ and the queue.
Disconnect(c) ==
    /\ client[c] # NewClient
    /\ client' = [client EXCEPT ![c] = NewClient]
    /\ listed' = Kept(listed, room, client')
    /\ UNCHANGED <<room, games>>

\* Whether entry u of a queue says something of the room id: an update whose
\* weak pointer has expired does not.
Concerns(u, id) ==
    \/ u.kind = "delete" /\ u.of = id
    \/ u.kind = "update" /\ room[u.of].state = "live" /\ room[u.of].id = id

\* Mutant: the first entry about a room decides.
ViewAfterFirst(k) ==
    {id \in Ids :
        LET about == {i \in 1 .. Len(k.pending) : Concerns(k.pending[i], id)}
            first == k.pending[CHOOSE i \in about : \A j \in about : i <= j]
        IN  IF about = {} THEN id \in k.view
            ELSE first.kind = "update" /\ Shown(first.of)}

\* The list after the batch: the last entry about a room decides.
ViewAfter(k) ==
    {id \in Ids :
        LET about == {i \in 1 .. Len(k.pending) : Concerns(k.pending[i], id)}
            last == k.pending[CHOOSE i \in about : \A j \in about : j <= i]
        IN  IF about = {} THEN id \in k.view
            ELSE last.kind = "update" /\ Shown(last.of)}

\* HandleSlowUpdate(), every 5000 ms.
SendGameListUpdates(c) ==
    /\ client[c].pending # << >>
    /\ client' = [client EXCEPT ![c].view = ViewAfter(client[c]),
                                ![c].pending = << >>]
    /\ UNCHANGED <<room, games, listed>>

Next ==
    \/ \E g \in Games :
          \/ \E id \in Ids, l \in Lobbies : CreateGame(g, id, l)
          \/ \E visible, open \in BOOLEAN :
                CommitGame(g, visible, open) \/ SetGameProps(g, visible, open)
          \/ TriggerLobbyUpdate(g)
          \/ DeleteGame(g)
    \/ \E c \in Clients :
          \/ \E l \in Lobbies : JoinLobby(c, l)
          \/ LeaveLobby(c)
          \/ Disconnect(c)
          \/ SendGameListUpdates(c)

Spec == Init /\ [][Next]_vars

-----------------------------------------------------------------------------
(* Properties. *)

\* App::games_ maps a name to a room exactly while that room lives: a name is
\* free again after the deleter ran, and JoinGame never finds an expired room
\* under a name ("Game has expired").
RegistryExact ==
    \A id \in Ids, g \in Games :
        games[id] = g <=> room[g].state = "live" /\ room[g].id = id

\* However rooms come and go in the lobbies, the application never has more
\* rooms than max_game_count.
LimitRespected == MaxGameCount > 0 => Cardinality(Live) <= MaxGameCount

Subscribed(c) == client[c].lobby # NoLobby /\ ~client[c].stale

\* A player who entered the lobby with an empty queue sees no ghost room: once
\* the batch is sent, every room on the list exists, is created, visible and of
\* this lobby, whatever updates the full queue dropped and whatever rooms were
\* hidden, deleted and created again under the same name meanwhile.
RoomListSound ==
    \A c \in Clients : Subscribed(c) =>
        \A id \in ViewAfter(client[c]) :
            \E g \in Games : Shown(g) /\ room[g].id = id /\ room[g].lobby = client[c].lobby

\* Unless an update was dropped, every visible and open room of the lobby is on
\* the list once the batch is sent.
RoomListComplete ==
    \A c \in Clients : Subscribed(c) /\ ~client[c].missed =>
        \A g \in Games :
            Shown(g) /\ room[g].open /\ room[g].lobby = client[c].lobby =>
                room[g].id \in ViewAfter(client[c])

\* run_once() calls HandleSlowUpdate() of every connection.
UpdateFairness == \A c \in Clients : WF_vars(SendGameListUpdates(c))

FairSpec == Spec /\ UpdateFairness

SeesGhost(c, id) == Subscribed(c) /\ id \in client[c].view /\ games[id] = NoGame

\* The name of a room that was deleted does not stay on a player's list.
DeletedRoomVanishes ==
    \A c \in Clients, id \in Ids : SeesGhost(c, id) ~> ~SeesGhost(c, id)

-----------------------------------------------------------------------------
(* The inductive invariant of the registry. *)

\* A live room has a name and is in the list of its own lobby.
LiveListed ==
    \A g \in Live :
        room[g].id \in Ids /\ room[g].lobby \in Lobbies /\ g \in listed[room[g].lobby]

RegistryInv ==
    /\ TypeOK
    /\ RegistryExact
    /\ LiveListed
    /\ LimitRespected

-----------------------------------------------------------------------------
(* The inductive invariant of the room lists. *)

\* A lobby lists only rooms that were created in it.
ListedOwn ==
    \A l \in Lobbies : \A g \in listed[l] :
        room[g].state # "unborn" /\ room[g].lobby = l

\* The queue p holds the deletion of a room id.
HasDelete(p, id) == \E i \in 1 .. Len(p) : p[i] = Deleted(id)

\* The queue p holds an update of g that no deletion of the room id follows.
Announces(p, g, id) ==
    \E i \in 1 .. Len(p) :
        p[i] = Updated(g) /\ \A j \in 1 .. Len(p) : i < j => p[j] # Deleted(id)

\* The updates in the queue p are of rooms that were created in lobby l.
OwnUpdates(p, l) ==
    \A i \in 1 .. Len(p) :
        p[i].kind = "update" =>
            room[p[i].of].state # "unborn" /\ room[p[i].of].lobby = l

UpdatesOwn ==
    \A c \in Clients : Subscribed(c) => OwnUpdates(client[c].pending, client[c].lobby)

\* Some room of lobby l with that id is shown.
HasShown(l, id) ==
    \E g \in Games : Shown(g) /\ room[g].id = id /\ room[g].lobby = l

\* A room on a player's list is shown, or its deletion is on the way.
ViewBacked ==
    \A c \in Clients : Subscribed(c) =>
        \A id \in client[c].view :
            HasShown(client[c].lobby, id) \/ HasDelete(client[c].pending, id)

\* A room that players can join is on the list with no deletion on the way, or
\* an update is on the way that no deletion undoes.
Reported(k, g) ==
    \/ room[g].id \in k.view /\ ~HasDelete(k.pending, room[g].id)
    \/ Announces(k.pending, g, room[g].id)

OpenReported ==
    \A c \in Clients : Subscribed(c) /\ ~client[c].missed =>
        \A g \in Games :
            Shown(g) /\ room[g].open /\ room[g].lobby = client[c].lobby =>
                Reported(client[c], g)

ListInv ==
    /\ RegistryInv
    /\ ListedOwn
    /\ UpdatesOwn
    /\ ViewBacked
    /\ OpenReported
=============================================================================
