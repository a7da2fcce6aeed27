----------------------------- MODULE LobbyProofs -----------------------------
(***************************************************************************)
(* The registry of rooms is exact, the room limit is respected and the     *)
(* players' room lists are sound and complete, for any rooms, names,       *)
(* lobbies and clients.                                                    *)
(***************************************************************************)
EXTENDS Lobby, FiniteSetTheorems, WellFoundedInduction, TLAPS

ClientMap == [Clients -> Client]

\* A queue entry for the subscribers keeps the handlers well-formed.
LEMMA NotifyType ==
    ASSUME NEW k \in ClientMap, NEW l, NEW u \in Update
    PROVE  Notify(k, l, u) \in ClientMap
<1>1. SUFFICES ASSUME NEW c \in Clients
               PROVE  Queue(k[c], u) \in Client
  BY DEF ClientMap, Notify
<1>2. k[c] \in Client
  BY DEF ClientMap
<1>3. Append(k[c].pending, u) \in Seq(Update)
  BY <1>2 DEF Client
<1> QED
  BY <1>2, <1>3 DEF Queue, Client

LEMMA UpdateTypes ==
    /\ \A g \in Games : Updated(g) \in Update
    /\ \A id \in Ids : Deleted(id) \in Update
BY DEF Updated, Deleted, Update

LEMMA PublishType ==
    ASSUME NEW k \in ClientMap, NEW g \in Games, NEW before, NEW now,
           before.id \in Ids
    PROVE  Publish(k, g, before, now) \in ClientMap
<1> DEFINE k1 == IF before.visible /\ ~now.visible
                 THEN Notify(k, before.lobby, Deleted(before.id)) ELSE k
<1>1. k1 \in ClientMap
  BY NotifyType, UpdateTypes
<1>2. Notify(k1, before.lobby, Updated(g)) \in ClientMap
  <2> HIDE DEF k1
  <2> QED BY <1>1, NotifyType, UpdateTypes
<1> QED
  BY <1>1, <1>2 DEF Publish

\* A lobby that still has a room keeps its list.
LEMMA KeptLive ==
    ASSUME NEW lists \in [Lobbies -> SUBSET Games], NEW r, NEW k
    PROVE  /\ Kept(lists, r, k) \in [Lobbies -> SUBSET Games]
           /\ \A g \in Games : r[g].state = "live" /\ r[g].lobby \in Lobbies =>
                 Kept(lists, r, k)[r[g].lobby] = lists[r[g].lobby]
BY DEF Kept

\* The rooms that live are among those the lobbies list, so counting the lists
\* never counts too few.
LEMMA CountCoversLive ==
    ASSUME TypeOK, LiveListed
    PROVE  /\ Cardinality(Live) \in Nat
           /\ GameCount(listed) \in Nat
           /\ Cardinality(Live) <= GameCount(listed)
<1> DEFINE all == UNION {listed[l] : l \in Lobbies}
<1>1. all \subseteq Games
  BY DEF TypeOK
<1>2. Live \subseteq all
  BY DEF LiveListed
<1>3. IsFiniteSet(Games)
  BY LobbyAssumption
<1>4. IsFiniteSet(all)
  BY <1>1, <1>3, FS_Subset
<1>5. IsFiniteSet(Live) /\ Cardinality(Live) <= Cardinality(all)
  BY <1>2, <1>4, FS_Subset
<1>6. Cardinality(Live) \in Nat /\ Cardinality(all) \in Nat
  BY <1>4, <1>5, FS_CardinalityType
<1> QED
  BY <1>5, <1>6 DEF GameCount

LEMMA InitRegistry == Init => RegistryInv
<1> SUFFICES ASSUME Init PROVE RegistryInv
  OBVIOUS
<1> USE LobbyAssumption
<1>1. TypeOK
  BY DEF Init, TypeOK, Unborn, NewClient, Room, Client
<1>2. Live = {}
  BY DEF Init, Live, Unborn
<1>3. RegistryExact
  BY DEF Init, RegistryExact, Unborn
<1>4. LiveListed
  BY <1>2 DEF LiveListed
<1>5. LimitRespected
  BY <1>2, FS_EmptySet DEF LimitRespected
<1> QED
  BY <1>1, <1>3, <1>4, <1>5 DEF RegistryInv

\* A step that creates and deletes no room and takes no list from a lobby with a
\* room in it.
LEMMA QuietStep ==
    ASSUME RegistryInv, TypeOK', games' = games,
           \A g \in Games : /\ room'[g].state = room[g].state
                            /\ room'[g].id = room[g].id
                            /\ room'[g].lobby = room[g].lobby,
           \A g \in Live : listed'[room[g].lobby] = listed[room[g].lobby]
    PROVE  RegistryInv'
<1> USE DEF RegistryInv
<1>1. Live' = Live
  BY DEF Live
<1>2. RegistryExact'
  BY DEF RegistryExact
<1>3. LiveListed'
  BY <1>1 DEF LiveListed, Live
<1>4. LimitRespected'
  BY <1>1 DEF LimitRespected
<1> QED
  BY <1>2, <1>3, <1>4

LEMMA CreateGameInv ==
    ASSUME RegistryInv, NEW g \in Games, NEW id \in Ids, NEW l \in Lobbies,
           CreateGame(g, id, l)
    PROVE  RegistryInv'
<1> USE DEF RegistryInv, CreateGame
<1>1. TypeOK'
  <2>1. client' \in ClientMap
    BY NotifyType, UpdateTypes DEF TypeOK, ClientMap
  <2>2. room' \in [Games -> Room]
    BY DEF TypeOK, Room, Unborn
  <2>3. games' \in [Ids -> Games \cup {NoGame}] /\ listed' \in [Lobbies -> SUBSET Games]
    BY DEF TypeOK
  <2> QED
    BY <2>1, <2>2, <2>3 DEF TypeOK, ClientMap
<1>2. Live' = Live \cup {g} /\ g \notin Live
  BY DEF Live, TypeOK, Unborn
<1>3. RegistryExact'
  <2> SUFFICES ASSUME NEW i \in Ids, NEW h \in Games
               PROVE  games'[i] = h <=> room'[h].state = "live" /\ room'[h].id = i
    BY DEF RegistryExact
  <2>1. games[i] = h <=> room[h].state = "live" /\ room[h].id = i
    BY DEF RegistryExact
  <2>2. \A f \in Games : ~(room[f].state = "live" /\ room[f].id = id)
    BY LobbyAssumption DEF RegistryExact
  <2>3. CASE h = g
    BY <2>1, <2>3 DEF TypeOK, Unborn
  <2>4. CASE h # g
    BY <2>1, <2>2, <2>4 DEF TypeOK, Unborn
  <2> QED
    BY <2>3, <2>4
<1>4. LiveListed'
  BY <1>2 DEF LiveListed, Live, TypeOK, Unborn
<1>5. LimitRespected'
  <2>1. SUFFICES ASSUME MaxGameCount > 0 PROVE Cardinality(Live') <= MaxGameCount
    BY DEF LimitRespected
  <2>2. IsFiniteSet(Live)
    BY LobbyAssumption, FS_Subset DEF Live
  <2>3. Cardinality(Live') = Cardinality(Live) + 1
    BY <1>2, <2>2, FS_AddElement
  <2>4. GameCount(listed) < MaxGameCount
    BY <2>1 DEF MayCreate
  <2> QED
    BY <2>3, <2>4, CountCoversLive, LobbyAssumption
<1> QED
  BY <1>1, <1>3, <1>4, <1>5

LEMMA DeleteGameInv ==
    ASSUME RegistryInv, NEW g \in Games, DeleteGame(g)
    PROVE  RegistryInv'
<1> USE DEF RegistryInv, DeleteGame
<1>0. g \in Live /\ room[g].id \in Ids
  BY DEF LiveListed, Live
<1>1. TypeOK'
  <2>1. client' \in ClientMap
    BY <1>0, NotifyType, UpdateTypes DEF TypeOK, ClientMap, DeleteAnnounced
  <2>2. room' \in [Games -> Room]
    BY DEF TypeOK, Room
  <2>3. games' \in [Ids -> Games \cup {NoGame}]
    BY DEF TypeOK, Unregistered
  <2>4. listed' \in [Lobbies -> SUBSET Games]
    BY KeptLive DEF TypeOK
  <2> QED
    BY <2>1, <2>2, <2>3, <2>4 DEF TypeOK, ClientMap
<1>2. Live' = Live \ {g}
  BY DEF Live, TypeOK
<1>3. RegistryExact'
  <2> SUFFICES ASSUME NEW i \in Ids, NEW h \in Games
               PROVE  games'[i] = h <=> room'[h].state = "live" /\ room'[h].id = i
    BY DEF RegistryExact
  <2>1. games[i] = h <=> room[h].state = "live" /\ room[h].id = i
    BY DEF RegistryExact
  <2>2. games[room[g].id] = g
    BY <1>0 DEF RegistryExact
  <2>3. CASE h = g
    BY <2>1, <2>2, <2>3, LobbyAssumption DEF TypeOK, Unregistered
  <2>4. CASE h # g
    BY <2>1, <2>2, <2>4, LobbyAssumption DEF TypeOK, Unregistered
  <2> QED
    BY <2>3, <2>4
<1>4. LiveListed'
  <2> SUFFICES ASSUME NEW h \in Live'
               PROVE  /\ room'[h].id \in Ids /\ room'[h].lobby \in Lobbies
                      /\ h \in listed'[room'[h].lobby]
    BY DEF LiveListed
  <2>1. h \in Live /\ h # g /\ room'[h] = room[h]
    BY <1>2 DEF Live, TypeOK
  <2>2. /\ room[h].id \in Ids /\ room[h].lobby \in Lobbies
        /\ h \in listed[room[h].lobby]
    BY <2>1 DEF LiveListed
  <2>3. listed'[room'[h].lobby] = listed[room'[h].lobby]
    <3>1. h \in Games /\ room'[h].state = "live"
      BY DEF Live
    <3>2. room'[h].lobby \in Lobbies
      BY <2>1, <2>2
    <3>3. listed \in [Lobbies -> SUBSET Games]
      BY DEF TypeOK
    <3>4. Kept(listed, room', client')[room'[h].lobby] = listed[room'[h].lobby]
      BY <3>1, <3>2, <3>3 DEF Kept
    <3> QED
      BY <3>4
  <2> QED
    BY <2>1, <2>2, <2>3
<1>5. LimitRespected'
  <2>1. IsFiniteSet(Live)
    BY LobbyAssumption, FS_Subset DEF Live
  <2>2. Cardinality(Live') \in Nat /\ Cardinality(Live) \in Nat
        /\ Cardinality(Live') <= Cardinality(Live)
    BY <1>2, <2>1, FS_Subset, FS_CardinalityType
  <2> QED
    BY <2>2, LobbyAssumption DEF LimitRespected
<1> QED
  BY <1>1, <1>3, <1>4, <1>5

\* A step of a client that keeps the handlers well-formed.
LEMMA ClientStepInv ==
    ASSUME RegistryInv, client' \in ClientMap, room' = room, games' = games,
           \/ listed' = listed
           \/ listed' = Kept(listed, room, client')
    PROVE  RegistryInv'
<1>1. listed' \in [Lobbies -> SUBSET Games]
  BY KeptLive DEF RegistryInv, TypeOK
<1>2. TypeOK'
  BY <1>1 DEF RegistryInv, TypeOK, ClientMap
<1>3. ASSUME NEW g \in Live
      PROVE  listed'[room[g].lobby] = listed[room[g].lobby]
  <2>1. g \in Games /\ room[g].state = "live" /\ room[g].lobby \in Lobbies
    BY DEF RegistryInv, LiveListed, Live
  <2> QED
    BY <2>1, KeptLive DEF RegistryInv, TypeOK
<1> QED
  BY <1>2, <1>3, QuietStep

LEMMA RoomStepInv ==
    ASSUME RegistryInv, NEW g \in Games, NEW visible \in BOOLEAN, NEW open \in BOOLEAN,
           CommitGame(g, visible, open) \/ SetGameProps(g, visible, open)
    PROVE  RegistryInv'
<1>1. room[g].state = "live" /\ room[g].id \in Ids
  BY DEF CommitGame, SetGameProps, RegistryInv, LiveListed, Live
<1>2. /\ room' \in [Games -> Room] /\ games' = games /\ listed' = listed
      /\ \A h \in Games : /\ room'[h].state = room[h].state
                          /\ room'[h].id = room[h].id
                          /\ room'[h].lobby = room[h].lobby
  <2>1. room \in [Games -> Room]
    BY DEF RegistryInv, TypeOK
  <2>2. CASE CommitGame(g, visible, open)
    BY <2>1, <2>2 DEF CommitGame, Room
  <2>3. CASE SetGameProps(g, visible, open)
    BY <2>1, <2>3 DEF SetGameProps, Room
  <2> QED
    BY <2>2, <2>3
<1>3. client' \in ClientMap
  <2> DEFINE now == [room[g] EXCEPT !.created = TRUE, !.visible = visible, !.open = open]
             set == [room[g] EXCEPT !.visible = visible, !.open = open]
  <2>1. client \in ClientMap
    BY DEF RegistryInv, TypeOK, ClientMap
  <2>2. /\ Publish(client, g, room[g], now) \in ClientMap
        /\ Publish(client, g, room[g], set) \in ClientMap
    BY <1>1, <2>1, PublishType
  <2>3. CASE CommitGame(g, visible, open)
    <3>1. client' = Notify(Publish(client, g, room[g], now), now.lobby, Updated(g))
      BY <2>3 DEF CommitGame
    <3> QED
      BY <2>2, <3>1, NotifyType, UpdateTypes
  <2>4. CASE SetGameProps(g, visible, open)
    BY <2>2, <2>4 DEF SetGameProps
  <2> QED
    BY <2>3, <2>4
<1>4. TypeOK'
  BY <1>2, <1>3 DEF RegistryInv, TypeOK, ClientMap
<1> QED
  BY <1>2, <1>4, QuietStep

LEMMA NextRegistry == RegistryInv /\ [Next]_vars => RegistryInv'
<1> SUFFICES ASSUME RegistryInv, [Next]_vars PROVE RegistryInv'
  OBVIOUS
<1>0. client \in ClientMap
  BY DEF RegistryInv, TypeOK, ClientMap
<1>1. CASE UNCHANGED vars
  BY <1>0, <1>1, ClientStepInv DEF vars
<1>2. ASSUME NEW g \in Games, NEW id \in Ids, NEW l \in Lobbies, CreateGame(g, id, l)
      PROVE  RegistryInv'
  BY <1>2, CreateGameInv
<1>3. ASSUME NEW g \in Games, NEW visible \in BOOLEAN, NEW open \in BOOLEAN,
             CommitGame(g, visible, open) \/ SetGameProps(g, visible, open)
      PROVE  RegistryInv'
  BY <1>3, RoomStepInv
<1>4. ASSUME NEW g \in Games, TriggerLobbyUpdate(g)
      PROVE  RegistryInv'
  BY <1>0, <1>4, NotifyType, UpdateTypes, ClientStepInv DEF TriggerLobbyUpdate
<1>5. ASSUME NEW g \in Games, DeleteGame(g)
      PROVE  RegistryInv'
  BY <1>5, DeleteGameInv
<1>6. ASSUME NEW c \in Clients, NEW l \in Lobbies, JoinLobby(c, l)
      PROVE  RegistryInv'
  <2>1. GameList(l) \subseteq Ids
    BY DEF GameList, Shown, RegistryInv, LiveListed, Live, TypeOK
  <2>2. client' \in ClientMap
    BY <1>0, <1>6, <2>1 DEF JoinLobby, ClientMap, Client
  <2> QED
    BY <1>6, <2>2, ClientStepInv DEF JoinLobby
<1>7. ASSUME NEW c \in Clients, LeaveLobby(c)
      PROVE  RegistryInv'
  <2>1. client' \in ClientMap
    BY <1>0, <1>7 DEF LeaveLobby, ClientMap, Client
  <2> QED
    BY <1>7, <2>1, ClientStepInv DEF LeaveLobby
<1>8. ASSUME NEW c \in Clients, Disconnect(c)
      PROVE  RegistryInv'
  <2>1. client' \in ClientMap
    BY <1>0, <1>8 DEF Disconnect, ClientMap, Client, NewClient
  <2> QED
    BY <1>8, <2>1, ClientStepInv DEF Disconnect
<1>9. ASSUME NEW c \in Clients, SendGameListUpdates(c)
      PROVE  RegistryInv'
  <2>1. ViewAfter(client[c]) \subseteq Ids
    BY DEF ViewAfter
  <2>2. client' \in ClientMap
    BY <1>0, <1>9, <2>1 DEF SendGameListUpdates, ClientMap, Client
  <2> QED
    BY <1>9, <2>2, ClientStepInv DEF SendGameListUpdates
<1> QED
  BY <1>1, <1>2, <1>3, <1>4, <1>5, <1>6, <1>7, <1>8, <1>9 DEF Next

\* The invariant of the registry holds in every reachable state.
THEOREM RegistryInvariance == Spec => []RegistryInv
BY InitRegistry, NextRegistry, PTL DEF Spec

\* Lobby::create_game() and its deleter keep App::games_ exact: a name is taken
\* exactly while its room lives.
THEOREM RegistryIsExact == Spec => []RegistryExact
<1>1. RegistryInv => RegistryExact
  BY DEF RegistryInv
<1> QED
  BY <1>1, RegistryInvariance, PTL

\* Although the lobbies' lists keep entries of deleted rooms, the number of live
\* rooms never passes max_game_count.
THEOREM RoomLimit == Spec => []LimitRespected
<1>1. RegistryInv => LimitRespected
  BY DEF RegistryInv
<1> QED
  BY <1>1, RegistryInvariance, PTL

-----------------------------------------------------------------------------
(* The room lists. *)

LEMMA AppendDelete ==
    ASSUME NEW p \in Seq(Update), NEW u \in Update, NEW id
    PROVE  HasDelete(Append(p, u), id) <=> HasDelete(p, id) \/ u = Deleted(id)
<1>1. /\ Len(Append(p, u)) = Len(p) + 1 /\ Len(p) \in Nat
      /\ \A i \in 1 .. Len(p) : Append(p, u)[i] = p[i]
      /\ Append(p, u)[Len(p) + 1] = u
  OBVIOUS
<1> HIDE DEF Deleted
<1> QED
  BY <1>1 DEF HasDelete

LEMMA UpdateNotDelete ==
    ASSUME NEW g, NEW id PROVE Updated(g) # Deleted(id)
<1>1. Updated(g).kind = "update" /\ Deleted(id).kind = "delete"
  BY DEF Updated, Deleted
<1> QED
  BY <1>1

\* An update at the end of the queue announces its room.
LEMMA AppendUpdate ==
    ASSUME NEW p \in Seq(Update), NEW g \in Games, NEW id
    PROVE  Announces(Append(p, Updated(g)), g, id)
<1> DEFINE q == Append(p, Updated(g))
<1>1. Updated(g) \in Update
  BY UpdateTypes
<1>2. Len(q) = Len(p) + 1 /\ Len(p) \in Nat /\ q[Len(q)] = Updated(g)
  BY <1>1
<1>3. Len(q) \in 1 .. Len(q) /\ \A j \in 1 .. Len(q) : ~(Len(q) < j)
  BY <1>2
<1> QED
  BY <1>2, <1>3 DEF Announces

\* Nothing but a deletion of that id takes an announcement back.
LEMMA AppendKeepsAnnounced ==
    ASSUME NEW p \in Seq(Update), NEW u \in Update, NEW g, NEW id,
           Announces(p, g, id), u # Deleted(id)
    PROVE  Announces(Append(p, u), g, id)
<1>1. /\ Len(Append(p, u)) = Len(p) + 1 /\ Len(p) \in Nat
      /\ \A i \in 1 .. Len(p) : Append(p, u)[i] = p[i]
      /\ Append(p, u)[Len(p) + 1] = u
  OBVIOUS
<1>2. PICK i \in 1 .. Len(p) :
         p[i] = Updated(g) /\ \A j \in 1 .. Len(p) : i < j => p[j] # Deleted(id)
  BY DEF Announces
<1>3. i \in 1 .. Len(Append(p, u)) /\ Append(p, u)[i] = Updated(g)
  BY <1>1, <1>2
<1>4. ASSUME NEW j \in 1 .. Len(Append(p, u)), i < j
      PROVE  Append(p, u)[j] # Deleted(id)
  <2>1. CASE j = Len(p) + 1
    BY <1>1, <2>1
  <2>2. CASE j # Len(p) + 1
    <3>1. j \in 1 .. Len(p)
      BY <1>1, <2>2
    <3> QED
      BY <1>1, <1>2, <1>4, <3>1
  <2> QED
    BY <2>1, <2>2
<1> QED
  BY <1>3, <1>4 DEF Announces

\* What queueing updates of room g and deletions of its id for the handlers of
\* lobby l does to the handler k that becomes n.
Follows(k, n, g, id, l) ==
    /\ n.lobby = k.lobby /\ n.view = k.view /\ n.stale = k.stale
    /\ k.missed => n.missed
    /\ \A i \in Ids : HasDelete(k.pending, i) => HasDelete(n.pending, i)
    /\ \A i \in Ids \ {id} : HasDelete(n.pending, i) => HasDelete(k.pending, i)
    /\ \A i \in Ids \ {id}, h \in Games :
          Announces(k.pending, h, i) => Announces(n.pending, h, i)
    /\ \A j \in 1 .. Len(n.pending) :
          n.pending[j].kind = "update" =>
              \/ k.lobby = l /\ n.pending[j].of = g
              \/ \E m \in 1 .. Len(k.pending) : n.pending[j] = k.pending[m]

LEMMA FollowsRefl ==
    ASSUME NEW k, NEW g, NEW id, NEW l PROVE Follows(k, k, g, id, l)
BY DEF Follows

LEMMA FollowsTrans ==
    ASSUME NEW k, NEW m, NEW n, NEW g, NEW id, NEW l,
           Follows(k, m, g, id, l), Follows(m, n, g, id, l)
    PROVE  Follows(k, n, g, id, l)
<1>1. ASSUME NEW j \in 1 .. Len(n.pending), n.pending[j].kind = "update"
      PROVE  \/ k.lobby = l /\ n.pending[j].of = g
             \/ \E i \in 1 .. Len(k.pending) : n.pending[j] = k.pending[i]
  <2>1. CASE m.lobby = l /\ n.pending[j].of = g
    BY <2>1 DEF Follows
  <2>2. CASE \E i \in 1 .. Len(m.pending) : n.pending[j] = m.pending[i]
    <3>1. PICK i \in 1 .. Len(m.pending) : n.pending[j] = m.pending[i]
      BY <2>2
    <3> QED
      BY <1>1, <3>1 DEF Follows
  <2> QED
    BY <1>1, <2>1, <2>2 DEF Follows
<1> QED
  BY <1>1, Zenon DEF Follows

LEMMA QueueFollows ==
    ASSUME NEW k \in Client, NEW g \in Games, NEW id \in Ids,
           NEW u \in {Updated(g), Deleted(id)}
    PROVE  /\ Follows(k, Queue(k, u), g, id, k.lobby)
           /\ u = Updated(g) =>
                 \A i \in Ids : Queue(k, u).missed \/ Announces(Queue(k, u).pending, g, i)
           /\ u = Deleted(id) => HasDelete(Queue(k, u).pending, id)
<1> DEFINE n == Queue(k, u)
           p == k.pending
<1>1. u \in Update /\ p \in Seq(Update)
  BY UpdateTypes DEF Client
<1>2. /\ n.lobby = k.lobby /\ n.view = k.view /\ n.stale = k.stale
      /\ k.missed => n.missed
      /\ \/ n.pending = Append(p, u)
         \/ n.pending = p /\ n.missed /\ u.kind # "delete"
  BY DEF Queue, Client
<1>3. u = Deleted(id) => u.kind = "delete"
  BY DEF Deleted
<1>4. CASE n.pending = Append(p, u)
  <2>1. \A i \in Ids : HasDelete(n.pending, i) <=> HasDelete(p, i) \/ u = Deleted(i)
    BY <1>1, <1>4, AppendDelete
  <2>2. \A i \in Ids \ {id} : u # Deleted(i)
    BY UpdateNotDelete DEF Deleted
  <2>3. \A i \in Ids \ {id}, h \in Games : Announces(p, h, i) => Announces(n.pending, h, i)
    BY <1>1, <1>4, <2>2, AppendKeepsAnnounced
  <2>4. /\ Len(n.pending) = Len(p) + 1 /\ Len(p) \in Nat
        /\ \A i \in 1 .. Len(p) : n.pending[i] = p[i]
        /\ n.pending[Len(p) + 1] = u
    BY <1>1, <1>4
  <2>5. u.kind = "update" => u.of = g
    BY DEF Updated, Deleted
  <2>6. ASSUME NEW j \in 1 .. Len(n.pending), n.pending[j].kind = "update"
        PROVE  \/ n.pending[j].of = g
               \/ \E m \in 1 .. Len(p) : n.pending[j] = p[m]
    <3>1. j \in 1 .. Len(p) \/ j = Len(p) + 1
      BY <2>4
    <3>2. CASE j \in 1 .. Len(p)
      BY <2>4, <3>2
    <3>3. CASE j = Len(p) + 1
      BY <2>4, <2>5, <2>6, <3>3
    <3> QED
      BY <3>1, <3>2, <3>3
  <2>7. Follows(k, n, g, id, k.lobby)
    <3> HIDE DEF n
    <3> QED
      BY <1>2, <2>1, <2>2, <2>3, <2>6 DEF Follows
  <2>8. u = Updated(g) => \A i \in Ids : Announces(n.pending, g, i)
    BY <1>1, <1>4, AppendUpdate
  <2> QED
    BY <2>1, <2>7, <2>8
<1>5. CASE n.pending = p /\ n.missed /\ u.kind # "delete"
  <2>1. Follows(k, n, g, id, k.lobby)
    <3> HIDE DEF n
    <3> QED
      BY <1>2, <1>5 DEF Follows
  <2> QED
    BY <1>3, <1>5, <2>1
<1> QED
  BY <1>2, <1>4, <1>5

LEMMA NotifyFollows ==
    ASSUME NEW k \in ClientMap, NEW g \in Games, NEW id \in Ids, NEW l,
           NEW u \in {Updated(g), Deleted(id)}, NEW c \in Clients
    PROVE  /\ Follows(k[c], Notify(k, l, u)[c], g, id, l)
           /\ k[c].lobby = l /\ u = Updated(g) =>
                 \A i \in Ids : \/ Notify(k, l, u)[c].missed
                                \/ Announces(Notify(k, l, u)[c].pending, g, i)
           /\ k[c].lobby = l /\ u = Deleted(id) => HasDelete(Notify(k, l, u)[c].pending, id)
<1>1. k[c] \in Client
  BY DEF ClientMap
<1>2. Notify(k, l, u)[c] = IF k[c].lobby = l THEN Queue(k[c], u) ELSE k[c]
  BY DEF Notify
<1>3. CASE k[c].lobby = l
  BY <1>1, <1>2, <1>3, QueueFollows
<1>4. CASE k[c].lobby # l
  BY <1>2, <1>4, FollowsRefl
<1> QED
  BY <1>3, <1>4

LEMMA PublishFollows ==
    ASSUME NEW k \in ClientMap, NEW g \in Games, NEW before, NEW now,
           before.id \in Ids, NEW c \in Clients
    PROVE  LET n == Publish(k, g, before, now)[c] IN
           /\ Follows(k[c], n, g, before.id, before.lobby)
           /\ k[c].lobby = before.lobby =>
                 /\ before.visible /\ ~now.visible => HasDelete(n.pending, before.id)
                 /\ before.visible # now.visible \/ before.open # now.open =>
                       \A i \in Ids : n.missed \/ Announces(n.pending, g, i)
<1> DEFINE id == before.id
           l == before.lobby
           k1 == IF before.visible /\ ~now.visible THEN Notify(k, l, Deleted(id)) ELSE k
           n == Publish(k, g, before, now)[c]
<1>1. k1 \in ClientMap
  BY NotifyType, UpdateTypes
<1>2. /\ Follows(k[c], k1[c], g, id, l)
      /\ k[c].lobby = l /\ before.visible /\ ~now.visible => HasDelete(k1[c].pending, id)
  BY NotifyFollows, FollowsRefl
<1>3. k1[c].lobby = k[c].lobby
  BY <1>2 DEF Follows
<1>4. CASE before.visible # now.visible \/ before.open # now.open
  <2>1. n = Notify(k1, l, Updated(g))[c]
    BY <1>4 DEF Publish
  <2> HIDE DEF k1, n
  <2>2. /\ Follows(k1[c], n, g, id, l)
        /\ k1[c].lobby = l => \A i \in Ids : n.missed \/ Announces(n.pending, g, i)
    BY <1>1, <2>1, NotifyFollows
  <2>3. Follows(k[c], n, g, id, l)
    BY <1>2, <2>2, FollowsTrans
  <2>4. HasDelete(k1[c].pending, id) => HasDelete(n.pending, id)
    BY <2>2 DEF Follows
  <2> QED
    BY <1>2, <1>3, <2>2, <2>3, <2>4 DEF n
<1>5. CASE ~(before.visible # now.visible \/ before.open # now.open)
  <2>1. n = k1[c]
    BY <1>5 DEF Publish
  <2> HIDE DEF k1
  <2> QED
    BY <1>2, <1>5, <2>1
<1> QED
  BY <1>4, <1>5

\* A nonempty set of positions in a queue has a last one.
LEMMA LastIn ==
    ASSUME NEW n \in Nat, NEW s \in SUBSET (1 .. n), s # {}
    PROVE  LET last == CHOOSE i \in s : \A j \in s : j <= i
           IN  last \in s /\ \A j \in s : j <= last
<1> DEFINE d == {n - i : i \in s}
<1>1. d \in SUBSET Nat /\ d # {}
  <2>1. \A i \in s : i \in Int /\ 1 <= i /\ i <= n
    OBVIOUS
  <2>2. \A i \in s : n - i \in Nat
    BY <2>1
  <2> QED
    BY <2>2
<1>2. PICK m \in d : \A y \in d : <<y, m>> \notin OpToRel(<, Nat)
  BY <1>1, WFMin, NatLessThanWellFounded, Zenon
<1>3. PICK i \in s : m = n - i
  OBVIOUS
<1>4. ASSUME NEW j \in s PROVE j <= i
  <2>1. n - j \in d /\ n - j \in Nat /\ m \in Nat
    BY <1>1
  <2>2. ~(n - j < m)
    BY <1>2, <2>1, Zenon DEF OpToRel
  <2> QED
    BY <1>3, <2>2
<1> QED
  BY <1>4, Zenon

\* What the batch says of a room id, once sent: the list as it was when no entry
\* concerns the id, the last entry otherwise.
LEMMA LastDecides ==
    ASSUME NEW k \in Client, NEW id \in Ids
    PROVE  \/ /\ \A i \in 1 .. Len(k.pending) : ~Concerns(k.pending[i], id)
              /\ id \in ViewAfter(k) <=> id \in k.view
           \/ \E i \in 1 .. Len(k.pending) :
                 /\ Concerns(k.pending[i], id)
                 /\ \A j \in 1 .. Len(k.pending) : Concerns(k.pending[j], id) => j <= i
                 /\ id \in ViewAfter(k) <=>
                       k.pending[i].kind = "update" /\ Shown(k.pending[i].of)
<1> DEFINE about == {i \in 1 .. Len(k.pending) : Concerns(k.pending[i], id)}
           pos == CHOOSE i \in about : \A j \in about : j <= i
<1>1. id \in ViewAfter(k) <=>
         IF about = {} THEN id \in k.view
         ELSE k.pending[pos].kind = "update" /\ Shown(k.pending[pos].of)
  BY Zenon DEF ViewAfter
<1>2. CASE about = {}
  BY <1>1, <1>2, Zenon
<1>3. CASE about # {}
  <2>1. Len(k.pending) \in Nat
    BY DEF Client
  <2>2. about \in SUBSET (1 .. Len(k.pending))
    OBVIOUS
  <2>3. pos \in about /\ \A j \in about : j <= pos
    BY <1>3, <2>1, <2>2, LastIn, Zenon
  <2>4. /\ pos \in 1 .. Len(k.pending) /\ Concerns(k.pending[pos], id)
        /\ \A j \in 1 .. Len(k.pending) : Concerns(k.pending[j], id) => j <= pos
    BY <2>3, Zenon
  <2>5. id \in ViewAfter(k) <=> k.pending[pos].kind = "update" /\ Shown(k.pending[pos].of)
    BY <1>1, <1>3, Zenon
  <2> HIDE DEF pos
  <2> QED
    BY <2>4, <2>5
<1> QED
  BY <1>2, <1>3

LEMMA SoundFromInv == ListInv => RoomListSound
<1> SUFFICES ASSUME ListInv, NEW c \in Clients, Subscribed(c), NEW id \in ViewAfter(client[c])
             PROVE  HasShown(client[c].lobby, id)
  BY DEF RoomListSound, HasShown
<1> DEFINE k == client[c]
<1>1. k \in Client /\ id \in Ids
  BY DEF ListInv, RegistryInv, TypeOK, ViewAfter
<1>2. CASE /\ \A i \in 1 .. Len(k.pending) : ~Concerns(k.pending[i], id)
           /\ id \in k.view
  <2>1. ~HasDelete(k.pending, id)
    BY <1>2 DEF HasDelete, Concerns, Deleted
  <2> QED
    BY <1>2, <2>1 DEF ListInv, ViewBacked
<1>3. CASE \E i \in 1 .. Len(k.pending) :
              /\ Concerns(k.pending[i], id)
              /\ k.pending[i].kind = "update" /\ Shown(k.pending[i].of)
  <2>1. PICK i \in 1 .. Len(k.pending) :
              /\ Concerns(k.pending[i], id)
              /\ k.pending[i].kind = "update" /\ Shown(k.pending[i].of)
    BY <1>3
  <2>2. k.pending[i] \in Update
    BY <1>1 DEF Client
  <2>3. k.pending[i].of \in Games
    BY <2>1, <2>2 DEF Update
  <2>4. room[k.pending[i].of].id = id
    BY <2>1 DEF Concerns
  <2>5. room[k.pending[i].of].lobby = k.lobby
    BY <2>1 DEF ListInv, UpdatesOwn, OwnUpdates
  <2> QED
    BY <2>1, <2>3, <2>4, <2>5 DEF HasShown
<1> QED
  BY <1>1, <1>2, <1>3, LastDecides

LEMMA CompleteFromInv == ListInv => RoomListComplete
<1> SUFFICES ASSUME ListInv, NEW c \in Clients, Subscribed(c), ~client[c].missed,
                    NEW g \in Games, Shown(g), room[g].open, room[g].lobby = client[c].lobby
             PROVE  room[g].id \in ViewAfter(client[c])
  BY DEF RoomListComplete
<1> DEFINE k == client[c]
           id == room[g].id
<1>1. k \in Client /\ id \in Ids /\ room[g].state = "live"
  BY DEF ListInv, RegistryInv, TypeOK, LiveListed, Live, Shown
<1>2. Reported(k, g)
  BY DEF ListInv, OpenReported
<1>3. CASE /\ \A i \in 1 .. Len(k.pending) : ~Concerns(k.pending[i], id)
           /\ id \in ViewAfter(k) <=> id \in k.view
  <2>1. ~Announces(k.pending, g, id)
    BY <1>1, <1>3 DEF Announces, Concerns, Updated
  <2> QED
    BY <1>2, <1>3, <2>1 DEF Reported
<1>4. ASSUME NEW i \in 1 .. Len(k.pending),
             Concerns(k.pending[i], id),
             \A j \in 1 .. Len(k.pending) : Concerns(k.pending[j], id) => j <= i,
             id \in ViewAfter(k) <=> k.pending[i].kind = "update" /\ Shown(k.pending[i].of)
      PROVE  id \in ViewAfter(k)
  <2>1. k.pending[i] \in Update
    BY <1>1 DEF Client
  <2>2. CASE k.pending[i].kind = "delete"
    <3>1. k.pending[i] = Deleted(id)
      BY <1>4, <2>1, <2>2 DEF Concerns, Update, Deleted
    <3>2. PICK m \in 1 .. Len(k.pending) :
             /\ k.pending[m] = Updated(g)
             /\ \A j \in 1 .. Len(k.pending) : m < j => k.pending[j] # Deleted(id)
      BY <1>2, <3>1 DEF Reported, HasDelete, Announces
    <3>3. Concerns(k.pending[m], id)
      BY <1>1, <3>2 DEF Concerns, Updated
    <3>4. m <= i /\ m # i /\ m \in Int /\ i \in Int
      BY <1>4, <3>1, <3>2, <3>3, UpdateNotDelete
    <3> QED
      BY <3>1, <3>2, <3>4
  <2>3. CASE k.pending[i].kind = "update"
    <3>1. k.pending[i].of \in Games
      BY <2>1, <2>3 DEF Update
    <3>2. room[k.pending[i].of].state = "live" /\ room[k.pending[i].of].id = id
      BY <1>4, <2>3 DEF Concerns
    <3>3. games[id] = k.pending[i].of /\ games[id] = g
      BY <1>1, <3>1, <3>2 DEF ListInv, RegistryInv, RegistryExact
    <3> QED
      BY <1>4, <2>3, <3>3
  <2> QED
    BY <2>1, <2>2, <2>3 DEF Update
<1> QED
  BY <1>1, <1>3, <1>4, LastDecides

\* A step that changes room g only, and queues updates of g and deletions of its
\* id: a room that is no longer shown is deleted from the lists, and one that
\* can be joined is announced.
LEMMA RoomStepLists ==
    ASSUME ListInv, RegistryInv', NEW g \in Games,
           \A h \in Games \ {g} : room'[h] = room[h],
           \/ room[g].state = "unborn"
           \/ room[g].id = room'[g].id /\ room[g].lobby = room'[g].lobby,
           room'[g].state # "unborn", room'[g].id \in Ids,
           room[g].state = "live" \/ room'[g].state = "live",
           \A l \in Lobbies : \A h \in listed'[l] :
              h \in listed[l] \/ (h = g /\ l = room'[g].lobby),
           \A c \in Clients : Follows(client[c], client'[c], g, room'[g].id, room'[g].lobby),
           Shown(g) /\ ~Shown(g)' =>
              \A c \in Clients : client[c].lobby = room'[g].lobby =>
                 HasDelete(client'[c].pending, room'[g].id),
           Shown(g)' =>
              \A c \in Clients : client[c].lobby = room'[g].lobby =>
                 \/ client'[c].missed
                 \/ Announces(client'[c].pending, g, room'[g].id)
    PROVE  ListInv'
<1>1. \A c \in Clients : /\ client'[c].lobby = client[c].lobby
                         /\ client'[c].view = client[c].view
                         /\ client'[c].stale = client[c].stale
                         /\ Subscribed(c)' <=> Subscribed(c)
                         /\ client[c].missed => client'[c].missed
  BY Zenon DEF Follows, Subscribed
<1>2. \A h \in Games \ {g} : Shown(h)' <=> Shown(h)
  BY DEF Shown
<1>3. Shown(g) => room[g].state # "unborn"
  BY DEF Shown
<1>4. ListedOwn'
  <2> SUFFICES ASSUME NEW l \in Lobbies, NEW h \in listed'[l]
               PROVE  room'[h].state # "unborn" /\ room'[h].lobby = l
    BY DEF ListedOwn
  <2>1. CASE h = g /\ l = room'[g].lobby
    BY <2>1
  <2>2. CASE h \in listed[l]
    <3>1. h \in Games /\ room[h].state # "unborn" /\ room[h].lobby = l
      BY <2>2 DEF ListInv, ListedOwn, RegistryInv, TypeOK
    <3> QED
      BY <3>1
  <2> QED
    BY <2>1, <2>2
<1>5. UpdatesOwn'
  <2> SUFFICES ASSUME NEW c \in Clients, Subscribed(c),
                      NEW i \in 1 .. Len(client'[c].pending),
                      client'[c].pending[i].kind = "update"
               PROVE  /\ room'[client'[c].pending[i].of].state # "unborn"
                      /\ room'[client'[c].pending[i].of].lobby = client[c].lobby
    BY <1>1 DEF UpdatesOwn, OwnUpdates
  <2> DEFINE u == client'[c].pending[i]
  <2>1. \/ client[c].lobby = room'[g].lobby /\ u.of = g
        \/ \E m \in 1 .. Len(client[c].pending) : u = client[c].pending[m]
    BY DEF Follows
  <2>2. CASE client[c].lobby = room'[g].lobby /\ u.of = g
    BY <2>2
  <2>3. CASE \E m \in 1 .. Len(client[c].pending) : u = client[c].pending[m]
    <3>1. PICK m \in 1 .. Len(client[c].pending) : u = client[c].pending[m]
      BY <2>3
    <3>2. room[u.of].state # "unborn" /\ room[u.of].lobby = client[c].lobby
      BY <3>1 DEF ListInv, UpdatesOwn, OwnUpdates
    <3>3. u \in Update
      BY <3>1 DEF ListInv, RegistryInv, TypeOK, Client
    <3>4. u.of \in Games
      BY <3>3 DEF Update
    <3> QED
      BY <3>2, <3>4
  <2> QED
    BY <2>1, <2>2, <2>3
<1>6. ViewBacked'
  <2> SUFFICES ASSUME NEW c \in Clients, Subscribed(c), NEW id \in client[c].view
               PROVE  \/ HasShown(client[c].lobby, id)'
                      \/ HasDelete(client'[c].pending, id)
    BY <1>1 DEF ViewBacked, HasShown
  <2>1. id \in Ids
    BY DEF ListInv, RegistryInv, TypeOK, Client
  <2>2. CASE HasDelete(client[c].pending, id)
    BY <2>1, <2>2 DEF Follows
  <2>3. CASE HasShown(client[c].lobby, id)
    <3>1. PICK h \in Games : Shown(h) /\ room[h].id = id /\ room[h].lobby = client[c].lobby
      BY <2>3 DEF HasShown
    <3>2. CASE h # g \/ Shown(h)'
      <4>1. Shown(h)' /\ room'[h].id = id /\ room'[h].lobby = client[c].lobby
        BY <1>2, <1>3, <3>1, <3>2
      <4> QED
        BY <1>1, <4>1 DEF HasShown
    <3>3. CASE h = g /\ ~Shown(h)'
      BY <1>3, <3>1, <3>3
    <3> QED
      BY <3>2, <3>3
  <2> QED
    BY <2>2, <2>3 DEF ListInv, ViewBacked
<1>7. OpenReported'
  <2> SUFFICES ASSUME NEW c \in Clients, Subscribed(c), ~client'[c].missed,
                      NEW h \in Games, Shown(h)', room'[h].open,
                      room'[h].lobby = client[c].lobby
               PROVE  Reported(client[c], h)'
    BY <1>1 DEF OpenReported
  <2>1. CASE h = g
    BY <2>1 DEF Reported
  <2>2. CASE h # g
    <3>1. room'[h] = room[h] /\ Shown(h) /\ ~client[c].missed
      BY <1>1, <1>2, <2>2
    <3>2. Reported(client[c], h)
      BY <3>1 DEF ListInv, OpenReported
    <3>3. room[h].state = "live" /\ room[h].id \in Ids
      BY <3>1 DEF Shown, ListInv, RegistryInv, LiveListed, Live
    <3>4. room[h].id # room'[g].id
      <4>1. room[g].state = "live" => room[g].id # room[h].id
        BY <2>2, <3>3 DEF ListInv, RegistryInv, RegistryExact
      <4>2. room'[g].state = "live" => room'[g].id # room'[h].id
        BY <2>2, <3>1, <3>3 DEF RegistryInv, RegistryExact
      <4> QED
        BY <3>1, <4>1, <4>2
    <3>5. room[h].id \in Ids \ {room'[g].id}
      BY <3>3, <3>4
    <3>6. /\ HasDelete(client'[c].pending, room[h].id) => HasDelete(client[c].pending, room[h].id)
          /\ Announces(client[c].pending, h, room[h].id) =>
                Announces(client'[c].pending, h, room[h].id)
      BY <3>5 DEF Follows
    <3> QED
      BY <1>1, <3>1, <3>2, <3>6 DEF Reported
  <2> QED
    BY <2>1, <2>2
<1> QED
  BY <1>4, <1>5, <1>6, <1>7 DEF ListInv

LEMMA InitLists == Init => ListInv
<1> SUFFICES ASSUME Init PROVE ListInv
  OBVIOUS
<1>1. RegistryInv
  BY InitRegistry
<1>2. \A c \in Clients : ~Subscribed(c)
  BY DEF Init, NewClient, Subscribed
<1>3. ListedOwn
  BY DEF Init, ListedOwn
<1> QED
  BY <1>1, <1>2, <1>3 DEF ListInv, UpdatesOwn, ViewBacked, OpenReported

LEMMA UnchangedLists == ListInv /\ UNCHANGED vars => ListInv'
<1> SUFFICES ASSUME ListInv, UNCHANGED vars PROVE ListInv'
  OBVIOUS
<1> USE DEF vars
<1>1. RegistryInv'
  BY NextRegistry DEF ListInv
<1> QED
  BY <1>1 DEF ListInv, ListedOwn, UpdatesOwn, OwnUpdates, ViewBacked, HasShown,
              OpenReported, Reported, Subscribed, Shown

LEMMA CreateGameLists ==
    ASSUME ListInv, NEW g \in Games, NEW id \in Ids, NEW l \in Lobbies, CreateGame(g, id, l)
    PROVE  ListInv'
<1>1. RegistryInv'
  BY CreateGameInv DEF ListInv
<1>2. /\ client \in ClientMap /\ room \in [Games -> Room]
      /\ listed \in [Lobbies -> SUBSET Games]
  BY DEF ListInv, RegistryInv, TypeOK, ClientMap
<1>3. /\ room[g].state = "unborn" /\ room'[g].state = "live"
      /\ room'[g].id = id /\ room'[g].lobby = l /\ ~room'[g].created
      /\ \A h \in Games \ {g} : room'[h] = room[h]
  BY <1>2 DEF CreateGame, Unborn
<1>4. \A m \in Lobbies : \A h \in listed'[m] : h \in listed[m] \/ (h = g /\ m = l)
  BY <1>2 DEF CreateGame
<1>5. \A c \in Clients : Follows(client[c], client'[c], g, id, l)
  BY <1>2, NotifyFollows DEF CreateGame
<1>6. ~Shown(g) /\ ~Shown(g)'
  BY <1>3 DEF Shown
<1> QED
  BY <1>1, <1>3, <1>4, <1>5, <1>6, RoomStepLists

LEMMA DeleteGameLists ==
    ASSUME ListInv, NEW g \in Games, DeleteGame(g)
    PROVE  ListInv'
<1>1. RegistryInv'
  BY DeleteGameInv DEF ListInv
<1>2. /\ client \in ClientMap /\ room \in [Games -> Room]
      /\ listed \in [Lobbies -> SUBSET Games]
  BY DEF ListInv, RegistryInv, TypeOK, ClientMap
<1>3. /\ room[g].state = "live" /\ room'[g].state = "deleted"
      /\ room'[g].id = room[g].id /\ room'[g].lobby = room[g].lobby
      /\ \A h \in Games \ {g} : room'[h] = room[h]
  BY <1>2 DEF DeleteGame, Room
<1>4. room[g].id \in Ids
  BY <1>3 DEF ListInv, RegistryInv, LiveListed, Live
<1>5. \A m \in Lobbies : \A h \in listed'[m] : h \in listed[m]
  BY <1>2 DEF DeleteGame, Kept
<1>6. client' = DeleteAnnounced(g)
  BY DEF DeleteGame
<1>7. \A c \in Clients : Follows(client[c], client'[c], g, room[g].id, room[g].lobby)
  BY <1>2, <1>4, <1>6, NotifyFollows, FollowsRefl DEF DeleteAnnounced
<1>8. Shown(g) => \A c \in Clients : client[c].lobby = room[g].lobby =>
                     HasDelete(client'[c].pending, room[g].id)
  BY <1>2, <1>4, <1>6, NotifyFollows DEF DeleteAnnounced, Shown
<1>9. ~Shown(g)'
  BY <1>3 DEF Shown
<1> QED
  BY <1>1, <1>3, <1>4, <1>5, <1>7, <1>8, <1>9, RoomStepLists

LEMMA TriggerLists ==
    ASSUME ListInv, NEW g \in Games, TriggerLobbyUpdate(g)
    PROVE  ListInv'
<1>1. client \in ClientMap
  BY DEF ListInv, RegistryInv, TypeOK, ClientMap
<1>2. /\ room[g].state = "live" /\ room' = room /\ listed' = listed
      /\ client' = Notify(client, room[g].lobby, Updated(g))
  BY DEF TriggerLobbyUpdate
<1>3. RegistryInv'
  BY <1>1, NotifyType, UpdateTypes, ClientStepInv DEF TriggerLobbyUpdate, ListInv
<1>4. room[g].id \in Ids
  BY <1>2 DEF ListInv, RegistryInv, LiveListed, Live
<1>5. \A c \in Clients :
         /\ Follows(client[c], client'[c], g, room[g].id, room[g].lobby)
         /\ client[c].lobby = room[g].lobby =>
               client'[c].missed \/ Announces(client'[c].pending, g, room[g].id)
  BY <1>1, <1>2, <1>4, NotifyFollows
<1>6. Shown(g)' <=> Shown(g)
  BY <1>2 DEF Shown
<1> QED
  BY <1>2, <1>3, <1>4, <1>5, <1>6, RoomStepLists

LEMMA CommitGameLists ==
    ASSUME ListInv, NEW g \in Games, NEW visible \in BOOLEAN, NEW open \in BOOLEAN,
           CommitGame(g, visible, open)
    PROVE  ListInv'
<1> DEFINE now == [room[g] EXCEPT !.created = TRUE, !.visible = visible, !.open = open]
           k == Publish(client, g, room[g], now)
<1>1. RegistryInv'
  BY RoomStepInv DEF ListInv
<1>2. client \in ClientMap /\ room \in [Games -> Room] /\ room[g] \in Room
  BY DEF ListInv, RegistryInv, TypeOK, ClientMap
<1>3. /\ room[g].state = "live" /\ ~room[g].created /\ listed' = listed
      /\ client' = Notify(k, now.lobby, Updated(g))
      /\ room' = [room EXCEPT ![g] = now]
  BY DEF CommitGame
<1>4. room[g].id \in Ids
  BY <1>3 DEF ListInv, RegistryInv, LiveListed, Live
<1>5. now.id = room[g].id /\ now.lobby = room[g].lobby /\ now.state = room[g].state
  BY <1>2 DEF Room
<1>6. room'[g] = now /\ \A h \in Games \ {g} : room'[h] = room[h]
  BY <1>2, <1>3
<1> HIDE DEF now
<1>7. k \in ClientMap
  BY <1>2, <1>4, PublishType
<1>8. \A c \in Clients : Follows(client[c], k[c], g, room[g].id, room[g].lobby)
  BY <1>2, <1>4, PublishFollows
<1> HIDE DEF k
<1>9. \A c \in Clients :
         /\ Follows(k[c], client'[c], g, room[g].id, room[g].lobby)
         /\ k[c].lobby = room[g].lobby =>
               client'[c].missed \/ Announces(client'[c].pending, g, room[g].id)
  BY <1>3, <1>4, <1>5, <1>7, NotifyFollows
<1>10. \A c \in Clients : Follows(client[c], client'[c], g, room[g].id, room[g].lobby)
  BY <1>8, <1>9, FollowsTrans
<1>11. \A c \in Clients : k[c].lobby = client[c].lobby
  BY <1>8 DEF Follows
<1>12. ~Shown(g)
  BY <1>3 DEF Shown
<1> QED
  BY <1>1, <1>3, <1>4, <1>5, <1>6, <1>9, <1>10, <1>11, <1>12, RoomStepLists

LEMMA SetGamePropsLists ==
    ASSUME ListInv, NEW g \in Games, NEW visible \in BOOLEAN, NEW open \in BOOLEAN,
           SetGameProps(g, visible, open)
    PROVE  ListInv'
<1> DEFINE now == [room[g] EXCEPT !.visible = visible, !.open = open]
<1>1. RegistryInv'
  BY RoomStepInv DEF ListInv
<1>2. client \in ClientMap /\ room \in [Games -> Room] /\ room[g] \in Room
  BY DEF ListInv, RegistryInv, TypeOK, ClientMap
<1>3. /\ room[g].state = "live" /\ room[g].created /\ listed' = listed /\ games' = games
      /\ client' = Publish(client, g, room[g], now)
      /\ room' = [room EXCEPT ![g] = now]
  BY DEF SetGameProps
<1>4. room[g].id \in Ids
  BY <1>3 DEF ListInv, RegistryInv, LiveListed, Live
<1>5. /\ now.id = room[g].id /\ now.lobby = room[g].lobby
      /\ now.state = room[g].state /\ now.created = room[g].created
  BY <1>2 DEF Room
<1>6. room'[g] = now /\ \A h \in Games \ {g} : room'[h] = room[h]
  BY <1>2, <1>3
<1>7. CASE now.visible = room[g].visible /\ now.open = room[g].open
  <2>1. client' = client
    BY <1>3, <1>7 DEF Publish
  <2>2. now = room[g]
    BY <1>2, <1>7 DEF Room
  <2>3. room' = room
    BY <1>2, <1>3, <2>2
  <2> QED
    BY <1>3, <2>1, <2>3, UnchangedLists DEF vars
<1>8. CASE ~(now.visible = room[g].visible /\ now.open = room[g].open)
  <2> HIDE DEF now
  <2>1. \A c \in Clients :
           /\ Follows(client[c], client'[c], g, room[g].id, room[g].lobby)
           /\ client[c].lobby = room[g].lobby =>
                 /\ room[g].visible /\ ~now.visible => HasDelete(client'[c].pending, room[g].id)
                 /\ client'[c].missed \/ Announces(client'[c].pending, g, room[g].id)
    BY <1>2, <1>3, <1>4, <1>8, PublishFollows
  <2>2. Shown(g) /\ ~Shown(g)' => room[g].visible /\ ~now.visible
    BY <1>5, <1>6 DEF Shown
  <2> QED
    BY <1>1, <1>3, <1>4, <1>5, <1>6, <2>1, <2>2, RoomStepLists
<1> QED
  BY <1>7, <1>8

\* A step of one client.
LEMMA ClientStepLists ==
    ASSUME ListInv, RegistryInv', NEW c \in Clients, room' = room,
           listed' = listed \/ listed' = Kept(listed, room, client'),
           \A d \in Clients \ {c} : client'[d] = client[d],
           Subscribed(c)' =>
              /\ OwnUpdates(client'[c].pending, client'[c].lobby)
              /\ \A id \in client'[c].view :
                    HasShown(client'[c].lobby, id) \/ HasDelete(client'[c].pending, id)
              /\ ~client'[c].missed =>
                    \A g \in Games :
                       Shown(g) /\ room[g].open /\ room[g].lobby = client'[c].lobby =>
                          Reported(client'[c], g)
    PROVE  ListInv'
<1>1. \A l \in Lobbies : listed'[l] \subseteq listed[l]
  BY DEF Kept, ListInv, RegistryInv, TypeOK
<1>2. ListedOwn'
  BY <1>1 DEF ListInv, ListedOwn
<1>3. \A d \in Clients \ {c} : Subscribed(d)' <=> Subscribed(d)
  BY DEF Subscribed
<1>4. UpdatesOwn'
  BY <1>3 DEF ListInv, UpdatesOwn, OwnUpdates
<1>5. \A l, id : HasShown(l, id)' <=> HasShown(l, id)
  BY DEF HasShown, Shown
<1>6. ViewBacked'
  <2> SUFFICES ASSUME NEW d \in Clients, Subscribed(d)', NEW id \in client'[d].view
               PROVE  HasShown(client'[d].lobby, id) \/ HasDelete(client'[d].pending, id)
    BY DEF ViewBacked, HasShown, Shown
  <2>1. CASE d = c
    BY <2>1
  <2>2. CASE d # c
    BY <1>3, <2>2 DEF ListInv, ViewBacked
  <2> QED
    BY <2>1, <2>2
<1>7. OpenReported'
  <2> SUFFICES ASSUME NEW d \in Clients, Subscribed(d)', ~client'[d].missed,
                      NEW g \in Games, Shown(g), room[g].open,
                      room[g].lobby = client'[d].lobby
               PROVE  Reported(client'[d], g)
    BY DEF OpenReported, Shown, Reported
  <2>1. CASE d = c
    BY <2>1
  <2>2. CASE d # c
    BY <1>3, <2>2 DEF ListInv, OpenReported
  <2> QED
    BY <2>1, <2>2
<1> QED
  BY <1>2, <1>4, <1>6, <1>7 DEF ListInv

LEMMA JoinLobbyLists ==
    ASSUME ListInv, RegistryInv', NEW c \in Clients, NEW l \in Lobbies, JoinLobby(c, l)
    PROVE  ListInv'
<1>1. client \in [Clients -> Client] /\ client[c] \in Client
      /\ listed \in [Lobbies -> SUBSET Games]
  BY DEF ListInv, RegistryInv, TypeOK
<1>2. /\ client'[c].lobby = l /\ client'[c].view = GameList(l)
      /\ client'[c].stale = (client[c].pending # << >>)
      /\ client'[c].pending = client[c].pending
      /\ \A d \in Clients \ {c} : client'[d] = client[d]
  BY <1>1 DEF JoinLobby, Client
<1>3. room' = room /\ listed' = Kept(listed, room, client')
  BY DEF JoinLobby
<1>4. Subscribed(c)' => client'[c].pending = << >>
  BY <1>2 DEF Subscribed
<1>5. client'[c].pending = << >> => /\ OwnUpdates(client'[c].pending, client'[c].lobby)
                                    /\ \A id : ~HasDelete(client'[c].pending, id)
  BY DEF OwnUpdates, HasDelete
<1>6. \A id \in GameList(l) : HasShown(l, id)
  BY <1>1 DEF GameList, HasShown, ListInv, ListedOwn
<1>7. ASSUME NEW g \in Games, Shown(g), room[g].open, room[g].lobby = l
      PROVE  room[g].id \in GameList(l)
  <2>1. g \in listed[l]
    BY <1>7 DEF ListInv, RegistryInv, LiveListed, Live, Shown
  <2> QED
    BY <1>7, <2>1 DEF GameList
<1> QED
  BY <1>2, <1>3, <1>4, <1>5, <1>6, <1>7, ClientStepLists DEF Reported

LEMMA SendLists ==
    ASSUME ListInv, RegistryInv', NEW c \in Clients, SendGameListUpdates(c)
    PROVE  ListInv'
<1>1. client \in [Clients -> Client] /\ client[c] \in Client
  BY DEF ListInv, RegistryInv, TypeOK
<1>2. /\ client'[c].lobby = client[c].lobby /\ client'[c].view = ViewAfter(client[c])
      /\ client'[c].stale = client[c].stale /\ client'[c].missed = client[c].missed
      /\ client'[c].pending = << >>
      /\ \A d \in Clients \ {c} : client'[d] = client[d]
  BY <1>1 DEF SendGameListUpdates, Client
<1>3. room' = room /\ listed' = listed
  BY DEF SendGameListUpdates
<1>4. Subscribed(c)' => Subscribed(c)
  BY <1>2 DEF Subscribed
<1>5. /\ OwnUpdates(client'[c].pending, client'[c].lobby)
      /\ \A id : ~HasDelete(client'[c].pending, id)
  BY <1>2 DEF OwnUpdates, HasDelete
<1>6. Subscribed(c) => \A id \in ViewAfter(client[c]) : HasShown(client[c].lobby, id)
  BY SoundFromInv DEF RoomListSound, HasShown
<1>7. Subscribed(c) /\ ~client[c].missed =>
         \A g \in Games : Shown(g) /\ room[g].open /\ room[g].lobby = client[c].lobby =>
            room[g].id \in ViewAfter(client[c])
  BY CompleteFromInv DEF RoomListComplete
<1> QED
  BY <1>2, <1>3, <1>4, <1>5, <1>6, <1>7, ClientStepLists DEF Reported

LEMMA NextLists == ListInv /\ [Next]_vars => ListInv'
<1> SUFFICES ASSUME ListInv, [Next]_vars PROVE ListInv'
  OBVIOUS
<1>0. RegistryInv'
  BY NextRegistry DEF ListInv
<1>1. CASE UNCHANGED vars
  BY <1>1, UnchangedLists
<1>2. ASSUME NEW g \in Games, NEW id \in Ids, NEW l \in Lobbies, CreateGame(g, id, l)
      PROVE  ListInv'
  BY <1>2, CreateGameLists
<1>3. ASSUME NEW g \in Games, NEW visible \in BOOLEAN, NEW open \in BOOLEAN,
             CommitGame(g, visible, open) \/ SetGameProps(g, visible, open)
      PROVE  ListInv'
  BY <1>3, CommitGameLists, SetGamePropsLists
<1>4. ASSUME NEW g \in Games, TriggerLobbyUpdate(g)
      PROVE  ListInv'
  BY <1>4, TriggerLists
<1>5. ASSUME NEW g \in Games, DeleteGame(g)
      PROVE  ListInv'
  BY <1>5, DeleteGameLists
<1>6. ASSUME NEW c \in Clients, NEW l \in Lobbies, JoinLobby(c, l)
      PROVE  ListInv'
  BY <1>0, <1>6, JoinLobbyLists
<1>7. ASSUME NEW c \in Clients, LeaveLobby(c) \/ Disconnect(c)
      PROVE  ListInv'
  <2>1. client \in [Clients -> Client]
    BY DEF ListInv, RegistryInv, TypeOK
  <2>2. /\ room' = room /\ listed' = Kept(listed, room, client')
        /\ \A d \in Clients \ {c} : client'[d] = client[d]
    BY <1>7, <2>1 DEF LeaveLobby, Disconnect
  <2>3. client'[c].lobby = NoLobby
    BY <1>7, <2>1 DEF LeaveLobby, Disconnect, NewClient, Client
  <2>4. ~Subscribed(c)'
    BY <2>3 DEF Subscribed
  <2> QED
    BY <1>0, <2>2, <2>4, ClientStepLists
<1>8. ASSUME NEW c \in Clients, SendGameListUpdates(c)
      PROVE  ListInv'
  BY <1>0, <1>8, SendLists
<1> QED
  BY <1>1, <1>2, <1>3, <1>4, <1>5, <1>6, <1>7, <1>8 DEF Next

\* The invariant of the room lists holds in every reachable state.
THEOREM ListInvariance == Spec => []ListInv
BY InitLists, NextLists, PTL DEF Spec

\* Once its batch is sent, a player's list holds no ghost room: HandleSlowUpdate()
\* leaves only rooms that exist, are created and visible and are of the lobby,
\* whatever the full queue dropped.
THEOREM RoomListsAreSound == Spec => []RoomListSound
BY ListInvariance, SoundFromInv, PTL

\* Unless the full queue dropped an update, the batch leaves every room of the
\* lobby that can be joined on the player's list.
THEOREM RoomListsAreComplete == Spec => []RoomListComplete
BY ListInvariance, CompleteFromInv, PTL
=============================================================================
