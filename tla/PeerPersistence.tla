--------------------------- MODULE PeerPersistence ---------------------------
(***************************************************************************)
(* How a client's session is handed from server to server, within and      *)
(* between processes: the persistent peers that a process keeps under      *)
(* their tokens (peer_persistence.cpp), the authentications that load      *)
(* them (authentication.cpp and the handlers), and the messages that copy  *)
(* and drop them in other processes (server_manager.cpp).                  *)
(*                                                                         *)
(* kept        peer_persistent_data of each process                        *)
(* generation  next_store_generation of each process                       *)
(* timers      the scheduled tasks that erase stored peers                 *)
(* link        the messages between two processes, a MessageQueue each     *)
(* state       of a connection: up, or closing (disconnected, its handler  *)
(*             not destroyed yet); one that is destroyed makes room for    *)
(*             the next                                                    *)
(* persistent  peer_->persistent of a connection: at most one record       *)
(* waiting     the token of pending_authentication_, or 0                  *)
(* issued      the number of tokens created; they are random and taken to  *)
(*             be distinct                                                 *)
(* handed      auxiliary: the tokens stored for each process and not       *)
(*             loaded by anybody since, nor the last store expired there   *)
(* doubled     auxiliary: the tokens loaded while another connection held  *)
(*             them, or before all processes knew that it had              *)
(* outlived    auxiliary: the processes whose copy of a token may outlive  *)
(*             its consumption in another, because they are not told of it *)
(*             or their copy counts as newer, until they are handed the    *)
(*             token anew or the copy expires                              *)
(***************************************************************************)
EXTENDS Integers, Sequences, FiniteSets

CONSTANTS
    Processes,
    Neighbours,      \* the parent and the children of each process, in a tree
    Conns,
    ProcessOf,
    Role,            \* the type of server that a connection is with
    MaxToken,        \* bound on the tokens created
    MaxGeneration    \* bound on the stores of a process

Tokens == 1 .. MaxToken
Generations == 0 .. MaxGeneration

ASSUME PersistenceAssumption ==
    /\ MaxToken \in Nat /\ MaxGeneration \in Nat
    /\ Neighbours \in [Processes -> SUBSET Processes]
    /\ \A p \in Processes : p \notin Neighbours[p]
    /\ \A p \in Processes : \A q \in Neighbours[p] : Neighbours[p] \cap Neighbours[q] = {}
    /\ ProcessOf \in [Conns -> Processes]
    /\ Role \in [Conns -> {"name", "master", "game"}]

Peer == [token : Tokens, generation : Generations]
Message == [code : {"store", "consume"}, token : Tokens, revision : Generations]
Links == {l \in Processes \X Processes : l[2] \in Neighbours[l[1]]}

VARIABLES
    kept, generation, timers, link, state, persistent, waiting, issued,
    handed, doubled, outlived

vars == <<kept, generation, timers, link, state, persistent, waiting, issued,
          handed, doubled, outlived>>

storeVars == <<kept, generation, timers>>
auxVars == <<handed, doubled, outlived>>

TypeOK ==
    /\ kept \in [Processes -> SUBSET Peer]
    /\ generation \in [Processes -> Generations]
    /\ timers \in [Processes -> SUBSET Peer]
    /\ link \in [Links -> Seq(Message)]
    /\ state \in [Conns -> {"up", "closing"}]
    /\ persistent \in [Conns -> SUBSET Peer]
    /\ waiting \in [Conns -> {0} \cup Tokens]
    /\ issued \in {0} \cup Tokens
    /\ handed \in SUBSET (Tokens \X Processes)
    /\ doubled \in SUBSET Tokens
    /\ outlived \in SUBSET (Tokens \X Processes)

Init ==
    /\ kept = [p \in Processes |-> {}]
    /\ generation = [p \in Processes |-> 0]
    /\ timers = [p \in Processes |-> {}]
    /\ link = [l \in Links |-> << >>]
    /\ state = [c \in Conns |-> "up"]
    /\ persistent = [c \in Conns |-> {}]
    /\ waiting = [c \in Conns |-> 0]
    /\ issued = 0
    /\ handed = {} /\ doubled = {} /\ outlived = {}

-----------------------------------------------------------------------------
(* The store of a process and its messages. *)

\* ipc_broadcast()
Broadcast(p, m) ==
    link' = [l \in Links |-> IF l[1] = p THEN Append(link[l], m) ELSE link[l]]

StoreOf(r) == [code |-> "store", token |-> r.token, revision |-> r.generation]
ConsumeOf(r) == [code |-> "consume", token |-> r.token, revision |-> r.generation]

\* has_persistent_peer()
Has(p, t) == \E r \in kept[p] : r.token = t

\* Mutant: the timer remembers the generation of the store before.
TimerOfLast(r) == [r EXCEPT !.generation = @ - 1]

\* The token and the generation that the task remembers.
TimerOf(r) == r

\* store_persistent_peer(): the peer gets a generation of this process, whatever
\* the one it came with, and a timer of its own.
Store(p, t) ==
    LET r == [token |-> t, generation |-> generation[p] + 1]
    IN  /\ generation[p] < MaxGeneration
        /\ kept' = [kept EXCEPT ![p] = {s \in @ : s.token # t} \cup {r}]
        /\ generation' = [generation EXCEPT ![p] = @ + 1]
        /\ timers' = [timers EXCEPT ![p] = @ \cup {TimerOf(r)}]

\* sync_persistent_peer(), with the generation of the store before.
Synced(p, r) == Broadcast(p, StoreOf(r))

\* A queue q holds the consumption, or a store, of the token t.
IsConsume(m, t) == m.code = "consume" /\ m.token = t
IsStore(m, t) == m.code = "store" /\ m.token = t
ConsumeIn(q, t) == \E i \in 1 .. Len(q) : IsConsume(q[i], t)
StoreIn(q, t) == \E i \in 1 .. Len(q) : IsStore(q[i], t)

Consumes(t) == \E l \in Links : ConsumeIn(link[l], t)

StoreComing(t, p) == \E l \in Links : l[2] = p /\ StoreIn(link[l], t)

\* The process p has the token anew, and no other copy of it is on its way there.
Renewed(t, p) ==
    outlived' = IF /\ <<t, p>> \in handed'
                   /\ \A l \in Links : l[2] = p => ~StoreIn(link'[l], t)
                THEN outlived \ {<<t, p>>} ELSE outlived

SyncAndStore(c) ==
    LET p == ProcessOf[c]
    IN  \E r \in persistent[c] :
          /\ Synced(p, r)
          /\ Store(p, r.token)
          /\ handed' = handed \cup ({r.token} \X ({p} \cup Neighbours[p]))
          /\ Renewed(r.token, p)
          /\ UNCHANGED doubled

Held(t) == \E c \in Conns : \E r \in persistent[c] : r.token = t

\* Where a consumption of t by p leaves copies: where nobody is told of it, and
\* anywhere if the copy that is consumed has itself outlived a consumption.
Unreached(p, t) ==
    IF <<t, p>> \in handed \ outlived THEN Processes \ ({p} \cup Neighbours[p]) ELSE Processes

\* load_persistent_peer(), up to the choice of a new token.
Load(p, r) ==
    /\ r \in kept[p]
    /\ kept' = [kept EXCEPT ![p] = @ \ {r}]
    /\ Broadcast(p, ConsumeOf(r))
    /\ handed' = {h \in handed : h[1] # r.token}
    /\ doubled' = IF Consumes(r.token) \/ Held(r.token) THEN doubled \cup {r.token} ELSE doubled
    /\ outlived' = outlived \cup ({r.token} \X Unreached(p, r.token))
    /\ UNCHANGED <<generation, timers>>

-----------------------------------------------------------------------------
(* Connections. *)

Unauthenticated(c) == state[c] = "up" /\ persistent[c] = {}

\* authenticate() without a token.  Nobody is invited to a room that way, and a
\* game server closes the connection.
Login(c) ==
    /\ Unauthenticated(c)
    /\ issued < MaxToken
    /\ issued' = issued + 1
    /\ persistent' = [persistent EXCEPT ![c] = {[token |-> issued + 1, generation |-> 0]}]
    /\ state' = [state EXCEPT ![c] = IF Role[c] = "game" THEN "closing" ELSE "up"]
    /\ waiting' = [waiting EXCEPT ![c] = IF Role[c] = "game" THEN 0 ELSE @]
    /\ UNCHANGED <<storeVars, link, auxVars>>

\* A name or master server loads the peer and gives it another token.
FrontAuthenticate(c, t) ==
    /\ Unauthenticated(c) /\ Role[c] # "game"
    /\ issued < MaxToken
    /\ \E r \in kept[ProcessOf[c]] :
          /\ r.token = t
          /\ Load(ProcessOf[c], r)
          /\ persistent' = [persistent EXCEPT ![c] = {[r EXCEPT !.token = issued + 1]}]
    /\ issued' = issued + 1
    /\ UNCHANGED <<state, waiting>>

\* It does not wait for a token it does not know.
FrontRefuse(c, t) ==
    /\ Unauthenticated(c) /\ Role[c] # "game"
    /\ ~Has(ProcessOf[c], t)
    /\ state' = [state EXCEPT ![c] = "closing"]
    /\ UNCHANGED <<storeVars, link, persistent, waiting, issued, auxVars>>

\* A game server loads the peer under its token, and closes the connection if
\* the room it is invited to is not one of this process (s = "closing").
GameLoad(c, t, s) ==
    /\ \E r \in kept[ProcessOf[c]] :
          /\ r.token = t
          /\ Load(ProcessOf[c], r)
          /\ persistent' = [persistent EXCEPT ![c] = {r}]
    /\ state' = [state EXCEPT ![c] = s]
    /\ UNCHANGED issued

GameAuthenticate(c, t, s) ==
    /\ Unauthenticated(c) /\ Role[c] = "game"
    /\ GameLoad(c, t, s)
    /\ waiting' = [waiting EXCEPT ![c] = IF s = "up" THEN @ ELSE 0]

\* It waits for a token it does not know, if it is not waiting already.
GamePark(c, t) ==
    /\ Unauthenticated(c) /\ Role[c] = "game"
    /\ ~Has(ProcessOf[c], t)
    /\ waiting[c] = 0
    /\ waiting' = [waiting EXCEPT ![c] = t]
    /\ UNCHANGED <<storeVars, link, state, persistent, issued, auxVars>>

\* HandleSlowUpdate(): the token has arrived.  Should the client have
\* authenticated with another one meanwhile, the request is not understood.
Retry(c, s) ==
    /\ state[c] = "up" /\ waiting[c] # 0
    /\ Has(ProcessOf[c], waiting[c])
    /\ waiting' = [waiting EXCEPT ![c] = 0]
    /\ IF persistent[c] = {}
       THEN GameLoad(c, waiting[c], s)
       ELSE UNCHANGED <<storeVars, link, state, persistent, issued, auxVars>>

\* Mutant: only a token that has arrived can be late.
GiveUpArrived(c) ==
    /\ state[c] = "up" /\ waiting[c] # 0
    /\ Has(ProcessOf[c], waiting[c])
    /\ waiting' = [waiting EXCEPT ![c] = 0]
    /\ state' = [state EXCEPT ![c] = "closing"]
    /\ UNCHANGED <<storeVars, link, persistent, issued, auxVars>>

\* HandleSlowUpdate(): the token has not arrived after 2 s.
GiveUp(c) ==
    /\ state[c] = "up" /\ waiting[c] # 0
    /\ ~Has(ProcessOf[c], waiting[c])
    /\ waiting' = [waiting EXCEPT ![c] = 0]
    /\ state' = [state EXCEPT ![c] = "closing"]
    /\ UNCHANGED <<storeVars, link, persistent, issued, auxVars>>

\* CreateGame, JoinGame and JoinRandomGame send the client to a game server.
Route(c) ==
    /\ state[c] = "up" /\ Role[c] = "master"
    /\ SyncAndStore(c)
    /\ persistent' = [persistent EXCEPT ![c] = {}]
    /\ UNCHANGED <<state, waiting, issued>>

\* The connection is lost or closed by its client, or a limit is reached.
Lose(c) ==
    /\ state[c] = "up"
    /\ state' = [state EXCEPT ![c] = "closing"]
    /\ waiting' = [waiting EXCEPT ![c] = 0]
    /\ UNCHANGED <<storeVars, link, persistent, issued, auxVars>>

\* The handler is destroyed, in a scheduled task after the disconnect.
Destroy(c) ==
    /\ state[c] = "closing"
    /\ \/ SyncAndStore(c)
       \/ persistent[c] = {} /\ UNCHANGED <<storeVars, link, auxVars>>
    /\ state' = [state EXCEPT ![c] = "up"]
    /\ persistent' = [persistent EXCEPT ![c] = {}]
    /\ UNCHANGED <<waiting, issued>>

-----------------------------------------------------------------------------
(* Processes. *)

\* Mutant: any timer of the token erases it.
ExpiredToken(p, tm) == {r \in kept[p] : r.token = tm.token}

Expired(p, tm) == {r \in kept[p] : r = tm}

\* A timer of store_persistent_peer().
Expire(p, tm) ==
    /\ tm \in timers[p]
    /\ timers' = [timers EXCEPT ![p] = @ \ {tm}]
    /\ kept' = [kept EXCEPT ![p] = @ \ Expired(p, tm)]
    /\ handed' = IF tm \in kept[p] /\ ~StoreComing(tm.token, p)
                 THEN handed \ {<<tm.token, p>>} ELSE handed
    /\ outlived' = IF tm \in kept[p] /\ ~StoreComing(tm.token, p)
                   THEN outlived \ {<<tm.token, p>>} ELSE outlived
    /\ UNCHANGED <<generation, link, state, persistent, waiting, issued, doubled>>

\* Mutant: a copy of the generation that was consumed stays.
DroppedOlder(r, m) == r.token = m.token /\ r.generation < m.revision

Dropped(r, m) == r.token = m.token /\ r.generation <= m.revision

\* process_ipc_event(): a copy is dropped unless it is newer, a peer is stored
\* unless a newer one is there, by the generations of two processes.
Receive(l) ==
    LET p == l[2]
        m == Head(link[l])
    IN  /\ link[l] # << >>
        /\ link' = [link EXCEPT ![l] = Tail(@)]
        /\ UNCHANGED <<state, persistent, waiting, issued, handed, doubled>>
        /\ \/ /\ m.code = "consume"
              /\ kept' = [kept EXCEPT ![p] = {r \in @ : ~Dropped(r, m)}]
              /\ outlived' = IF \E r \in kept[p] : r.token = m.token /\ r.generation > m.revision
                             THEN outlived \cup {<<m.token, p>>} ELSE outlived
              /\ UNCHANGED <<generation, timers>>
           \/ /\ m.code = "store"
              /\ IF \E r \in kept[p] : r.token = m.token /\ r.generation > m.revision
                 THEN UNCHANGED <<storeVars, outlived>>
                 ELSE Store(p, m.token) /\ Renewed(m.token, p)

-----------------------------------------------------------------------------

SlowUpdate(c) == (\E s \in {"up", "closing"} : Retry(c, s)) \/ GiveUp(c)

Next ==
    \/ \E c \in Conns :
          \/ Login(c)
          \/ Route(c)
          \/ Lose(c)
          \/ Destroy(c)
          \/ SlowUpdate(c)
          \/ \E t \in 1 .. issued :
                \/ FrontAuthenticate(c, t)
                \/ FrontRefuse(c, t)
                \/ \E s \in {"up", "closing"} : GameAuthenticate(c, t, s)
                \/ GamePark(c, t)
    \/ \E p \in Processes : \E tm \in timers[p] : Expire(p, tm)
    \/ \E l \in Links : Receive(l)

Spec == Init /\ [][Next]_vars

\* run_once() updates every connection again and again.
FairSpec == Spec /\ \A c \in Conns : WF_vars(SlowUpdate(c))

-----------------------------------------------------------------------------
(* Properties. *)

\* A session that was stored can be loaded, in the process that stored it and
\* in its neighbours, or is on its way there, until it is loaded somewhere or
\* its own timer expires: no timer of an earlier store, no late message about
\* an earlier use of the token takes it away.  (Unless one token is used by two
\* connections at once.)
HandedOver ==
    \A h \in handed : h[1] \notin doubled => Has(h[2], h[1]) \/ StoreComing(h[1], h[2])

\* What a process keeps does not stay for ever: each record has a timer of its
\* own, and each token one record.
KeptExpires ==
    \A p \in Processes :
        /\ kept[p] \subseteq timers[p]
        /\ \A r, s \in kept[p] : r.token = s.token => r = s

\* A request that waits for its token is answered: the client is authenticated
\* or the connection closes.
WaitEnds == \A c \in Conns : waiting[c] # 0 ~> persistent[c] # {} \/ state[c] # "up"

\* A token that was loaded, and not stored again since, cannot be loaded in
\* another process once all messages are delivered ("a delayed re-route can
\* never resurrect a token that another process has already consumed"), but for
\* the copies that the consumption does not reach or that count as newer.
\* (Unless two connections use the token at once.)
ConsumedOnce ==
    (\A l \in Links : link[l] = << >>) =>
        \A p \in Processes : \A r \in kept[p] :
            r.token \notin doubled => <<r.token, p>> \in handed \cup outlived

-----------------------------------------------------------------------------
(* The inductive invariant of the handover. *)

TokensIssued ==
    /\ \A p \in Processes : \A r \in kept[p] : r.token <= issued
    /\ \A c \in Conns : \A r \in persistent[c] : r.token <= issued
    /\ \A l \in Links : \A i \in 1 .. Len(link[l]) : link[l][i].token <= issued
    /\ \A h \in handed : h[1] <= issued

\* Who holds a session is the one whose loading it is being announced.
HolderConsumes ==
    \A c \in Conns : \A r \in persistent[c] : r.token \notin doubled =>
        \A l \in Links : ConsumeIn(link[l], r.token) => l[1] = ProcessOf[c]

\* A consumption in the queue q is followed by a store of the token.
Redone(q, t) ==
    \A i \in 1 .. Len(q) : IsConsume(q[i], t) =>
        \E j \in 1 .. Len(q) : i < j /\ IsStore(q[j], t)

\* A consumption that is on its way to where a session was handed over is of an
\* earlier use: the store comes behind it.
ConsumeRedone ==
    \A h \in handed : h[1] \notin doubled =>
        \A l \in Links : l[2] = h[2] => Redone(link[l], h[1])

HandoverInv ==
    /\ TypeOK
    /\ KeptExpires
    /\ TokensIssued
    /\ HolderConsumes
    /\ ConsumeRedone
    /\ HandedOver

-----------------------------------------------------------------------------
(* The inductive invariant of the consumption. *)

\* The queue q holds a store of t that no consumption follows.
LastStore(q, t) ==
    \E i \in 1 .. Len(q) :
        IsStore(q[i], t) /\ \A j \in 1 .. Len(q) : i < j => ~IsConsume(q[j], t)

\* Between two stores of t the queue q holds a consumption.
Alternates(q, t) ==
    \A i, j \in 1 .. Len(q) : i < j /\ IsStore(q[i], t) /\ IsStore(q[j], t) =>
        \E k \in 1 .. Len(q) : i < k /\ k < j /\ IsConsume(q[k], t)

ConsumeComing(t, p) == \E l \in Links : l[2] = p /\ ConsumeIn(link[l], t)

\* One connection holds a session, nobody is handed it meanwhile, and what its
\* process sent before is consumed.
HolderAlone(t) ==
    \A c \in Conns : \A r \in persistent[c] : r.token = t =>
        /\ \A d \in Conns : \A s \in persistent[d] : s.token = t => d = c
        /\ \A p \in Processes : <<t, p>> \notin handed
        /\ \A l \in Links : l[1] = ProcessOf[c] => ~LastStore(link[l], t)

StoresAlternate(t) == \A l \in Links : Alternates(link[l], t)

\* Where a session is not handed over, each store on its way is consumed behind
\* it and each copy is about to be.
ConsumeBehind(t) ==
    \A p \in Processes : <<t, p>> \notin handed \cup outlived =>
        /\ \A l \in Links : l[2] = p => ~LastStore(link[l], t)
        /\ Has(p, t) => ConsumeComing(t, p)

\* Where it is, a copy from before the store that is on its way is about to be
\* consumed.
StoreReplaces(t) ==
    \A p \in Processes : <<t, p>> \in handed \ outlived /\ Has(p, t) =>
        \A l \in Links : l[2] = p /\ LastStore(link[l], t) => ConsumeComing(t, p)

\* The stores on their way are of one process, and only it and its neighbours
\* are handed the session.
OneStorer(t) ==
    \A l \in Links : <<t, l[2]>> \notin outlived /\ LastStore(link[l], t) =>
        /\ \A k \in Links : <<t, k[2]>> \notin outlived /\ LastStore(link[k], t) => k[1] = l[1]
        /\ \A p \in Processes : <<t, p>> \in handed => p \in {l[1]} \cup Neighbours[l[1]]

Flowing(t) == StoresAlternate(t) /\ ConsumeBehind(t) /\ StoreReplaces(t) /\ OneStorer(t)

ConsumptionInv ==
    /\ HandoverInv
    /\ \A t \in Tokens \ doubled : HolderAlone(t) /\ Flowing(t)
=============================================================================
