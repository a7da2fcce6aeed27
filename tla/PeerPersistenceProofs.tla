----------------------- MODULE PeerPersistenceProofs -----------------------
(***************************************************************************)
(* That what a process keeps of a session expires, that a session that was *)
(* handed over can be loaded until then, and that it can be loaded once,   *)
(* for every number of connections, tokens and stores and every tree of    *)
(* processes.                                                              *)
(*                                                                         *)
(* Both invariants follow the messages of one token.  HandoverInv keeps a  *)
(* store behind every consumption that may still hit a handed session;     *)
(* ConsumptionInv keeps a consumption behind every store and every copy of *)
(* a session that is handed no more.                                       *)
(***************************************************************************)
EXTENDS PeerPersistence, TLAPS

PersistenceInv == TypeOK /\ KeptExpires

\* The part of the invariant that is about the stores.
StoreOK ==
    /\ kept \in [Processes -> SUBSET Peer]
    /\ generation \in [Processes -> Generations]
    /\ timers \in [Processes -> SUBSET Peer]
    /\ KeptExpires

\* The part that is about messages and connections.
RestOK ==
    /\ link \in [Links -> Seq(Message)]
    /\ state \in [Conns -> {"up", "closing"}]
    /\ persistent \in [Conns -> SUBSET Peer]
    /\ waiting \in [Conns -> {0} \cup Tokens]
    /\ issued \in {0} \cup Tokens
    /\ handed \in SUBSET (Tokens \X Processes)
    /\ doubled \in SUBSET Tokens
    /\ outlived \in SUBSET (Tokens \X Processes)

LEMMA Parts == PersistenceInv <=> StoreOK /\ RestOK
BY DEF PersistenceInv, TypeOK, StoreOK, RestOK

LEMMA PartsPrimed == PersistenceInv' <=> StoreOK' /\ RestOK'
BY DEF PersistenceInv, TypeOK, StoreOK, RestOK

LEMMA StoreUnchanged == StoreOK /\ UNCHANGED storeVars => StoreOK'
BY DEF StoreOK, KeptExpires, storeVars

-----------------------------------------------------------------------------
(* The messages. *)

LEMMA BroadcastType ==
    ASSUME link \in [Links -> Seq(Message)], NEW p, NEW m \in Message, Broadcast(p, m)
    PROVE  link' \in [Links -> Seq(Message)]
BY DEF Broadcast

LEMMA MessageOfPeer ==
    ASSUME NEW r \in Peer
    PROVE  StoreOf(r) \in Message /\ ConsumeOf(r) \in Message
BY DEF Peer, Message, StoreOf, ConsumeOf

LEMMA Popped ==
    ASSUME link \in [Links -> Seq(Message)], NEW l \in Links, link[l] # << >>,
           link' = [link EXCEPT ![l] = Tail(@)]
    PROVE  link' \in [Links -> Seq(Message)] /\ Head(link[l]) \in Message
OBVIOUS

-----------------------------------------------------------------------------
(* The stores. *)

\* A store of a process that keeps less, and the timers of what it keeps.
LEMMA StoreShrinks ==
    ASSUME StoreOK, NEW p \in Processes, NEW K \in SUBSET kept[p], NEW T \in SUBSET Peer,
           K \subseteq T,
           kept' = [kept EXCEPT ![p] = K], timers' = [timers EXCEPT ![p] = T],
           generation' = generation
    PROVE  StoreOK'
<1>1. kept[p] \subseteq Peer
  BY DEF StoreOK
<1>2. kept' \in [Processes -> SUBSET Peer] /\ timers' \in [Processes -> SUBSET Peer]
  BY <1>1 DEF StoreOK
<1>3. ASSUME NEW q \in Processes
      PROVE  /\ kept'[q] \subseteq timers'[q]
             /\ \A r, s \in kept'[q] : r.token = s.token => r = s
  <2>1. kept'[q] \subseteq kept[q]
    BY DEF StoreOK
  <2>2. kept'[q] \subseteq timers'[q]
    BY DEF StoreOK, KeptExpires
  <2>. QED BY <2>1, <2>2 DEF StoreOK, KeptExpires
<1>. QED BY <1>2, <1>3 DEF StoreOK, KeptExpires

LEMMA StoreShrinksOnly ==
    ASSUME StoreOK, NEW p \in Processes, NEW K \in SUBSET kept[p],
           kept' = [kept EXCEPT ![p] = K], UNCHANGED <<generation, timers>>
    PROVE  StoreOK'
<1>1. timers' = [timers EXCEPT ![p] = timers[p]] /\ timers[p] \in SUBSET Peer
  BY DEF StoreOK
<1>2. K \subseteq timers[p]
  BY DEF StoreOK, KeptExpires
<1>. QED BY <1>1, <1>2, StoreShrinks

\* store_persistent_peer()
LEMMA StoreStores ==
    ASSUME StoreOK, NEW p \in Processes, NEW t \in Tokens, Store(p, t)
    PROVE  StoreOK'
<1>. DEFINE r == [token |-> t, generation |-> generation[p] + 1]
            K == {s \in kept[p] : s.token # t}
<1>0. generation[p] \in Nat /\ generation[p] < MaxGeneration /\ MaxGeneration \in Nat
  BY PersistenceAssumption DEF StoreOK, Store, Generations
<1>1. generation[p] + 1 \in Generations
  BY <1>0 DEF Generations
<1>2. r \in Peer /\ r.token = t
  BY <1>1 DEF Peer
<1>3. /\ kept' = [kept EXCEPT ![p] = K \cup {r}]
      /\ timers' = [timers EXCEPT ![p] = timers[p] \cup {r}]
      /\ generation' = [generation EXCEPT ![p] = generation[p] + 1]
  BY DEF Store, TimerOf, StoreOK
<1>4. K \subseteq kept[p] /\ \A s \in K : s.token # t
  OBVIOUS
<1>. HIDE DEF r, K
<1>5. generation' \in [Processes -> Generations]
  BY <1>1, <1>3 DEF StoreOK
<1>6. kept[p] \subseteq Peer /\ timers[p] \subseteq Peer /\ kept[p] \subseteq timers[p]
  BY DEF StoreOK, KeptExpires
<1>7. kept' \in [Processes -> SUBSET Peer] /\ timers' \in [Processes -> SUBSET Peer]
  BY <1>2, <1>3, <1>4, <1>6 DEF StoreOK
<1>8. ASSUME NEW q \in Processes
      PROVE  /\ kept'[q] \subseteq timers'[q]
             /\ \A a, b \in kept'[q] : a.token = b.token => a = b
  <2>1. CASE q = p
    <3>1. kept'[q] = K \cup {r} /\ timers'[q] = timers[p] \cup {r}
      BY <1>3, <2>1 DEF StoreOK
    <3>2. \A a, b \in kept[p] : a.token = b.token => a = b
      BY DEF StoreOK, KeptExpires
    <3>. QED BY <1>2, <1>4, <1>6, <3>1, <3>2
  <2>2. CASE q # p
    BY <1>3, <2>2 DEF StoreOK, KeptExpires
  <2>. QED BY <2>1, <2>2
<1>. QED BY <1>5, <1>7, <1>8 DEF StoreOK, KeptExpires

LEMMA SyncStores ==
    ASSUME PersistenceInv, NEW c \in Conns, SyncAndStore(c)
    PROVE  /\ StoreOK'
           /\ link' \in [Links -> Seq(Message)]
           /\ handed' \in SUBSET (Tokens \X Processes)
           /\ doubled' \in SUBSET Tokens
           /\ outlived' \in SUBSET (Tokens \X Processes)
<1>. DEFINE p == ProcessOf[c]
<1>1. PICK r \in persistent[c] :
          /\ Synced(p, r)
          /\ Store(p, r.token)
          /\ handed' = handed \cup ({r.token} \X ({p} \cup Neighbours[p]))
          /\ Renewed(r.token, p)
          /\ UNCHANGED doubled
  BY DEF SyncAndStore
<1>2. StoreOK /\ RestOK /\ p \in Processes
  BY Parts, PersistenceAssumption
<1>3. r \in Peer /\ r.token \in Tokens
  BY <1>2 DEF RestOK, Peer
<1>4. Neighbours[p] \subseteq Processes
  BY <1>2, PersistenceAssumption
<1>. HIDE DEF p
<1>5. StoreOK'
  BY <1>1, <1>2, <1>3, StoreStores
<1>6. link' \in [Links -> Seq(Message)]
  BY <1>1, <1>2, <1>3, MessageOfPeer, BroadcastType DEF Synced, RestOK
<1>7. handed' \in SUBSET (Tokens \X Processes)
  BY <1>1, <1>2, <1>3, <1>4 DEF RestOK
<1>8. outlived' \in SUBSET (Tokens \X Processes)
  BY <1>1, <1>2 DEF RestOK, Renewed
<1>. QED BY <1>1, <1>2, <1>5, <1>6, <1>7, <1>8 DEF RestOK

\* load_persistent_peer()
LEMMA Loads ==
    ASSUME PersistenceInv, NEW p \in Processes, NEW r, Load(p, r)
    PROVE  /\ StoreOK'
           /\ r \in Peer
           /\ link' \in [Links -> Seq(Message)]
           /\ handed' \in SUBSET (Tokens \X Processes)
           /\ doubled' \in SUBSET Tokens
           /\ outlived' \in SUBSET (Tokens \X Processes)
<1>1. StoreOK /\ RestOK
  BY Parts
<1>2. r \in Peer /\ r.token \in Tokens
  BY <1>1 DEF Load, StoreOK, Peer
<1>3. StoreOK'
  <2>1. kept' = [kept EXCEPT ![p] = kept[p] \ {r}] /\ UNCHANGED <<generation, timers>>
    BY <1>1 DEF Load, StoreOK
  <2>. QED BY <1>1, <2>1, StoreShrinksOnly
<1>4. link' \in [Links -> Seq(Message)]
  BY <1>1, <1>2, MessageOfPeer, BroadcastType DEF Load, RestOK
<1>5. Unreached(p, r.token) \subseteq Processes
  BY DEF Unreached
<1>6. outlived' \in SUBSET (Tokens \X Processes)
  BY <1>1, <1>2, <1>5 DEF Load, RestOK
<1>. QED BY <1>1, <1>2, <1>3, <1>4, <1>6 DEF Load, RestOK

-----------------------------------------------------------------------------

LEMMA InitPersistence == Init => PersistenceInv
BY PersistenceAssumption DEF Init, PersistenceInv, TypeOK, KeptExpires, Generations

\* A game server takes a peer over.
LEMMA GameLoads ==
    ASSUME PersistenceInv, NEW c \in Conns, NEW t, NEW s \in {"up", "closing"},
           GameLoad(c, t, s), waiting' \in [Conns -> {0} \cup Tokens]
    PROVE  PersistenceInv'
<1>. DEFINE p == ProcessOf[c]
<1>1. PICK r \in kept[p] : Load(p, r) /\ persistent' = [persistent EXCEPT ![c] = {r}]
  BY DEF GameLoad
<1>2. p \in Processes
  BY PersistenceAssumption
<1>. HIDE DEF p
<1>3. /\ StoreOK' /\ r \in Peer /\ link' \in [Links -> Seq(Message)]
      /\ handed' \in SUBSET (Tokens \X Processes) /\ doubled' \in SUBSET Tokens
      /\ outlived' \in SUBSET (Tokens \X Processes)
  BY <1>1, <1>2, Loads
<1>4. RestOK
  BY Parts
<1>5. persistent' \in [Conns -> SUBSET Peer]
  BY <1>1, <1>3, <1>4 DEF RestOK
<1>6. state' \in [Conns -> {"up", "closing"}] /\ issued' \in {0} \cup Tokens
  BY <1>4 DEF GameLoad, RestOK
<1>. QED BY <1>3, <1>5, <1>6, PartsPrimed DEF RestOK

LEMMA NextPersistence == PersistenceInv /\ [Next]_vars => PersistenceInv'
<1>. SUFFICES ASSUME PersistenceInv, [Next]_vars PROVE PersistenceInv'
  OBVIOUS
<1>0. StoreOK /\ RestOK
  BY Parts
<1>n. issued < MaxToken => issued + 1 \in Tokens
  BY <1>0, PersistenceAssumption DEF RestOK, Tokens
<1>t. \A t \in 1 .. issued : t \in Tokens
  BY <1>0, PersistenceAssumption DEF RestOK, Tokens
<1>1. ASSUME NEW c \in Conns, Login(c) PROVE PersistenceInv'
  <2>1. issued + 1 \in Tokens
    BY <1>1, <1>n DEF Login
  <2>2. [token |-> issued + 1, generation |-> 0] \in Peer
    BY <2>1, PersistenceAssumption DEF Peer, Generations
  <2>3. StoreOK'
    BY <1>0, <1>1, StoreUnchanged DEF Login
  <2>4. RestOK'
    BY <1>0, <1>1, <2>1, <2>2 DEF Login, RestOK, auxVars
  <2>. QED BY <2>3, <2>4, PartsPrimed
<1>2. ASSUME NEW c \in Conns, Route(c) PROVE PersistenceInv'
  <2>1. /\ StoreOK' /\ link' \in [Links -> Seq(Message)]
        /\ handed' \in SUBSET (Tokens \X Processes) /\ doubled' \in SUBSET Tokens
        /\ outlived' \in SUBSET (Tokens \X Processes)
    BY <1>2, SyncStores DEF Route
  <2>2. RestOK'
    BY <1>0, <1>2, <2>1 DEF Route, RestOK
  <2>. QED BY <2>1, <2>2, PartsPrimed
<1>3. ASSUME NEW c \in Conns, Lose(c) PROVE PersistenceInv'
  <2>1. StoreOK' BY <1>0, <1>3, StoreUnchanged DEF Lose
  <2>2. RestOK' BY <1>0, <1>3 DEF Lose, RestOK, auxVars
  <2>. QED BY <2>1, <2>2, PartsPrimed
<1>4. ASSUME NEW c \in Conns, Destroy(c) PROVE PersistenceInv'
  <2>1. /\ StoreOK' /\ link' \in [Links -> Seq(Message)]
        /\ handed' \in SUBSET (Tokens \X Processes) /\ doubled' \in SUBSET Tokens
        /\ outlived' \in SUBSET (Tokens \X Processes)
    <3>1. CASE SyncAndStore(c)
      BY <3>1, SyncStores
    <3>2. CASE UNCHANGED <<storeVars, link, auxVars>>
      BY <1>0, <3>2, StoreUnchanged DEF auxVars, RestOK
    <3>. QED BY <1>4, <3>1, <3>2 DEF Destroy
  <2>2. RestOK'
    BY <1>0, <1>4, <2>1 DEF Destroy, RestOK
  <2>. QED BY <2>1, <2>2, PartsPrimed
<1>5. ASSUME NEW c \in Conns, NEW s \in {"up", "closing"}, Retry(c, s) PROVE PersistenceInv'
  <2>1. waiting' \in [Conns -> {0} \cup Tokens]
    BY <1>0, <1>5 DEF Retry, RestOK
  <2>2. CASE GameLoad(c, waiting[c], s)
    BY <2>1, <2>2, GameLoads
  <2>3. CASE UNCHANGED <<storeVars, link, state, persistent, issued, auxVars>>
    <3>1. StoreOK' BY <1>0, <2>3, StoreUnchanged
    <3>2. RestOK' BY <1>0, <2>1, <2>3 DEF RestOK, auxVars
    <3>. QED BY <3>1, <3>2, PartsPrimed
  <2>. QED BY <1>5, <2>2, <2>3 DEF Retry
<1>6. ASSUME NEW c \in Conns, GiveUp(c) PROVE PersistenceInv'
  <2>1. StoreOK' BY <1>0, <1>6, StoreUnchanged DEF GiveUp
  <2>2. RestOK' BY <1>0, <1>6 DEF GiveUp, RestOK, auxVars
  <2>. QED BY <2>1, <2>2, PartsPrimed
<1>7. ASSUME NEW c \in Conns, NEW t \in 1 .. issued, FrontAuthenticate(c, t)
      PROVE  PersistenceInv'
  <2>. DEFINE p == ProcessOf[c]
  <2>1. PICK r \in kept[p] :
            Load(p, r) /\ persistent' = [persistent EXCEPT ![c] = {[r EXCEPT !.token = issued + 1]}]
    BY <1>7 DEF FrontAuthenticate
  <2>2. p \in Processes
    BY PersistenceAssumption
  <2>. HIDE DEF p
  <2>3. /\ StoreOK' /\ r \in Peer /\ link' \in [Links -> Seq(Message)]
        /\ handed' \in SUBSET (Tokens \X Processes) /\ doubled' \in SUBSET Tokens
        /\ outlived' \in SUBSET (Tokens \X Processes)
    BY <2>1, <2>2, Loads
  <2>4. issued + 1 \in Tokens
    BY <1>7, <1>n DEF FrontAuthenticate
  <2>5. [r EXCEPT !.token = issued + 1] \in Peer
    BY <2>3, <2>4 DEF Peer
  <2>6. RestOK'
    BY <1>0, <1>7, <2>1, <2>3, <2>4, <2>5 DEF FrontAuthenticate, RestOK
  <2>. QED BY <2>3, <2>6, PartsPrimed
<1>8. ASSUME NEW c \in Conns, NEW t \in 1 .. issued, FrontRefuse(c, t) PROVE PersistenceInv'
  <2>1. StoreOK' BY <1>0, <1>8, StoreUnchanged DEF FrontRefuse
  <2>2. RestOK' BY <1>0, <1>8 DEF FrontRefuse, RestOK, auxVars
  <2>. QED BY <2>1, <2>2, PartsPrimed
<1>9. ASSUME NEW c \in Conns, NEW t \in 1 .. issued, NEW s \in {"up", "closing"},
             GameAuthenticate(c, t, s)
      PROVE  PersistenceInv'
  <2>1. waiting' \in [Conns -> {0} \cup Tokens]
    BY <1>0, <1>9 DEF GameAuthenticate, RestOK
  <2>. QED BY <1>9, <2>1, GameLoads DEF GameAuthenticate
<1>10. ASSUME NEW c \in Conns, NEW t \in 1 .. issued, GamePark(c, t) PROVE PersistenceInv'
  <2>1. StoreOK' BY <1>0, <1>10, StoreUnchanged DEF GamePark
  <2>2. RestOK' BY <1>0, <1>10, <1>t DEF GamePark, RestOK, auxVars
  <2>. QED BY <2>1, <2>2, PartsPrimed
<1>11. ASSUME NEW p \in Processes, NEW tm \in timers[p], Expire(p, tm) PROVE PersistenceInv'
  <2>1. StoreOK'
    <3>. DEFINE K == kept[p] \ Expired(p, tm)
                T == timers[p] \ {tm}
    <3>1. K \in SUBSET kept[p] /\ T \in SUBSET Peer
      BY <1>0 DEF StoreOK
    <3>2. K \subseteq T
      BY <1>0 DEF StoreOK, KeptExpires, Expired
    <3>3. kept' = [kept EXCEPT ![p] = K] /\ timers' = [timers EXCEPT ![p] = T]
          /\ generation' = generation
      BY <1>0, <1>11 DEF Expire, StoreOK
    <3>. HIDE DEF K, T
    <3>. QED BY <1>0, <3>1, <3>2, <3>3, StoreShrinks
  <2>2. RestOK' BY <1>0, <1>11 DEF Expire, RestOK
  <2>. QED BY <2>1, <2>2, PartsPrimed
<1>12. ASSUME NEW l \in Links, Receive(l) PROVE PersistenceInv'
  <2>. DEFINE p == l[2]
              m == Head(link[l])
  <2>1. link' \in [Links -> Seq(Message)] /\ m \in Message
    BY <1>0, <1>12, Popped DEF Receive, RestOK
  <2>2. p \in Processes
    BY DEF Links
  <2>3. m.token \in Tokens
    BY <2>1 DEF Message
  <2>4. StoreOK'
    <3>. DEFINE K == {r \in kept[p] : ~Dropped(r, m)}
    <3>1. CASE kept' = [kept EXCEPT ![p] = K] /\ UNCHANGED <<generation, timers>>
      <4>1. K \in SUBSET kept[p]
        OBVIOUS
      <4>. HIDE DEF K
      <4>. QED BY <1>0, <2>2, <3>1, <4>1, StoreShrinksOnly
    <3>2. CASE UNCHANGED storeVars
      BY <1>0, <3>2, StoreUnchanged
    <3>3. CASE Store(p, m.token)
      BY <1>0, <2>2, <2>3, <3>3, StoreStores
    <3>4. \/ kept' = [kept EXCEPT ![p] = K] /\ UNCHANGED <<generation, timers>>
          \/ UNCHANGED storeVars
          \/ Store(p, m.token)
      BY <1>0, <1>12, <2>2 DEF Receive, StoreOK
    <3>. QED BY <3>1, <3>2, <3>3, <3>4
  <2>5. outlived' \in SUBSET (Tokens \X Processes)
    BY <1>0, <1>12, <2>2, <2>3 DEF Receive, RestOK, Renewed
  <2>6. RestOK' BY <1>0, <1>12, <2>1, <2>5 DEF Receive, RestOK
  <2>. QED BY <2>4, <2>6, PartsPrimed
<1>13. CASE UNCHANGED vars
  BY <1>13 DEF vars, PersistenceInv, TypeOK, KeptExpires
<1>. QED BY <1>1, <1>2, <1>3, <1>4, <1>5, <1>6, <1>7, <1>8, <1>9, <1>10, <1>11, <1>12, <1>13
     DEF Next, SlowUpdate

\* store_persistent_peer() schedules a task for each record that it keeps, and
\* nothing makes a process forget the task of a record it still has: whatever
\* a client does with its tokens, and whatever other processes send, no record
\* stays for ever and no token has two.
THEOREM KeptRecordsExpire == Spec => []KeptExpires
<1>1. PersistenceInv => KeptExpires
  BY DEF PersistenceInv
<1>. QED BY <1>1, InitPersistence, NextPersistence, PTL DEF Spec

-----------------------------------------------------------------------------
(* Queues that hold consumptions and stores. *)

LEMMA AppendedPositions ==
    ASSUME NEW q \in Seq(Message), NEW m \in Message
    PROVE  /\ Append(q, m) \in Seq(Message)
           /\ Len(q) \in Nat /\ Len(Append(q, m)) = Len(q) + 1
           /\ \A i \in 1 .. Len(q) : i \in 1 .. Len(Append(q, m)) /\ Append(q, m)[i] = q[i]
           /\ Append(q, m)[Len(q) + 1] = m
           /\ \A i \in 1 .. Len(Append(q, m)) : i \in 1 .. Len(q) \/ i = Len(q) + 1
OBVIOUS

LEMMA AppendedMessages ==
    ASSUME NEW q \in Seq(Message), NEW m \in Message, NEW t
    PROVE  /\ ConsumeIn(Append(q, m), t) <=> ConsumeIn(q, t) \/ IsConsume(m, t)
           /\ StoreIn(Append(q, m), t) <=> StoreIn(q, t) \/ IsStore(m, t)
<1> DEFINE a == Append(q, m)
<1>1. /\ Len(q) \in Nat /\ Len(a) = Len(q) + 1
      /\ \A i \in 1 .. Len(q) : i \in 1 .. Len(a) /\ a[i] = q[i]
      /\ a[Len(q) + 1] = m
      /\ \A i \in 1 .. Len(a) : i \in 1 .. Len(q) \/ i = Len(q) + 1
  BY AppendedPositions
<1>2. Len(q) + 1 \in 1 .. Len(a)
  BY <1>1
<1> HIDE DEF a
<1>3. /\ ConsumeIn(a, t) <=> ConsumeIn(q, t) \/ IsConsume(m, t)
      /\ StoreIn(a, t) <=> StoreIn(q, t) \/ IsStore(m, t)
  BY <1>1, <1>2, Zenon DEF ConsumeIn, StoreIn
<1> QED
  BY <1>3 DEF a

\* A store behind it, or anything else, keeps consumptions followed by a store.
LEMMA AppendedRedone ==
    ASSUME NEW q \in Seq(Message), NEW m \in Message, NEW t
    PROVE  /\ Redone(q, t) /\ ~IsConsume(m, t) => Redone(Append(q, m), t)
           /\ IsStore(m, t) => Redone(Append(q, m), t)
           /\ ~ConsumeIn(q, t) => Redone(q, t)
<1> DEFINE a == Append(q, m)
<1>1. /\ Len(q) \in Nat /\ Len(a) = Len(q) + 1
      /\ \A i \in 1 .. Len(q) : i \in 1 .. Len(a) /\ a[i] = q[i]
      /\ a[Len(q) + 1] = m
      /\ \A i \in 1 .. Len(a) : i \in 1 .. Len(q) \/ i = Len(q) + 1
  BY AppendedPositions
<1>2. Len(q) + 1 \in 1 .. Len(a) /\ \A i \in 1 .. Len(q) : i < Len(q) + 1
  BY <1>1
<1>3. IsStore(m, t) => ~IsConsume(m, t)
  BY DEF IsStore, IsConsume
<1>4. ~ConsumeIn(q, t) => Redone(q, t)
  BY DEF ConsumeIn, Redone
<1> HIDE DEF a
<1>5. ASSUME Redone(q, t), ~IsConsume(m, t), NEW i \in 1 .. Len(a), IsConsume(a[i], t)
      PROVE  \E j \in 1 .. Len(a) : i < j /\ IsStore(a[j], t)
  <2>1. i \in 1 .. Len(q) /\ IsConsume(q[i], t)
    BY <1>1, <1>5
  <2>2. PICK j \in 1 .. Len(q) : i < j /\ IsStore(q[j], t)
    BY <1>5, <2>1 DEF Redone
  <2> QED
    BY <1>1, <2>2
<1>6. ASSUME IsStore(m, t), NEW i \in 1 .. Len(a), IsConsume(a[i], t)
      PROVE  \E j \in 1 .. Len(a) : i < j /\ IsStore(a[j], t)
  <2>1. i \in 1 .. Len(q)
    BY <1>1, <1>3, <1>6
  <2> QED
    BY <1>1, <1>2, <1>6, <2>1
<1> QED
  BY <1>4, <1>5, <1>6 DEF Redone, a

LEMMA PoppedMessages ==
    ASSUME NEW q \in Seq(Message), q # << >>, NEW t
    PROVE  /\ ConsumeIn(Tail(q), t) => ConsumeIn(q, t)
           /\ StoreIn(q, t) => StoreIn(Tail(q), t) \/ IsStore(Head(q), t)
           /\ Redone(q, t) => Redone(Tail(q), t)
           /\ Redone(q, t) /\ IsConsume(Head(q), t) => StoreIn(Tail(q), t)
<1> DEFINE b == Tail(q)
<1>1. /\ Len(q) \in Nat /\ Len(q) >= 1 /\ Len(b) = Len(q) - 1
      /\ \A i \in 1 .. Len(b) : b[i] = q[i + 1]
      /\ Head(q) = q[1]
  OBVIOUS
<1>2. /\ \A i \in 1 .. Len(b) : i + 1 \in 1 .. Len(q)
      /\ \A i \in 1 .. Len(q) : i = 1 \/ (i - 1 \in 1 .. Len(b) /\ (i - 1) + 1 = i)
      /\ 1 \in 1 .. Len(q)
  BY <1>1
<1> HIDE DEF b
<1>3. \A i \in 1 .. Len(q) : i # 1 => i - 1 \in 1 .. Len(b) /\ b[i - 1] = q[i]
  BY <1>1, <1>2
<1>4. ConsumeIn(b, t) => ConsumeIn(q, t)
  BY <1>1, <1>2 DEF ConsumeIn
<1>5. StoreIn(q, t) => StoreIn(b, t) \/ IsStore(q[1], t)
  BY <1>3 DEF StoreIn
<1>6. ASSUME Redone(q, t), NEW i \in 1 .. Len(b), IsConsume(b[i], t)
      PROVE  \E j \in 1 .. Len(b) : i < j /\ IsStore(b[j], t)
  <2>1. i + 1 \in 1 .. Len(q) /\ IsConsume(q[i + 1], t)
    BY <1>1, <1>2, <1>6
  <2>2. PICK j \in 1 .. Len(q) : i + 1 < j /\ IsStore(q[j], t)
    BY <1>6, <2>1 DEF Redone
  <2>3. j # 1 /\ i < j - 1
    BY <2>2
  <2> QED
    BY <1>3, <2>2, <2>3
<1>7. ASSUME Redone(q, t), IsConsume(q[1], t) PROVE StoreIn(b, t)
  <2>1. PICK j \in 1 .. Len(q) : 1 < j /\ IsStore(q[j], t)
    BY <1>2, <1>7 DEF Redone
  <2> QED
    BY <1>3, <2>1 DEF StoreIn
<1> QED
  BY <1>1, <1>4, <1>5, <1>6, <1>7 DEF Redone, b

-----------------------------------------------------------------------------
(* The handover. *)

\* The part of the invariant that is about the tokens on their way.
OnTheWay == TokensIssued /\ HolderConsumes /\ ConsumeRedone /\ HandedOver

LEMMA HandoverParts == HandoverInv <=> PersistenceInv /\ OnTheWay
BY DEF HandoverInv, PersistenceInv, OnTheWay

LEMMA HandoverPartsPrimed == HandoverInv' <=> PersistenceInv' /\ OnTheWay'
BY DEF HandoverInv, PersistenceInv, OnTheWay

LEMMA InitHandover == Init => HandoverInv
<1> SUFFICES ASSUME Init PROVE HandoverInv
  OBVIOUS
<1>1. TokensIssued
  BY DEF Init, TokensIssued
<1>2. HolderConsumes /\ ConsumeRedone /\ HandedOver
  BY DEF Init, HolderConsumes, ConsumeRedone, HandedOver
<1> QED
  BY <1>1, <1>2, InitPersistence, HandoverParts DEF OnTheWay

LEMMA NeighbourLinks ==
    /\ \A p \in Processes : \A q \in Neighbours[p] : <<p, q>> \in Links
    /\ \A l \in Links : l[1] \in Processes /\ l[2] \in Processes /\ l[1] # l[2]
<1>1. ASSUME NEW p \in Processes, NEW q \in Neighbours[p] PROVE <<p, q>> \in Links
  <2>1. q \in Processes
    BY PersistenceAssumption
  <2>2. <<p, q>> \in Processes \X Processes /\ <<p, q>>[1] = p /\ <<p, q>>[2] = q
    BY <2>1
  <2> QED
    BY <2>2 DEF Links
<1>2. ASSUME NEW l \in Links PROVE l[1] \in Processes /\ l[2] \in Processes /\ l[1] # l[2]
  <2>1. l \in Processes \X Processes /\ l[2] \in Neighbours[l[1]]
    BY DEF Links
  <2> QED
    BY <2>1, PersistenceAssumption
<1> QED
  BY <1>1, <1>2

LEMMA HandoverTypes ==
    ASSUME HandoverInv
    PROVE  /\ kept \in [Processes -> SUBSET Peer]
           /\ link \in [Links -> Seq(Message)]
           /\ persistent \in [Conns -> SUBSET Peer]
           /\ issued \in Nat
           /\ handed \in SUBSET (Tokens \X Processes)
           /\ \A p \in Processes : \A r, s \in kept[p] : r.token = s.token => r = s
           /\ \A c \in Conns : ProcessOf[c] \in Processes
BY PersistenceAssumption DEF HandoverInv, TypeOK, KeptExpires, Tokens

\* A step that leaves the stores, the messages and what was handed over alone,
\* and gives a connection at most a new token.
LEMMA QuietHandover ==
    ASSUME HandoverInv, UNCHANGED <<kept, link, handed, doubled>>,
           issued' \in Nat, issued <= issued',
           \A c \in Conns : \A r \in persistent'[c] :
              r \in persistent[c] \/ (r.token > issued /\ r.token <= issued')
    PROVE  OnTheWay'
<1> USE HandoverTypes
<1>1. TokensIssued'
  <2>0. TokensIssued /\ issued \in Nat
    BY DEF HandoverInv
  <2>1. \A p \in Processes : \A r \in kept'[p] : r.token <= issued'
    <3> SUFFICES ASSUME NEW p \in Processes, NEW r \in kept[p] PROVE r.token <= issued'
      OBVIOUS
    <3>1. r.token \in Nat /\ r.token <= issued
      BY <2>0, PersistenceAssumption DEF TokensIssued, Peer, Tokens
    <3> QED
      BY <2>0, <3>1
  <2>2. \A c \in Conns : \A r \in persistent'[c] : r.token <= issued'
    <3> SUFFICES ASSUME NEW c \in Conns, NEW r \in persistent[c] PROVE r.token <= issued'
      OBVIOUS
    <3>1. r.token \in Nat /\ r.token <= issued
      BY <2>0, PersistenceAssumption DEF TokensIssued, Peer, Tokens
    <3> QED
      BY <2>0, <3>1
  <2>3. \A l \in Links : \A i \in 1 .. Len(link'[l]) : link'[l][i].token <= issued'
    <3> SUFFICES ASSUME NEW l \in Links, NEW i \in 1 .. Len(link[l])
                 PROVE  link[l][i].token <= issued'
      OBVIOUS
    <3>1. link[l][i] \in Message
      OBVIOUS
    <3>2. link[l][i].token \in Nat /\ link[l][i].token <= issued
      BY <2>0, <3>1, PersistenceAssumption DEF TokensIssued, Message, Tokens
    <3> QED
      BY <2>0, <3>2
  <2>4. \A h \in handed' : h[1] <= issued'
    <3> SUFFICES ASSUME NEW h \in handed PROVE h[1] <= issued'
      OBVIOUS
    <3>1. h[1] \in Nat /\ h[1] <= issued
      BY <2>0, PersistenceAssumption DEF TokensIssued, Tokens
    <3> QED
      BY <2>0, <3>1
  <2> QED
    BY <2>1, <2>2, <2>3, <2>4 DEF TokensIssued
<1>2. HolderConsumes'
  <2> SUFFICES ASSUME NEW c \in Conns, NEW r \in persistent'[c], r.token \notin doubled,
                      NEW l \in Links, ConsumeIn(link[l], r.token)
               PROVE  l[1] = ProcessOf[c]
    BY DEF HolderConsumes
  <2>1. CASE r \in persistent[c]
    BY <2>1 DEF HandoverInv, HolderConsumes
  <2>2. CASE r.token > issued
    <3>1. PICK i \in 1 .. Len(link[l]) : IsConsume(link[l][i], r.token)
      BY DEF ConsumeIn
    <3>2. link[l][i].token <= issued /\ link[l][i].token = r.token
      BY <3>1 DEF HandoverInv, TokensIssued, IsConsume
    <3>3. link[l][i] \in Message
      OBVIOUS
    <3>4. link[l][i].token \in Nat
      BY <3>3, PersistenceAssumption DEF Message, Tokens
    <3> QED
      BY <2>2, <3>2, <3>4
  <2> QED
    BY <2>1, <2>2
<1>3. ConsumeRedone'
  BY DEF HandoverInv, ConsumeRedone
<1>4. HandedOver'
  BY DEF HandoverInv, HandedOver, Has, StoreComing
<1> QED
  BY <1>1, <1>2, <1>3, <1>4 DEF OnTheWay

\* A session is sent to the neighbours and stored.
LEMMA SyncHandover ==
    ASSUME HandoverInv, NEW c \in Conns, SyncAndStore(c), issued' = issued,
           persistent' = [persistent EXCEPT ![c] = {}]
    PROVE  OnTheWay'
<1> DEFINE p == ProcessOf[c]
<1>1. PICK r \in persistent[c] :
          /\ Synced(p, r)
          /\ Store(p, r.token)
          /\ handed' = handed \cup ({r.token} \X ({p} \cup Neighbours[p]))
          /\ UNCHANGED doubled
  BY DEF SyncAndStore
<1> DEFINE t == r.token
           m == StoreOf(r)
<1>2. /\ kept \in [Processes -> SUBSET Peer] /\ link \in [Links -> Seq(Message)]
      /\ persistent \in [Conns -> SUBSET Peer]
      /\ handed \in SUBSET (Tokens \X Processes) /\ p \in Processes
  BY HandoverTypes
<1>3. m \in Message /\ IsStore(m, t) /\ (\A u : ~IsConsume(m, u)) /\ m.token = t
  BY <1>2, MessageOfPeer DEF StoreOf, IsStore, IsConsume
<1>4. \A l \in Links : link'[l] = IF l[1] = p THEN Append(link[l], m) ELSE link[l]
  BY <1>1 DEF Synced, Broadcast
<1>5. /\ \E n \in kept'[p] : n.token = t
      /\ \A n \in kept'[p] : n.token = t \/ n \in kept[p]
      /\ \A n \in kept[p] : n.token # t => n \in kept'[p]
      /\ \A q \in Processes : q # p => kept'[q] = kept[q]
  BY <1>1, <1>2 DEF Store
<1>6. \A d \in Conns : persistent'[d] \subseteq persistent[d]
  BY <1>2
<1> HIDE DEF p, m
<1>7. \A u : \A l \in Links : ConsumeIn(link'[l], u) <=> ConsumeIn(link[l], u)
  BY <1>2, <1>3, <1>4, AppendedMessages
<1>8. \A u : \A l \in Links : StoreIn(link[l], u) => StoreIn(link'[l], u)
  BY <1>2, <1>3, <1>4, AppendedMessages
<1>9. TokensIssued'
  <2>1. TokensIssued
    BY DEF HandoverInv
  <2>2. t <= issued
    BY <2>1 DEF TokensIssued
  <2>3. \A q \in Processes : \A n \in kept'[q] : n.token <= issued
    BY <1>5, <2>1, <2>2 DEF TokensIssued
  <2>4. ASSUME NEW l \in Links, NEW i \in 1 .. Len(link'[l])
        PROVE  link'[l][i].token <= issued
    <3>1. CASE l[1] = p
      <4>1. link[l] \in Seq(Message) /\ link'[l] = Append(link[l], m)
        BY <1>2, <1>4, <3>1
      <4>2. (i \in 1 .. Len(link[l]) /\ link'[l][i] = link[l][i]) \/ link'[l][i] = m
        BY <1>3, <4>1, AppendedPositions
      <4> QED
        BY <1>3, <2>1, <2>2, <4>2 DEF TokensIssued
    <3>2. CASE l[1] # p
      BY <1>4, <2>1, <3>2 DEF TokensIssued
    <3> QED
      BY <3>1, <3>2
  <2>5. \A h \in handed' : h[1] <= issued
    BY <1>1, <2>1, <2>2 DEF TokensIssued
  <2> QED
    BY <1>6, <2>1, <2>3, <2>4, <2>5 DEF TokensIssued
<1>10. HolderConsumes'
  BY <1>1, <1>6, <1>7 DEF HolderConsumes, HandoverInv
<1>11. ConsumeRedone'
  <2> SUFFICES ASSUME NEW h \in handed', h[1] \notin doubled, NEW l \in Links, l[2] = h[2]
               PROVE  Redone(link'[l], h[1])
    BY <1>1 DEF ConsumeRedone
  <2>1. CASE h[1] = t
    <3>1. CASE l[1] = p
      BY <1>2, <1>3, <1>4, <2>1, <3>1, AppendedRedone
    <3>2. CASE l[1] # p
      <4>1. ~ConsumeIn(link[l], t)
        BY <2>1, <3>2 DEF HandoverInv, HolderConsumes, p
      <4>2. ~ConsumeIn(link'[l], t)
        BY <1>7, <4>1
      <4> QED
        BY <2>1, <4>2 DEF Redone, ConsumeIn
    <3> QED
      BY <3>1, <3>2
  <2>2. CASE h[1] # t
    <3>1. h \in handed
      BY <1>1, <2>2
    <3>2. Redone(link[l], h[1])
      BY <3>1 DEF HandoverInv, ConsumeRedone
    <3> QED
      BY <1>2, <1>3, <1>4, <3>2, AppendedRedone
  <2> QED
    BY <2>1, <2>2
<1>12. HandedOver'
  <2> SUFFICES ASSUME NEW h \in handed', h[1] \notin doubled
               PROVE  Has(h[2], h[1])' \/ StoreComing(h[1], h[2])'
    BY <1>1 DEF HandedOver
  <2>1. CASE h \in handed
    <3>1. Has(h[2], h[1]) \/ StoreComing(h[1], h[2])
      BY <2>1 DEF HandoverInv, HandedOver
    <3>2. h[2] \in Processes
      BY <1>2, <2>1
    <3>3. Has(h[2], h[1]) => Has(h[2], h[1])'
      BY <1>5, <3>2 DEF Has
    <3>4. StoreComing(h[1], h[2]) => StoreComing(h[1], h[2])'
      BY <1>8 DEF StoreComing
    <3> QED
      BY <3>1, <3>3, <3>4
  <2>2. CASE h[1] = t /\ h[2] = p
    BY <1>5, <2>2 DEF Has
  <2>3. CASE h[1] = t /\ h[2] \in Neighbours[p]
    <3>1. <<p, h[2]>> \in Links
      BY <1>2, <2>3, NeighbourLinks
    <3>2. StoreIn(link'[<<p, h[2]>>], t)
      BY <1>2, <1>3, <1>4, <3>1, AppendedMessages
    <3> QED
      BY <2>3, <3>1, <3>2 DEF StoreComing
  <2> QED
    BY <1>1, <2>1, <2>2, <2>3
<1> QED
  BY <1>9, <1>10, <1>11, <1>12 DEF OnTheWay

\* A session is loaded: its token is handed to nobody any more, and whoever
\* holds it from now on announced it.
LEMMA LoadHandover ==
    ASSUME HandoverInv, NEW c \in Conns, NEW r, Load(ProcessOf[c], r), NEW n,
           persistent' = [persistent EXCEPT ![c] = {n}],
           \/ n.token = r.token /\ issued' = issued
           \/ n.token = issued + 1 /\ issued' = issued + 1
    PROVE  OnTheWay'
<1> DEFINE p == ProcessOf[c]
           t == r.token
           m == ConsumeOf(r)
<1>1. /\ kept \in [Processes -> SUBSET Peer] /\ link \in [Links -> Seq(Message)]
      /\ persistent \in [Conns -> SUBSET Peer] /\ issued \in Nat
      /\ handed \in SUBSET (Tokens \X Processes) /\ p \in Processes
  BY HandoverTypes
<1>2. /\ r \in kept[p] /\ kept' = [kept EXCEPT ![p] = @ \ {r}]
      /\ Broadcast(p, m)
      /\ handed' = {h \in handed : h[1] # t}
      /\ doubled' = IF Consumes(t) \/ Held(t) THEN doubled \cup {t} ELSE doubled
  BY DEF Load
<1>3. r \in Peer /\ t \in Nat /\ t <= issued
  BY <1>1, <1>2, PersistenceAssumption DEF Peer, Tokens, HandoverInv, TokensIssued
<1>4. m \in Message /\ IsConsume(m, t) /\ m.token = t /\ (\A u : ~IsStore(m, u))
      /\ \A u : IsConsume(m, u) => u = t
  BY <1>3, MessageOfPeer DEF ConsumeOf, IsStore, IsConsume
<1>5. \A l \in Links : link'[l] = IF l[1] = p THEN Append(link[l], m) ELSE link[l]
  BY <1>2 DEF Broadcast
<1>6. /\ \A q \in Processes : kept'[q] \subseteq kept[q]
      /\ \A q \in Processes : \A s \in kept[q] : s.token # t => s \in kept'[q]
  BY <1>1, <1>2
<1>7. persistent'[c] = {n} /\ \A d \in Conns : d # c => persistent'[d] = persistent[d]
  BY <1>1
<1>8. TokensIssued /\ HolderConsumes /\ ConsumeRedone /\ HandedOver
  BY DEF HandoverInv
<1>9. issued' \in Nat /\ issued <= issued' /\ n.token <= issued'
  BY <1>1, <1>3
<1> HIDE DEF p, m
<1>10. \A u : \A l \in Links :
          /\ ConsumeIn(link'[l], u) <=> ConsumeIn(link[l], u) \/ (l[1] = p /\ u = t)
          /\ StoreIn(link[l], u) => StoreIn(link'[l], u)
  BY <1>1, <1>4, <1>5, AppendedMessages
<1>11. \A l \in Links : \A i \in 1 .. Len(link[l]) :
          link[l][i].token \in Nat /\ link[l][i].token <= issued
  <2> SUFFICES ASSUME NEW l \in Links, NEW i \in 1 .. Len(link[l])
               PROVE  link[l][i].token \in Nat /\ link[l][i].token <= issued
    OBVIOUS
  <2>1. link[l][i] \in Message
    BY <1>1
  <2> QED
    BY <1>8, <2>1, PersistenceAssumption DEF TokensIssued, Message, Tokens
<1>12. TokensIssued'
  <2>1. ASSUME NEW q \in Processes, NEW s \in kept'[q] PROVE s.token <= issued'
    <3>1. s \in kept[q] /\ s \in Peer
      BY <1>1, <1>6
    <3>2. s.token \in Nat /\ s.token <= issued
      BY <1>8, <3>1, PersistenceAssumption DEF TokensIssued, Peer, Tokens
    <3> QED
      BY <1>1, <1>9, <3>2
  <2>2. ASSUME NEW d \in Conns, NEW s \in persistent'[d] PROVE s.token <= issued'
    <3>1. CASE d = c
      BY <1>7, <1>9, <3>1
    <3>2. CASE d # c
      <4>1. s \in persistent[d] /\ s \in Peer
        BY <1>1, <1>7, <3>2
      <4>2. s.token \in Nat /\ s.token <= issued
        BY <1>8, <4>1, PersistenceAssumption DEF TokensIssued, Peer, Tokens
      <4> QED
        BY <1>1, <1>9, <4>2
    <3> QED
      BY <3>1, <3>2
  <2>3. ASSUME NEW l \in Links, NEW i \in 1 .. Len(link'[l])
        PROVE  link'[l][i].token <= issued'
    <3>1. \/ i \in 1 .. Len(link[l]) /\ link'[l][i] = link[l][i]
          \/ link'[l][i] = m
      <4>1. CASE l[1] = p
        <5>1. link[l] \in Seq(Message) /\ link'[l] = Append(link[l], m)
          BY <1>1, <1>5, <4>1
        <5> QED
          BY <1>4, <5>1, AppendedPositions
      <4>2. CASE l[1] # p
        BY <1>5, <4>2
      <4> QED
        BY <4>1, <4>2
    <3>2. link'[l][i].token \in Nat /\ link'[l][i].token <= issued
      BY <1>3, <1>4, <1>11, <3>1
    <3> QED
      BY <1>1, <1>9, <3>2
  <2>4. ASSUME NEW h \in handed' PROVE h[1] <= issued'
    <3>1. h \in handed
      BY <1>2
    <3>2. h[1] \in Nat /\ h[1] <= issued
      BY <1>1, <1>8, <3>1, PersistenceAssumption DEF TokensIssued, Tokens
    <3> QED
      BY <1>1, <1>9, <3>2
  <2> QED
    BY <2>1, <2>2, <2>3, <2>4 DEF TokensIssued
<1>13. HolderConsumes'
  <2> SUFFICES ASSUME NEW d \in Conns, NEW s \in persistent'[d], s.token \notin doubled',
                      NEW l \in Links, ConsumeIn(link'[l], s.token)
               PROVE  l[1] = ProcessOf[d]
    BY DEF HolderConsumes
  <2>1. s.token \notin doubled
    BY <1>2
  <2>2. CASE d # c
    <3>1. s \in persistent[d]
      BY <1>7, <2>2
    <3>2. s.token # t
      BY <1>2, <3>1 DEF Held
    <3> QED
      BY <1>8, <1>10, <2>1, <3>1, <3>2 DEF HolderConsumes
  <2>3. CASE d = c /\ n.token = t
    <3>1. s.token = t
      BY <1>7, <2>3
    <3>2. ~ConsumeIn(link[l], t)
      BY <1>2, <3>1 DEF Consumes
    <3> QED
      BY <1>10, <2>3, <3>1, <3>2 DEF p
  <2>4. CASE d = c /\ n.token = issued + 1
    <3>1. s.token = issued + 1 /\ s.token # t
      BY <1>1, <1>3, <1>7, <2>4
    <3>2. ConsumeIn(link[l], s.token)
      BY <1>10, <3>1
    <3>3. PICK i \in 1 .. Len(link[l]) : link[l][i].token = s.token
      BY <3>2 DEF ConsumeIn, IsConsume
    <3> QED
      BY <1>1, <1>11, <3>1, <3>3
  <2> QED
    BY <2>2, <2>3, <2>4
<1>14. ConsumeRedone'
  <2> SUFFICES ASSUME NEW h \in handed', h[1] \notin doubled', NEW l \in Links, l[2] = h[2]
               PROVE  Redone(link'[l], h[1])
    BY DEF ConsumeRedone
  <2>1. h \in handed /\ h[1] # t /\ h[1] \notin doubled
    BY <1>2
  <2>2. Redone(link[l], h[1]) /\ ~IsConsume(m, h[1])
    BY <1>4, <1>8, <2>1 DEF ConsumeRedone
  <2> QED
    BY <1>1, <1>4, <1>5, <2>2, AppendedRedone
<1>15. HandedOver'
  <2> SUFFICES ASSUME NEW h \in handed', h[1] \notin doubled'
               PROVE  Has(h[2], h[1])' \/ StoreComing(h[1], h[2])'
    BY DEF HandedOver
  <2>1. h \in handed /\ h[1] # t /\ h[1] \notin doubled /\ h[2] \in Processes
    BY <1>1, <1>2
  <2>2. Has(h[2], h[1]) \/ StoreComing(h[1], h[2])
    BY <1>8, <2>1 DEF HandedOver
  <2>3. Has(h[2], h[1]) => Has(h[2], h[1])'
    BY <1>6, <2>1 DEF Has
  <2>4. StoreComing(h[1], h[2]) => StoreComing(h[1], h[2])'
    BY <1>10 DEF StoreComing
  <2> QED
    BY <2>2, <2>3, <2>4
<1> QED
  BY <1>12, <1>13, <1>14, <1>15 DEF OnTheWay

\* A timer erases its own record only, and the session then counts as expired
\* unless a store is on its way.
LEMMA ExpireHandover ==
    ASSUME HandoverInv, NEW p \in Processes, NEW tm \in timers[p], Expire(p, tm)
    PROVE  OnTheWay'
<1>1. /\ kept \in [Processes -> SUBSET Peer] /\ link' = link
      /\ persistent' = persistent /\ issued' = issued /\ doubled' = doubled
      /\ handed' \subseteq handed /\ handed \in SUBSET (Tokens \X Processes)
      /\ kept' = [kept EXCEPT ![p] = @ \ Expired(p, tm)]
  BY HandoverTypes DEF Expire
<1>2. \A r, s \in kept[p] : r.token = s.token => r = s
  BY HandoverTypes
<1>3. /\ \A q \in Processes : kept'[q] \subseteq kept[q]
      /\ \A q \in Processes : \A s \in kept[q] : ~(q = p /\ s = tm) => s \in kept'[q]
  BY <1>1 DEF Expired
<1>4. TokensIssued'
  BY <1>1, <1>3 DEF HandoverInv, TokensIssued
<1>5. HolderConsumes'
  BY <1>1 DEF HandoverInv, HolderConsumes
<1>6. ConsumeRedone'
  BY <1>1 DEF HandoverInv, ConsumeRedone
<1>7. HandedOver'
  <2> SUFFICES ASSUME NEW h \in handed', h[1] \notin doubled
               PROVE  Has(h[2], h[1])' \/ StoreComing(h[1], h[2])
    BY <1>1 DEF HandedOver, StoreComing
  <2>1. h \in handed /\ h[2] \in Processes /\ h = <<h[1], h[2]>>
    BY <1>1
  <2>2. Has(h[2], h[1]) \/ StoreComing(h[1], h[2])
    BY <2>1 DEF HandoverInv, HandedOver
  <2>3. CASE Has(h[2], h[1]) /\ ~StoreComing(h[1], h[2])
    <3>1. PICK s \in kept[h[2]] : s.token = h[1]
      BY <2>3 DEF Has
    <3>2. ~(h[2] = p /\ s = tm)
      BY <2>1, <2>3, <3>1 DEF Expire
    <3>3. s \in kept'[h[2]]
      BY <1>3, <2>1, <3>2
    <3> QED
      BY <3>1, <3>3 DEF Has
  <2> QED
    BY <2>2, <2>3
<1> QED
  BY <1>4, <1>5, <1>6, <1>7 DEF OnTheWay

\* A message arrives: a store is followed, and what a consumption takes away is
\* stored again by the message behind it.
LEMMA ReceiveHandover ==
    ASSUME HandoverInv, NEW l \in Links, Receive(l)
    PROVE  OnTheWay'
<1> DEFINE p == l[2]
           m == Head(link[l])
<1>1. /\ kept \in [Processes -> SUBSET Peer] /\ link \in [Links -> Seq(Message)]
      /\ handed \in SUBSET (Tokens \X Processes) /\ p \in Processes
      /\ link[l] # << >> /\ link' = [link EXCEPT ![l] = Tail(@)]
      /\ UNCHANGED <<persistent, issued, handed, doubled>>
  BY HandoverTypes, NeighbourLinks DEF Receive
<1>2. TokensIssued /\ HolderConsumes /\ ConsumeRedone /\ HandedOver
  BY DEF HandoverInv
<1>3. link'[l] = Tail(link[l]) /\ \A k \in Links : k # l => link'[k] = link[k]
  BY <1>1
<1>4. /\ Len(link[l]) \in Nat /\ Len(link[l]) >= 1 /\ Len(link'[l]) = Len(link[l]) - 1
      /\ \A i \in 1 .. Len(link'[l]) : link'[l][i] = link[l][i + 1]
      /\ m = link[l][1] /\ m \in Message
  <2>1. link[l] \in Seq(Message)
    BY <1>1
  <2> QED
    BY <1>1, <1>3, <2>1
<1>5. m.token <= issued
  BY <1>2, <1>4 DEF TokensIssued
<1>6. /\ \A n \in kept'[p] : n \in kept[p] \/ n.token = m.token
      /\ \A n \in kept[p] : n.token # m.token => n \in kept'[p]
      /\ \A q \in Processes : q # p => kept'[q] = kept[q]
      /\ m.code = "consume" \/ (m.code = "store" /\ \E n \in kept'[p] : n.token = m.token)
  <2>1. CASE m.code = "consume" /\ kept' = [kept EXCEPT ![p] = {r \in @ : ~Dropped(r, m)}]
    BY <1>1, <2>1 DEF Dropped
  <2>2. CASE m.code = "store" /\ Store(p, m.token)
    BY <1>1, <2>2 DEF Store
  <2>3. CASE /\ m.code = "store" /\ kept' = kept
             /\ \E r \in kept[p] : r.token = m.token
    BY <2>3
  <2> QED
    BY <2>1, <2>2, <2>3 DEF Receive, storeVars
<1> HIDE DEF p, m
<1>7. \A u : \A k \in Links :
         /\ ConsumeIn(link'[k], u) => ConsumeIn(link[k], u)
         /\ StoreIn(link[k], u) => StoreIn(link'[k], u) \/ (k = l /\ IsStore(m, u))
         /\ Redone(link[k], u) => Redone(link'[k], u)
  BY <1>1, <1>3, PoppedMessages DEF m
<1>8. TokensIssued'
  <2>1. ASSUME NEW k \in Links, NEW i \in 1 .. Len(link'[k])
        PROVE  link'[k][i].token <= issued
    <3>1. CASE k = l
      <4>1. i + 1 \in 1 .. Len(link[l]) /\ link'[l][i] = link[l][i + 1]
        BY <1>4, <3>1
      <4> QED
        BY <1>2, <3>1, <4>1 DEF TokensIssued
    <3>2. CASE k # l
      BY <1>2, <1>3, <3>2 DEF TokensIssued
    <3> QED
      BY <3>1, <3>2
  <2>2. \A q \in Processes : \A n \in kept'[q] : n.token <= issued
    BY <1>2, <1>5, <1>6 DEF TokensIssued
  <2> QED
    BY <1>1, <1>2, <2>1, <2>2 DEF TokensIssued
<1>9. HolderConsumes'
  BY <1>1, <1>2, <1>7 DEF HolderConsumes
<1>10. ConsumeRedone'
  BY <1>1, <1>2, <1>7 DEF ConsumeRedone
<1>11. HandedOver'
  <2> SUFFICES ASSUME NEW h \in handed, h[1] \notin doubled
               PROVE  Has(h[2], h[1])' \/ StoreComing(h[1], h[2])'
    BY <1>1 DEF HandedOver
  <2>1. h[2] \in Processes /\ (Has(h[2], h[1]) \/ StoreComing(h[1], h[2]))
    BY <1>1, <1>2 DEF HandedOver
  <2>2. CASE h[2] = p /\ h[1] = m.token /\ m.code = "consume"
    <3>1. Redone(link[l], h[1]) /\ IsConsume(m, h[1])
      BY <1>2, <2>2 DEF ConsumeRedone, IsConsume, p
    <3>2. StoreIn(link'[l], h[1])
      BY <1>1, <1>3, <3>1, PoppedMessages DEF m
    <3> QED
      BY <2>2, <3>2 DEF StoreComing, p
  <2>3. CASE h[2] = p /\ h[1] = m.token /\ m.code = "store"
    BY <1>6, <2>3 DEF Has
  <2>4. CASE ~(h[2] = p /\ h[1] = m.token)
    <3>1. Has(h[2], h[1]) => Has(h[2], h[1])'
      BY <1>6, <2>1, <2>4 DEF Has
    <3>2. StoreComing(h[1], h[2]) => StoreComing(h[1], h[2])'
      BY <1>7, <2>4 DEF StoreComing, IsStore, p
    <3> QED
      BY <2>1, <3>1, <3>2
  <2> QED
    BY <1>6, <2>2, <2>3, <2>4
<1> QED
  BY <1>8, <1>9, <1>10, <1>11 DEF OnTheWay

LEMMA NextHandover == HandoverInv /\ [Next]_vars => HandoverInv'
<1> SUFFICES ASSUME HandoverInv, [Next]_vars PROVE OnTheWay'
  BY NextPersistence, HandoverParts, HandoverPartsPrimed
<1>0. issued \in Nat /\ persistent \in [Conns -> SUBSET Peer]
  BY HandoverTypes
<1>1. ASSUME NEW c \in Conns, Login(c) PROVE OnTheWay'
  <2>1. /\ UNCHANGED <<kept, link, handed, doubled>> /\ issued' = issued + 1
        /\ persistent' = [persistent EXCEPT ![c] = {[token |-> issued + 1, generation |-> 0]}]
    BY <1>1 DEF Login, storeVars, auxVars
  <2>2. \A d \in Conns : \A r \in persistent'[d] :
           r \in persistent[d] \/ (r.token > issued /\ r.token <= issued')
    BY <1>0, <2>1
  <2> QED
    BY <1>0, <2>1, <2>2, QuietHandover
<1>2. ASSUME NEW c \in Conns, Route(c) PROVE OnTheWay'
  BY <1>2, SyncHandover DEF Route
<1>3. ASSUME UNCHANGED <<kept, link, handed, doubled, issued>>,
             \A d \in Conns : persistent'[d] \subseteq persistent[d]
      PROVE  OnTheWay'
  BY <1>0, <1>3, QuietHandover
<1>4. ASSUME NEW c \in Conns, Destroy(c) PROVE OnTheWay'
  <2>1. issued' = issued /\ persistent' = [persistent EXCEPT ![c] = {}]
    BY <1>4 DEF Destroy
  <2>2. CASE SyncAndStore(c)
    BY <2>1, <2>2, SyncHandover
  <2>3. CASE UNCHANGED <<storeVars, link, auxVars>>
    BY <1>0, <1>3, <2>1, <2>3 DEF storeVars, auxVars
  <2> QED
    BY <1>4, <2>2, <2>3 DEF Destroy
<1>5. ASSUME NEW c \in Conns, NEW t, NEW s, GameLoad(c, t, s) PROVE OnTheWay'
  <2>1. PICK r \in kept[ProcessOf[c]] :
           Load(ProcessOf[c], r) /\ persistent' = [persistent EXCEPT ![c] = {r}]
    BY <1>5 DEF GameLoad
  <2> QED
    BY <1>5, <2>1, LoadHandover DEF GameLoad
<1>6. ASSUME NEW c \in Conns, NEW s, Retry(c, s) PROVE OnTheWay'
  <2>1. CASE GameLoad(c, waiting[c], s)
    BY <1>5, <2>1
  <2>2. CASE UNCHANGED <<storeVars, link, state, persistent, issued, auxVars>>
    BY <1>3, <2>2 DEF storeVars, auxVars
  <2> QED
    BY <1>6, <2>1, <2>2 DEF Retry
<1>7. ASSUME NEW c \in Conns, NEW t, FrontAuthenticate(c, t) PROVE OnTheWay'
  <2>1. PICK r \in kept[ProcessOf[c]] :
           /\ Load(ProcessOf[c], r)
           /\ persistent' = [persistent EXCEPT ![c] = {[r EXCEPT !.token = issued + 1]}]
    BY <1>7 DEF FrontAuthenticate
  <2>2. r \in Peer
    BY HandoverTypes, PersistenceAssumption
  <2>3. [r EXCEPT !.token = issued + 1].token = issued + 1
    BY <2>2 DEF Peer
  <2>4. issued' = issued + 1
    BY <1>7 DEF FrontAuthenticate
  <2> QED
    BY <2>1, <2>3, <2>4, LoadHandover
<1>8. ASSUME NEW c \in Conns, NEW t,
             Lose(c) \/ GiveUp(c) \/ FrontRefuse(c, t) \/ GamePark(c, t)
      PROVE  OnTheWay'
  <2>1. UNCHANGED <<storeVars, link, persistent, issued, auxVars>>
    BY <1>8 DEF Lose, GiveUp, FrontRefuse, GamePark
  <2> QED
    BY <1>3, <2>1 DEF storeVars, auxVars
<1>9. ASSUME NEW c \in Conns, NEW t, NEW s, GameAuthenticate(c, t, s) PROVE OnTheWay'
  BY <1>5, <1>9 DEF GameAuthenticate
<1>10. CASE UNCHANGED vars
  BY <1>3, <1>10 DEF vars
<1> QED
  BY <1>1, <1>2, <1>4, <1>6, <1>7, <1>8, <1>9, <1>10, ExpireHandover, ReceiveHandover
     DEF Next, SlowUpdate

\* A session that Route() or a destroyed handler stored can be loaded there and
\* in every neighbouring process, or is on its way, until somebody loads it or
\* its timer runs out: a late consumption of an earlier use never takes it away,
\* in whatever way the processes are connected.
THEOREM SessionsAreHandedOver == Spec => []HandedOver
<1>1. HandoverInv => HandedOver
  BY DEF HandoverInv
<1> QED
  BY <1>1, InitHandover, NextHandover, PTL DEF Spec

-----------------------------------------------------------------------------
(* Queues in which stores and consumptions alternate. *)

LEMMA AppendedStores ==
    ASSUME NEW q \in Seq(Message), NEW m \in Message, NEW t
    PROVE  /\ IsConsume(m, t) => ~LastStore(Append(q, m), t)
           /\ ~IsStore(m, t) /\ LastStore(Append(q, m), t) => LastStore(q, t)
           /\ ~IsStore(m, t) /\ Alternates(q, t) => Alternates(Append(q, m), t)
           /\ ~LastStore(q, t) /\ Alternates(q, t) => Alternates(Append(q, m), t)
<1> DEFINE a == Append(q, m)
<1>1. /\ Len(q) \in Nat /\ Len(a) = Len(q) + 1
      /\ \A i \in 1 .. Len(q) : i \in 1 .. Len(a) /\ a[i] = q[i]
      /\ a[Len(q) + 1] = m
      /\ \A i \in 1 .. Len(a) : i \in 1 .. Len(q) \/ i = Len(q) + 1
  BY AppendedPositions
<1>2. Len(q) + 1 \in 1 .. Len(a) /\ \A i \in 1 .. Len(q) : i < Len(q) + 1 /\ i \in Nat
  BY <1>1
<1> HIDE DEF a
<1>3. ASSUME IsConsume(m, t), LastStore(a, t) PROVE FALSE
  <2>1. PICK i \in 1 .. Len(a) :
           IsStore(a[i], t) /\ \A j \in 1 .. Len(a) : i < j => ~IsConsume(a[j], t)
    BY <1>3 DEF LastStore
  <2>2. i # Len(q) + 1
    BY <1>1, <1>3, <2>1 DEF IsStore, IsConsume
  <2>3. i < Len(q) + 1
    BY <1>1, <1>2, <2>2
  <2> QED
    BY <1>1, <1>2, <1>3, <2>1, <2>3
<1>4. ASSUME ~IsStore(m, t), LastStore(a, t) PROVE LastStore(q, t)
  <2>1. PICK i \in 1 .. Len(a) :
           IsStore(a[i], t) /\ \A j \in 1 .. Len(a) : i < j => ~IsConsume(a[j], t)
    BY <1>4 DEF LastStore
  <2>2. i \in 1 .. Len(q)
    BY <1>1, <1>4, <2>1
  <2> QED
    BY <1>1, <2>1, <2>2 DEF LastStore
<1>5. ASSUME Alternates(q, t), ~IsStore(m, t) \/ ~LastStore(q, t)
      PROVE  Alternates(a, t)
  <2> SUFFICES ASSUME NEW i \in 1 .. Len(a), NEW j \in 1 .. Len(a), i < j,
                      IsStore(a[i], t), IsStore(a[j], t)
               PROVE  \E k \in 1 .. Len(a) : i < k /\ k < j /\ IsConsume(a[k], t)
    BY DEF Alternates
  <2>1. i \in 1 .. Len(q) /\ IsStore(q[i], t)
    BY <1>1
  <2>2. CASE j \in 1 .. Len(q)
    <3>1. PICK k \in 1 .. Len(q) : i < k /\ k < j /\ IsConsume(q[k], t)
      BY <1>1, <1>5, <2>1, <2>2 DEF Alternates
    <3> QED
      BY <1>1, <3>1
  <2>3. CASE j = Len(q) + 1
    <3>1. ~LastStore(q, t)
      BY <1>1, <1>5, <2>3
    <3>2. PICK k \in 1 .. Len(q) : i < k /\ IsConsume(q[k], t)
      BY <2>1, <3>1 DEF LastStore
    <3> QED
      BY <1>1, <1>2, <2>3, <3>2
  <2> QED
    BY <1>1, <2>2, <2>3
<1> QED
  BY <1>3, <1>4, <1>5 DEF a

LEMMA PoppedStores ==
    ASSUME NEW q \in Seq(Message), q # << >>, NEW t
    PROVE  /\ LastStore(Tail(q), t) => LastStore(q, t)
           /\ Alternates(q, t) => Alternates(Tail(q), t)
           /\ ConsumeIn(q, t) => ConsumeIn(Tail(q), t) \/ IsConsume(Head(q), t)
           /\ IsStore(Head(q), t) /\ ~LastStore(q, t) => ConsumeIn(Tail(q), t)
           /\ IsStore(Head(q), t) /\ Alternates(q, t) /\ LastStore(Tail(q), t)
                 => ConsumeIn(Tail(q), t)
           /\ LastStore(q, t) => StoreIn(q, t)
<1> DEFINE b == Tail(q)
<1>1. /\ Len(q) \in Nat /\ Len(q) >= 1 /\ Len(b) = Len(q) - 1
      /\ \A i \in 1 .. Len(b) : b[i] = q[i + 1]
      /\ Head(q) = q[1]
  OBVIOUS
<1>2. /\ \A i \in 1 .. Len(b) : i + 1 \in 1 .. Len(q) /\ 1 < i + 1
      /\ \A i \in 1 .. Len(q) : i = 1 \/ (i - 1 \in 1 .. Len(b) /\ (i - 1) + 1 = i)
      /\ 1 \in 1 .. Len(q)
  BY <1>1
<1> HIDE DEF b
<1>3. \A i \in 1 .. Len(q) : i # 1 => i - 1 \in 1 .. Len(b) /\ b[i - 1] = q[i]
  BY <1>1, <1>2
<1>4. ASSUME LastStore(b, t) PROVE LastStore(q, t)
  <2>1. PICK i \in 1 .. Len(b) :
           IsStore(b[i], t) /\ \A j \in 1 .. Len(b) : i < j => ~IsConsume(b[j], t)
    BY <1>4 DEF LastStore
  <2>2. i + 1 \in 1 .. Len(q) /\ IsStore(q[i + 1], t)
    BY <1>1, <1>2, <2>1
  <2>3. ASSUME NEW j \in 1 .. Len(q), i + 1 < j PROVE ~IsConsume(q[j], t)
    <3>1. j # 1 /\ i < j - 1
      BY <2>3
    <3> QED
      BY <1>3, <2>1, <3>1
  <2> QED
    BY <2>2, <2>3 DEF LastStore
<1>5. ASSUME Alternates(q, t), NEW i \in 1 .. Len(b), NEW j \in 1 .. Len(b), i < j,
             IsStore(b[i], t), IsStore(b[j], t)
      PROVE  \E k \in 1 .. Len(b) : i < k /\ k < j /\ IsConsume(b[k], t)
  <2>1. /\ i + 1 \in 1 .. Len(q) /\ IsStore(q[i + 1], t)
        /\ j + 1 \in 1 .. Len(q) /\ IsStore(q[j + 1], t) /\ i + 1 < j + 1
    BY <1>1, <1>2, <1>5
  <2>2. PICK k \in 1 .. Len(q) : i + 1 < k /\ k < j + 1 /\ IsConsume(q[k], t)
    BY <1>5, <2>1 DEF Alternates
  <2>3. k # 1 /\ i < k - 1 /\ k - 1 < j
    BY <2>2
  <2> QED
    BY <1>3, <2>2, <2>3
<1>6. ConsumeIn(q, t) => ConsumeIn(b, t) \/ IsConsume(q[1], t)
  BY <1>3 DEF ConsumeIn
<1>7. ASSUME IsStore(q[1], t), NEW k \in 1 .. Len(q), 1 < k, IsConsume(q[k], t)
      PROVE  ConsumeIn(b, t)
  BY <1>3, <1>7 DEF ConsumeIn
<1>8. ASSUME IsStore(q[1], t), ~LastStore(q, t) PROVE ConsumeIn(b, t)
  <2>1. PICK k \in 1 .. Len(q) : 1 < k /\ IsConsume(q[k], t)
    BY <1>2, <1>8 DEF LastStore
  <2> QED
    BY <1>7, <1>8, <2>1
<1>9. ASSUME IsStore(q[1], t), Alternates(q, t), LastStore(b, t) PROVE ConsumeIn(b, t)
  <2>1. PICK j \in 1 .. Len(b) : IsStore(b[j], t)
    BY <1>9 DEF LastStore
  <2>2. j + 1 \in 1 .. Len(q) /\ 1 < j + 1 /\ IsStore(q[j + 1], t)
    BY <1>1, <1>2, <2>1
  <2>3. PICK k \in 1 .. Len(q) : 1 < k /\ IsConsume(q[k], t)
    BY <1>2, <1>9, <2>2 DEF Alternates
  <2> QED
    BY <1>7, <1>9, <2>3
<1>10. LastStore(q, t) => StoreIn(q, t)
  BY DEF LastStore, StoreIn
<1> QED
  BY <1>1, <1>4, <1>5, <1>6, <1>8, <1>9, <1>10 DEF Alternates, b

-----------------------------------------------------------------------------
(* The consumption. *)

\* A step that takes copies and stores of a token away, but not its
\* consumptions, and changes nobody's right to it.
LEMMA Undisturbed ==
    ASSUME NEW t, Flowing(t),
           \A l \in Links : /\ LastStore(link'[l], t) => LastStore(link[l], t)
                            /\ ConsumeIn(link[l], t) => ConsumeIn(link'[l], t)
                            /\ Alternates(link[l], t) => Alternates(link'[l], t),
           \A p \in Processes : /\ Has(p, t)' => Has(p, t)
                                /\ <<t, p>> \in handed' <=> <<t, p>> \in handed
                                /\ <<t, p>> \in outlived => <<t, p>> \in outlived'
    PROVE  Flowing(t)'
<1>0. \A l \in Links : l[2] \in Processes
  BY NeighbourLinks
<1>1. \A p \in Processes : ConsumeComing(t, p) => ConsumeComing(t, p)'
  BY DEF ConsumeComing
<1>2. StoresAlternate(t)'
  BY DEF Flowing, StoresAlternate
<1>3. ConsumeBehind(t)'
  BY <1>1 DEF Flowing, ConsumeBehind
<1>4. StoreReplaces(t)'
  BY <1>1 DEF Flowing, StoreReplaces
<1>5. OneStorer(t)'
  BY <1>0 DEF Flowing, OneStorer
<1> QED
  BY <1>2, <1>3, <1>4, <1>5 DEF Flowing

\* The holder is not disturbed by what takes stores away and hands nothing over.
LEMMA HolderUndisturbed ==
    ASSUME NEW t, HolderAlone(t),
           \A l \in Links : LastStore(link'[l], t) => LastStore(link[l], t),
           \A p \in Processes : <<t, p>> \in handed' => <<t, p>> \in handed,
           \A c \in Conns : \A r \in persistent'[c] : r.token = t => r \in persistent[c]
    PROVE  HolderAlone(t)'
BY DEF HolderAlone

\* A token that is new is nowhere but with its holder.
LEMMA NewHolder ==
    ASSUME HandoverInv, NEW t, t = issued + 1, NEW c \in Conns,
           \A l \in Links : LastStore(link'[l], t) => LastStore(link[l], t),
           handed' \subseteq handed,
           \A d \in Conns : d # c => persistent'[d] = persistent[d]
    PROVE  HolderAlone(t)'
<1>1. issued \in Nat /\ TokensIssued /\ persistent \in [Conns -> SUBSET Peer]
      /\ handed \in SUBSET (Tokens \X Processes)
  BY HandoverTypes DEF HandoverInv
<1>2. ASSUME NEW d \in Conns, NEW s \in persistent'[d], s.token = t PROVE d = c
  <2>1. CASE d # c
    <3>1. s \in persistent[d]
      BY <2>1
    <3>2. s.token <= issued
      BY <1>1, <3>1 DEF TokensIssued
    <3> QED
      BY <1>1, <1>2, <3>2
  <2> QED
    BY <2>1
<1>3. ASSUME NEW p \in Processes, <<t, p>> \in handed PROVE FALSE
  <2>1. <<t, p>>[1] <= issued
    BY <1>1, <1>3 DEF TokensIssued
  <2> QED
    BY <1>1, <2>1
<1>4. ASSUME NEW l \in Links, LastStore(link[l], t) PROVE FALSE
  <2>1. PICK i \in 1 .. Len(link[l]) : link[l][i].token = t
    BY <1>4 DEF LastStore, IsStore
  <2>2. link[l][i].token <= issued
    BY <1>1, <2>1 DEF TokensIssued
  <2> QED
    BY <1>1, <2>1, <2>2
<1> QED
  BY <1>2, <1>3, <1>4 DEF HolderAlone

\* A session is sent to the neighbours and stored: before, nobody was handed it.
LEMMA SyncConsumption ==
    ASSUME ConsumptionInv, NEW c \in Conns, SyncAndStore(c),
           persistent' = [persistent EXCEPT ![c] = {}]
    PROVE  \A u \in Tokens \ doubled' : HolderAlone(u)' /\ Flowing(u)'
<1> DEFINE p == ProcessOf[c]
<1>1. PICK r \in persistent[c] :
          /\ Synced(p, r)
          /\ Store(p, r.token)
          /\ handed' = handed \cup ({r.token} \X ({p} \cup Neighbours[p]))
          /\ Renewed(r.token, p)
          /\ UNCHANGED doubled
  BY DEF SyncAndStore
<1> DEFINE t == r.token
           m == StoreOf(r)
<1>i. HandoverInv /\ \A u \in Tokens \ doubled : HolderAlone(u) /\ Flowing(u)
  BY DEF ConsumptionInv
<1>2. /\ kept \in [Processes -> SUBSET Peer] /\ link \in [Links -> Seq(Message)]
      /\ persistent \in [Conns -> SUBSET Peer]
      /\ handed \in SUBSET (Tokens \X Processes) /\ p \in Processes
  BY <1>i, HandoverTypes
<1>3. /\ m \in Message /\ (\A u : ~IsConsume(m, u)) /\ (\A u : IsStore(m, u) => u = t)
      /\ t \in Tokens
  BY <1>2, MessageOfPeer DEF StoreOf, IsStore, IsConsume, Peer
<1>4. \A l \in Links : link'[l] = IF l[1] = p THEN Append(link[l], m) ELSE link[l]
  BY <1>1 DEF Synced, Broadcast
<1>5. /\ \A n \in kept'[p] : n.token = t \/ n \in kept[p]
      /\ \A q \in Processes : q # p => kept'[q] = kept[q]
  BY <1>1, <1>2 DEF Store
<1>6. /\ persistent'[c] = {}
      /\ \A d \in Conns : persistent'[d] \subseteq persistent[d]
  BY <1>2
<1>7. /\ \A u, q : <<u, q>> \in handed' <=>
            <<u, q>> \in handed \/ (u = t /\ q \in {p} \cup Neighbours[p])
      /\ \A u, q : <<u, q>> \in outlived' => <<u, q>> \in outlived
      /\ \A u, q : <<u, q>> \in outlived =>
            <<u, q>> \in outlived' \/ (u = t /\ q = p /\ ~StoreComing(t, p)')
  BY <1>1 DEF Renewed, StoreComing
<1> HIDE DEF p, m
<1>8. \A u : \A l \in Links : ConsumeIn(link'[l], u) <=> ConsumeIn(link[l], u)
  BY <1>2, <1>3, <1>4, AppendedMessages
<1>9. ASSUME NEW u \in Tokens \ doubled, u # t PROVE HolderAlone(u)' /\ Flowing(u)'
  <2>1. \A l \in Links : /\ LastStore(link'[l], u) => LastStore(link[l], u)
                         /\ ConsumeIn(link[l], u) => ConsumeIn(link'[l], u)
                         /\ Alternates(link[l], u) => Alternates(link'[l], u)
    BY <1>2, <1>3, <1>4, <1>8, <1>9, AppendedStores
  <2>2. \A q \in Processes : /\ Has(q, u)' => Has(q, u)
                             /\ <<u, q>> \in handed' <=> <<u, q>> \in handed
                             /\ <<u, q>> \in outlived => <<u, q>> \in outlived'
    BY <1>2, <1>5, <1>7, <1>9 DEF Has
  <2> QED
    BY <1>6, <1>9, <1>i, <2>1, <2>2, Undisturbed, HolderUndisturbed
<1>10. ASSUME t \notin doubled PROVE HolderAlone(t)' /\ Flowing(t)'
  <2>1. /\ HolderAlone(t) /\ StoresAlternate(t) /\ ConsumeBehind(t)
    BY <1>3, <1>i, <1>10 DEF Flowing
  <2>2. /\ \A d \in Conns : \A s \in persistent[d] : s.token = t => d = c
        /\ \A q \in Processes : <<t, q>> \notin handed
        /\ \A l \in Links : l[1] = p => ~LastStore(link[l], t)
    BY <2>1 DEF HolderAlone, p
  <2>3. HolderAlone(t)'
    <3>1. \A d \in Conns : \A s \in persistent'[d] : s.token # t
      BY <1>6, <2>2
    <3> QED
      BY <3>1 DEF HolderAlone
  <2>4. StoresAlternate(t)'
    BY <1>2, <1>3, <1>4, <2>1, <2>2, AppendedStores DEF StoresAlternate
  <2>5. \A q \in Processes : <<t, q>> \notin outlived =>
           /\ \A l \in Links : l[2] = q => ~LastStore(link[l], t)
           /\ Has(q, t) => ConsumeComing(t, q)
    BY <2>1, <2>2 DEF ConsumeBehind
  <2>6. \A q : ConsumeComing(t, q) <=> ConsumeComing(t, q)'
    BY <1>8 DEF ConsumeComing
  <2>7. \A l \in Links : /\ l[1] \in Processes /\ l[2] \in Processes /\ l[1] # l[2]
                         /\ l[2] \in Neighbours[l[1]]
    BY NeighbourLinks DEF Links
  <2>8. ASSUME NEW l \in Links, l[1] # p, <<t, l[2]>> \notin outlived', LastStore(link'[l], t)
        PROVE  FALSE
    <3>1. LastStore(link[l], t)
      BY <1>4, <2>8
    <3>2. <<t, l[2]>> \in outlived
      BY <2>5, <2>7, <3>1
    <3>3. l[2] = p /\ ~StoreComing(t, p)'
      BY <1>7, <2>8, <3>2
    <3>4. StoreIn(link'[l], t)
      BY <2>8 DEF LastStore, StoreIn
    <3> QED
      BY <3>3, <3>4 DEF StoreComing
  <2>9. ConsumeBehind(t)'
    <3> SUFFICES ASSUME NEW q \in Processes, <<t, q>> \notin handed' \cup outlived'
                 PROVE  /\ \A l \in Links : l[2] = q => ~LastStore(link'[l], t)
                        /\ Has(q, t)' => ConsumeComing(t, q)'
      BY DEF ConsumeBehind
    <3>1. q # p /\ q \notin Neighbours[p] /\ <<t, q>> \notin outlived
      BY <1>7
    <3>2. \A l \in Links : l[2] = q => l[1] # p
      BY <2>7, <3>1
    <3>3. Has(q, t)' => Has(q, t)
      BY <1>5, <3>1 DEF Has
    <3> QED
      BY <2>5, <2>6, <2>8, <3>1, <3>2, <3>3
  <2>10. StoreReplaces(t)'
    <3> SUFFICES ASSUME NEW q \in Processes, <<t, q>> \notin outlived', Has(q, t)',
                        NEW l \in Links, l[2] = q, LastStore(link'[l], t)
                 PROVE  ConsumeComing(t, q)'
      BY DEF StoreReplaces
    <3>1. l[1] = p
      BY <2>8
    <3>2. q # p
      BY <2>7, <3>1
    <3>3. <<t, q>> \notin outlived /\ Has(q, t)
      BY <1>5, <1>7, <3>2 DEF Has
    <3> QED
      BY <2>5, <2>6, <3>3
  <2>11. OneStorer(t)'
    <3>1. \A l \in Links : <<t, l[2]>> \notin outlived' /\ LastStore(link'[l], t) => l[1] = p
      BY <2>8
    <3>2. \A q \in Processes : <<t, q>> \in handed' => q \in {p} \cup Neighbours[p]
      BY <1>7, <2>2
    <3> QED
      BY <3>1, <3>2 DEF OneStorer
  <2> QED
    BY <2>3, <2>4, <2>9, <2>10, <2>11 DEF Flowing
<1> QED
  BY <1>1, <1>9, <1>10

\* A session is loaded: who is not told of it counts as outliving it, and who is
\* has no store on its way from anybody else.
LEMMA LoadConsumption ==
    ASSUME ConsumptionInv, NEW c \in Conns, NEW r, Load(ProcessOf[c], r), NEW n,
           persistent' = [persistent EXCEPT ![c] = {n}],
           n.token = r.token \/ n.token = issued + 1
    PROVE  \A u \in Tokens \ doubled' : HolderAlone(u)' /\ Flowing(u)'
<1> DEFINE p == ProcessOf[c]
           t == r.token
           m == ConsumeOf(r)
<1>i. HandoverInv /\ \A u \in Tokens \ doubled : HolderAlone(u) /\ Flowing(u)
  BY DEF ConsumptionInv
<1>1. /\ kept \in [Processes -> SUBSET Peer] /\ link \in [Links -> Seq(Message)]
      /\ persistent \in [Conns -> SUBSET Peer] /\ issued \in Nat
      /\ handed \in SUBSET (Tokens \X Processes) /\ p \in Processes
      /\ \A a, b \in kept[p] : a.token = b.token => a = b
  BY <1>i, HandoverTypes
<1>2. /\ r \in kept[p] /\ kept' = [kept EXCEPT ![p] = @ \ {r}]
      /\ Broadcast(p, m)
      /\ handed' = {h \in handed : h[1] # t}
      /\ doubled' = IF Consumes(t) \/ Held(t) THEN doubled \cup {t} ELSE doubled
      /\ outlived' = outlived \cup ({t} \X Unreached(p, t))
  BY DEF Load
<1>3. r \in Peer /\ t \in Tokens
  BY <1>1, <1>2 DEF Peer
<1>4. m \in Message /\ IsConsume(m, t) /\ (\A u : ~IsStore(m, u))
  BY <1>3, MessageOfPeer DEF ConsumeOf, IsStore, IsConsume
<1>5. \A l \in Links : link'[l] = IF l[1] = p THEN Append(link[l], m) ELSE link[l]
  BY <1>2 DEF Broadcast
<1>6. /\ \A q \in Processes : kept'[q] \subseteq kept[q]
      /\ \A s \in kept'[p] : s.token # t
  BY <1>1, <1>2
<1>7. persistent'[c] = {n} /\ \A d \in Conns : d # c => persistent'[d] = persistent[d]
  BY <1>1
<1>8. /\ \A u, q : <<u, q>> \in handed' <=> <<u, q>> \in handed /\ u # t
      /\ \A u, q : <<u, q>> \in outlived' <=>
            <<u, q>> \in outlived \/ (u = t /\ q \in Unreached(p, t))
      /\ handed' \subseteq handed
  BY <1>2
<1>9. doubled \subseteq doubled' /\ (t \notin doubled' => ~Consumes(t) /\ ~Held(t))
  BY <1>2
<1> HIDE DEF p, m
<1>10. \A u : \A l \in Links :
          /\ LastStore(link'[l], u) => LastStore(link[l], u)
          /\ ConsumeIn(link[l], u) => ConsumeIn(link'[l], u)
          /\ Alternates(link[l], u) => Alternates(link'[l], u)
  BY <1>1, <1>4, <1>5, AppendedMessages, AppendedStores
<1>11. ASSUME NEW u \in Tokens \ doubled', u # t PROVE HolderAlone(u)' /\ Flowing(u)'
  <2>1. HolderAlone(u) /\ Flowing(u)
    BY <1>9, <1>i
  <2>2. \A q \in Processes : /\ Has(q, u)' => Has(q, u)
                             /\ <<u, q>> \in handed' <=> <<u, q>> \in handed
                             /\ <<u, q>> \in outlived => <<u, q>> \in outlived'
    BY <1>6, <1>8, <1>11 DEF Has
  <2>3. Flowing(u)'
    BY <1>10, <2>1, <2>2, Undisturbed
  <2>4. CASE u = issued + 1
    <3>1. HolderAlone(u)'
      BY <1>7, <1>8, <1>10, <1>i, <2>4, NewHolder
    <3> QED
      BY <2>3, <3>1
  <2>5. CASE u # issued + 1
    <3>1. \A d \in Conns : \A s \in persistent'[d] : s.token = u => s \in persistent[d]
      BY <1>7, <1>11, <2>5
    <3>2. HolderAlone(u)'
      BY <1>8, <1>10, <2>1, <3>1, HolderUndisturbed
    <3> QED
      BY <2>3, <3>2
  <2> QED
    BY <2>4, <2>5
<1>12. ASSUME t \notin doubled' PROVE HolderAlone(t)' /\ Flowing(t)'
  <2>1. /\ StoresAlternate(t) /\ StoreReplaces(t) /\ OneStorer(t)
        /\ ~Consumes(t) /\ ~Held(t)
    BY <1>3, <1>9, <1>12, <1>i DEF Flowing
  <2>2. \A l \in Links : l[1] = p => ~LastStore(link'[l], t) /\ ConsumeIn(link'[l], t)
    BY <1>1, <1>4, <1>5, AppendedStores, AppendedMessages
  <2>3. HolderAlone(t)'
    <3>1. \A d \in Conns : \A s \in persistent'[d] : s.token = t => d = c
      BY <1>7, <2>1 DEF Held
    <3> QED
      BY <1>8, <2>2, <3>1 DEF HolderAlone, p
  <2>4. StoresAlternate(t)'
    BY <1>10, <2>1 DEF StoresAlternate
  <2>5. \A l \in Links : /\ l[1] \in Processes /\ l[2] \in Processes /\ l[1] # l[2]
                         /\ l[2] \in Neighbours[l[1]] /\ l = <<l[1], l[2]>>
    BY NeighbourLinks DEF Links
  <2>6. ASSUME NEW q \in Processes, <<t, q>> \notin outlived'
        PROVE  /\ \A l \in Links : l[2] = q => ~LastStore(link'[l], t)
               /\ Has(q, t)' => ConsumeComing(t, q)'
    <3>1. <<t, p>> \in handed /\ <<t, p>> \notin outlived /\ <<t, q>> \notin outlived
          /\ (q = p \/ q \in Neighbours[p])
      BY <1>8, <2>6 DEF Unreached
    <3>2. CASE q = p
      <4>1. ~Has(q, t)'
        BY <1>6, <3>2 DEF Has
      <4>2. ASSUME NEW l \in Links, l[2] = q, LastStore(link'[l], t) PROVE FALSE
        <5>1. Has(p, t) /\ LastStore(link[l], t)
          BY <1>2, <1>10, <4>2 DEF Has
        <5>2. ConsumeComing(t, p)
          BY <1>1, <2>1, <3>1, <3>2, <4>2, <5>1 DEF StoreReplaces
        <5> QED
          BY <2>1, <5>2 DEF ConsumeComing, Consumes
      <4> QED
        BY <4>1, <4>2
    <3>3. CASE q \in Neighbours[p]
      <4>1. <<p, q>> \in Links
        BY <1>1, <3>3, NeighbourLinks
      <4>2. ConsumeComing(t, q)'
        <5>1. <<p, q>>[1] = p /\ <<p, q>>[2] = q
          OBVIOUS
        <5>2. ConsumeIn(link'[<<p, q>>], t)
          BY <2>2, <4>1, <5>1
        <5> QED
          BY <4>1, <5>1, <5>2 DEF ConsumeComing
      <4>3. ASSUME NEW l \in Links, l[2] = q, LastStore(link'[l], t) PROVE FALSE
        <5>1. l[1] # p /\ LastStore(link[l], t)
          BY <1>10, <2>2, <4>3
        <5>2. p \in {l[1]} \cup Neighbours[l[1]]
          BY <1>1, <2>1, <3>1, <4>3, <5>1 DEF OneStorer
        <5>3. p \in Neighbours[l[1]] /\ q \in Neighbours[l[1]]
          BY <2>5, <4>3, <5>1, <5>2
        <5>4. Neighbours[l[1]] \cap Neighbours[p] = {}
          BY <2>5, <5>3, PersistenceAssumption
        <5> QED
          BY <3>3, <5>3, <5>4
      <4> QED
        BY <4>2, <4>3
    <3> QED
      BY <3>1, <3>2, <3>3
  <2>7. ConsumeBehind(t)'
    BY <2>6 DEF ConsumeBehind
  <2>8. StoreReplaces(t)'
    BY <1>8 DEF StoreReplaces
  <2>9. OneStorer(t)'
    BY <2>5, <2>6 DEF OneStorer
  <2> QED
    BY <2>3, <2>4, <2>7, <2>8, <2>9 DEF Flowing
<1> QED
  BY <1>11, <1>12

\* A timer takes the right to a session away with the last copy of it.
LEMMA ExpireConsumption ==
    ASSUME ConsumptionInv, NEW p \in Processes, NEW tm \in timers[p], Expire(p, tm)
    PROVE  \A u \in Tokens \ doubled' : HolderAlone(u)' /\ Flowing(u)'
<1> DEFINE t == tm.token
           last == tm \in kept[p] /\ ~StoreComing(t, p)
<1>i. HandoverInv /\ \A u \in Tokens \ doubled : HolderAlone(u) /\ Flowing(u)
  BY DEF ConsumptionInv
<1>1. /\ kept \in [Processes -> SUBSET Peer]
      /\ link' = link /\ persistent' = persistent /\ doubled' = doubled
      /\ kept' = [kept EXCEPT ![p] = @ \ Expired(p, tm)]
      /\ \A a, b \in kept[p] : a.token = b.token => a = b
  BY <1>i, HandoverTypes DEF Expire
<1>2. /\ \A u, q : <<u, q>> \in handed' <=> <<u, q>> \in handed /\ ~(last /\ u = t /\ q = p)
      /\ \A u, q : <<u, q>> \in outlived' <=>
            <<u, q>> \in outlived /\ ~(last /\ u = t /\ q = p)
  BY DEF Expire
<1>3. /\ \A q \in Processes : kept'[q] \subseteq kept[q]
      /\ last => \A s \in kept'[p] : s.token # t
  BY <1>1 DEF Expired
<1> HIDE DEF last
<1>4. \A u : \A q \in Processes : Has(q, u)' => Has(q, u)
  BY <1>3 DEF Has
<1>5. \A u : HolderAlone(u) => HolderAlone(u)'
  BY <1>1, <1>2 DEF HolderAlone
<1>6. ASSUME NEW u \in Tokens \ doubled, ~(last /\ u = t) PROVE Flowing(u)'
  <2>1. \A q \in Processes : /\ <<u, q>> \in handed' <=> <<u, q>> \in handed
                             /\ <<u, q>> \in outlived => <<u, q>> \in outlived'
    BY <1>2, <1>6
  <2> QED
    BY <1>1, <1>4, <1>i, <2>1, Undisturbed
<1>7. ASSUME t \in Tokens \ doubled, last PROVE Flowing(t)'
  <2>1. StoresAlternate(t) /\ ConsumeBehind(t) /\ StoreReplaces(t) /\ OneStorer(t)
    BY <1>7, <1>i DEF Flowing
  <2>2. \A l \in Links : l[2] = p => ~LastStore(link[l], t)
    BY <1>7 DEF last, StoreComing, LastStore, StoreIn
  <2>3. ~Has(p, t)'
    BY <1>3, <1>7 DEF Has
  <2>4. \A q : ConsumeComing(t, q) <=> ConsumeComing(t, q)'
    BY <1>1 DEF ConsumeComing
  <2>5. \A q \in Processes : q # p => /\ <<t, q>> \in handed' <=> <<t, q>> \in handed
                                      /\ <<t, q>> \in outlived' <=> <<t, q>> \in outlived
    BY <1>2
  <2>6. \A l \in Links : l[2] \in Processes
    BY NeighbourLinks
  <2>7. StoresAlternate(t)'
    BY <1>1, <2>1 DEF StoresAlternate
  <2>8. ConsumeBehind(t)'
    BY <1>1, <1>4, <2>1, <2>2, <2>3, <2>4, <2>5 DEF ConsumeBehind
  <2>9. StoreReplaces(t)'
    BY <1>1, <1>4, <2>1, <2>3, <2>4, <2>5 DEF StoreReplaces
  <2>10. OneStorer(t)'
    <3>1. \A l \in Links : <<t, l[2]>> \notin outlived' /\ LastStore(link'[l], t) =>
             <<t, l[2]>> \notin outlived /\ LastStore(link[l], t)
      BY <1>1, <2>2, <2>5, <2>6
    <3> QED
      BY <1>2, <2>1, <3>1 DEF OneStorer
  <2> QED
    BY <2>7, <2>8, <2>9, <2>10 DEF Flowing
<1> QED
  BY <1>1, <1>5, <1>6, <1>7, <1>i

\* A message arrives.
LEMMA ReceiveConsumption ==
    ASSUME ConsumptionInv, NEW l \in Links, Receive(l)
    PROVE  \A u \in Tokens \ doubled' : HolderAlone(u)' /\ Flowing(u)'
<1>0. PICK m : m = Head(link[l])
  OBVIOUS
<1> DEFINE p == l[2]
           t == m.token
           newer == \E r \in kept[p] : r.token = t /\ r.generation > m.revision
<1>i. HandoverInv /\ \A u \in Tokens \ doubled : HolderAlone(u) /\ Flowing(u)
  BY DEF ConsumptionInv
<1>1. /\ kept \in [Processes -> SUBSET Peer] /\ link \in [Links -> Seq(Message)]
      /\ p \in Processes /\ link[l] # << >> /\ link' = [link EXCEPT ![l] = Tail(@)]
      /\ UNCHANGED <<persistent, handed, doubled>>
  BY <1>i, HandoverTypes, NeighbourLinks DEF Receive
<1>2. link'[l] = Tail(link[l]) /\ \A k \in Links : k # l => link'[k] = link[k]
  BY <1>1
<1>3. m \in Message /\ m.revision \in Int
  <2>1. m \in Message
    BY <1>0, <1>1
  <2> QED
    BY <2>1, PersistenceAssumption DEF Message, Generations
<1>4. \A r \in kept[p] : r.generation \in Int
  BY <1>1, PersistenceAssumption DEF Peer, Generations
<1>5. /\ \A q \in Processes : q # p => kept'[q] = kept[q]
      /\ \A s \in kept'[p] : s \in kept[p] \/ (s.token = t /\ m.code = "store")
      /\ m.code = "consume" \/ m.code = "store"
      /\ \A u, q : ~(u = t /\ q = p) => (<<u, q>> \in outlived' <=> <<u, q>> \in outlived)
  <2>1. CASE m.code = "consume" /\ kept' = [kept EXCEPT ![p] = {r \in @ : ~Dropped(r, m)}]
             /\ outlived' = IF newer THEN outlived \cup {<<t, p>>} ELSE outlived
    BY <1>1, <2>1
  <2>2. CASE m.code = "store" /\ Store(p, t) /\ Renewed(t, p)
    BY <1>1, <2>2 DEF Store, Renewed
  <2>3. CASE m.code = "store" /\ UNCHANGED <<kept, outlived>>
    BY <1>1, <2>3
  <2> QED
    BY <1>0, <2>1, <2>2, <2>3 DEF Receive, storeVars
<1>6. m.code = "consume" =>
         /\ <<t, p>> \in outlived => <<t, p>> \in outlived'
         /\ <<t, p>> \notin outlived' => \A s \in kept'[p] : s.token # t
  <2> SUFFICES ASSUME m.code = "consume"
               PROVE  /\ <<t, p>> \in outlived => <<t, p>> \in outlived'
                      /\ <<t, p>> \notin outlived' => \A s \in kept'[p] : s.token # t
    OBVIOUS
  <2>1. /\ kept' = [kept EXCEPT ![p] = {r \in @ : ~Dropped(r, m)}]
        /\ outlived' = IF newer THEN outlived \cup {<<t, p>>} ELSE outlived
    BY <1>0 DEF Receive
  <2>2. \A s \in kept'[p] : s \in kept[p] /\ ~(s.token = t /\ s.generation <= m.revision)
    BY <1>1, <2>1 DEF Dropped
  <2>3. ~newer => \A s \in kept'[p] : s.token # t
    BY <1>3, <1>4, <2>2
  <2> QED
    BY <2>1, <2>3
<1>7. m.code = "store" =>
         \/ UNCHANGED <<kept, outlived>>
         \/ /\ <<t, p>> \in outlived' => <<t, p>> \in outlived
            /\ <<t, p>> \in outlived =>
                  <<t, p>> \in outlived' \/ (<<t, p>> \in handed /\ ~StoreComing(t, p)')
  BY <1>0, <1>1 DEF Receive, Renewed, StoreComing, storeVars
<1> HIDE DEF p, newer
<1>8. \A u : \A k \in Links : /\ LastStore(link'[k], u) => LastStore(link[k], u)
                              /\ Alternates(link[k], u) => Alternates(link'[k], u)
                              /\ ConsumeIn(link[k], u) =>
                                    ConsumeIn(link'[k], u) \/ (k = l /\ IsConsume(m, u))
  BY <1>0, <1>1, <1>2, PoppedStores
<1>9. \A u : HolderAlone(u) => HolderAlone(u)'
  BY <1>1, <1>8 DEF HolderAlone
<1>10. ASSUME NEW u \in Tokens \ doubled, u # t PROVE Flowing(u)'
  <2>1. ~IsConsume(m, u)
    BY <1>10 DEF IsConsume
  <2>2. \A q \in Processes : /\ Has(q, u)' => Has(q, u)
                             /\ <<u, q>> \in handed' <=> <<u, q>> \in handed
                             /\ <<u, q>> \in outlived => <<u, q>> \in outlived'
    BY <1>1, <1>5, <1>10 DEF Has
  <2> QED
    BY <1>8, <1>10, <1>i, <2>1, <2>2, Undisturbed
<1>11. ASSUME t \in Tokens \ doubled PROVE Flowing(t)'
  <2>1. StoresAlternate(t) /\ ConsumeBehind(t) /\ StoreReplaces(t) /\ OneStorer(t)
    BY <1>11, <1>i DEF Flowing
  <2>2. \A k \in Links : k[2] \in Processes /\ k = <<k[1], k[2]>>
    BY NeighbourLinks DEF Links
  <2>3. StoresAlternate(t)'
    BY <1>8, <2>1 DEF StoresAlternate
  <2>4. \A q \in Processes : q # p =>
           /\ \A k \in Links : k[2] = q => link'[k] = link[k]
           /\ Has(q, t)' <=> Has(q, t)
           /\ ConsumeComing(t, q)' <=> ConsumeComing(t, q)
           /\ <<t, q>> \in outlived' <=> <<t, q>> \in outlived
    <3> SUFFICES ASSUME NEW q \in Processes, q # p
                 PROVE  /\ \A k \in Links : k[2] = q => link'[k] = link[k]
                        /\ Has(q, t)' <=> Has(q, t)
                        /\ ConsumeComing(t, q)' <=> ConsumeComing(t, q)
                        /\ <<t, q>> \in outlived' <=> <<t, q>> \in outlived
      OBVIOUS
    <3>1. \A k \in Links : k[2] = q => link'[k] = link[k]
      BY <1>2 DEF p
    <3> QED
      BY <1>5, <3>1 DEF Has, ConsumeComing
  <2>5. CASE m.code = "consume"
    <3>1. <<t, p>> \notin outlived' => ~Has(p, t)' /\ <<t, p>> \notin outlived
      BY <1>6, <2>5 DEF Has
    <3>2. ConsumeBehind(t)'
      BY <1>1, <1>8, <2>1, <2>4, <3>1 DEF ConsumeBehind
    <3>3. StoreReplaces(t)'
      BY <1>1, <1>8, <2>1, <2>4, <3>1 DEF StoreReplaces
    <3>4. OneStorer(t)'
      <4>1. \A k \in Links : <<t, k[2]>> \notin outlived' => <<t, k[2]>> \notin outlived
        BY <2>2, <2>4, <3>1
      <4> QED
        BY <1>1, <1>8, <2>1, <4>1 DEF OneStorer
    <3> QED
      BY <2>3, <3>2, <3>3, <3>4 DEF Flowing
  <2>6. CASE m.code = "store" /\ UNCHANGED <<kept, outlived>>
    <3>1. ~IsConsume(m, t)
      BY <2>6 DEF IsConsume
    <3>2. \A q \in Processes : /\ Has(q, t)' => Has(q, t)
                               /\ <<t, q>> \in handed' <=> <<t, q>> \in handed
                               /\ <<t, q>> \in outlived => <<t, q>> \in outlived'
      BY <1>1, <2>6 DEF Has
    <3> QED
      BY <1>8, <1>11, <1>i, <3>1, <3>2, Undisturbed
  <2>7. CASE /\ m.code = "store"
             /\ <<t, p>> \in outlived' => <<t, p>> \in outlived
             /\ <<t, p>> \in outlived =>
                   <<t, p>> \in outlived' \/ (<<t, p>> \in handed /\ ~StoreComing(t, p)')
    <3>1. IsStore(m, t) /\ ~IsConsume(m, t)
      BY <2>7 DEF IsStore, IsConsume
    <3>2. \A k \in Links : <<t, k[2]>> \notin outlived' /\ LastStore(link'[k], t) =>
             <<t, k[2]>> \notin outlived /\ LastStore(link[k], t)
      <4> SUFFICES ASSUME NEW k \in Links, <<t, k[2]>> \notin outlived',
                          LastStore(link'[k], t), <<t, k[2]>> \in outlived
                   PROVE  FALSE
        BY <1>8
      <4>1. k[2] = p /\ ~StoreComing(t, p)'
        BY <2>2, <2>4, <2>7
      <4>2. StoreIn(link'[k], t)
        BY DEF LastStore, StoreIn
      <4> QED
        BY <4>1, <4>2 DEF StoreComing
    <3>3. /\ ~LastStore(link[l], t) => ConsumeIn(link'[l], t)
          /\ LastStore(link'[l], t) => ConsumeIn(link'[l], t)
      BY <1>0, <1>1, <1>2, <2>1, <3>1, PoppedStores DEF StoresAlternate
    <3>4. ConsumeIn(link'[l], t) => ConsumeComing(t, p)'
      BY DEF ConsumeComing, p
    <3>5. ConsumeBehind(t)'
      <4> SUFFICES ASSUME NEW q \in Processes, <<t, q>> \notin handed, <<t, q>> \notin outlived'
                   PROVE  /\ \A k \in Links : k[2] = q => ~LastStore(link'[k], t)
                          /\ Has(q, t)' => ConsumeComing(t, q)'
        BY <1>1 DEF ConsumeBehind
      <4>1. CASE q # p
        BY <2>1, <2>4, <4>1 DEF ConsumeBehind
      <4>2. CASE q = p
        <5>1. <<t, p>> \notin outlived
          BY <2>7, <4>2
        <5>2. \A k \in Links : k[2] = p => ~LastStore(link[k], t)
          BY <1>1, <2>1, <4>2, <5>1 DEF ConsumeBehind
        <5>3. ~LastStore(link[l], t)
          BY <5>2 DEF p
        <5> QED
          BY <1>8, <3>3, <3>4, <4>2, <5>2, <5>3
      <4> QED
        BY <4>1, <4>2
    <3>6. StoreReplaces(t)'
      <4> SUFFICES ASSUME NEW q \in Processes, <<t, q>> \in handed, <<t, q>> \notin outlived',
                          Has(q, t)', NEW k \in Links, k[2] = q, LastStore(link'[k], t)
                   PROVE  ConsumeComing(t, q)'
        BY <1>1 DEF StoreReplaces
      <4>1. CASE q # p
        BY <2>1, <2>4, <4>1 DEF StoreReplaces
      <4>2. CASE q = p /\ k = l
        BY <3>3, <3>4, <4>2
      <4>3. CASE q = p /\ k # l
        <5>1. <<t, p>> \notin outlived /\ LastStore(link[k], t)
          BY <3>2, <4>3
        <5>2. k[1] # l[1]
          BY <2>2, <4>3 DEF p
        <5>3. ~LastStore(link[l], t)
          BY <2>1, <4>3, <5>1, <5>2 DEF OneStorer, p
        <5> QED
          BY <3>3, <3>4, <4>3, <5>3
      <4> QED
        BY <4>1, <4>2, <4>3
    <3>7. OneStorer(t)'
      BY <1>1, <2>1, <3>2 DEF OneStorer
    <3> QED
      BY <2>3, <3>5, <3>6, <3>7 DEF Flowing
  <2> QED
    BY <1>5, <1>7, <2>5, <2>6, <2>7
<1> QED
  BY <1>1, <1>9, <1>10, <1>11, <1>i

\* A step that leaves the stores, the messages and what was handed over alone.
LEMMA QuietConsumption ==
    ASSUME ConsumptionInv, UNCHANGED <<kept, link, handed, doubled, outlived>>,
           \A d \in Conns : persistent'[d] \subseteq persistent[d]
    PROVE  \A u \in Tokens \ doubled' : HolderAlone(u)' /\ Flowing(u)'
<1> SUFFICES ASSUME NEW u \in Tokens \ doubled PROVE HolderAlone(u)' /\ Flowing(u)'
  OBVIOUS
<1>1. HolderAlone(u) /\ Flowing(u)
  BY DEF ConsumptionInv
<1>2. \A q \in Processes : Has(q, u)' => Has(q, u)
  BY DEF Has
<1> QED
  BY <1>1, <1>2, Undisturbed, HolderUndisturbed

LEMMA LoginConsumption ==
    ASSUME ConsumptionInv, NEW c \in Conns, Login(c)
    PROVE  \A u \in Tokens \ doubled' : HolderAlone(u)' /\ Flowing(u)'
<1>1. UNCHANGED <<kept, link, handed, doubled, outlived>>
  BY DEF Login, storeVars, auxVars
<1> SUFFICES ASSUME NEW u \in Tokens \ doubled PROVE HolderAlone(u)' /\ Flowing(u)'
  BY <1>1
<1>2. HandoverInv /\ HolderAlone(u) /\ Flowing(u)
  BY DEF ConsumptionInv
<1>3. Flowing(u)'
  <2>1. \A q \in Processes : Has(q, u)' => Has(q, u)
    BY <1>1 DEF Has
  <2> QED
    BY <1>1, <1>2, <2>1, Undisturbed
<1>4. /\ \A r \in persistent'[c] : r.token = issued + 1
      /\ \A d \in Conns : d # c => persistent'[d] = persistent[d]
  BY <1>2, HandoverTypes DEF Login
<1>5. CASE u = issued + 1
  <2>1. HolderAlone(u)'
    BY <1>1, <1>2, <1>4, <1>5, NewHolder
  <2> QED
    BY <1>3, <2>1
<1>6. CASE u # issued + 1
  <2>1. \A d \in Conns : \A s \in persistent'[d] : s.token = u => s \in persistent[d]
    BY <1>4, <1>6
  <2>2. HolderAlone(u)'
    BY <1>1, <1>2, <2>1, HolderUndisturbed
  <2> QED
    BY <1>3, <2>2
<1> QED
  BY <1>5, <1>6

LEMMA InitConsumption == Init => ConsumptionInv
<1> SUFFICES ASSUME Init PROVE ConsumptionInv
  OBVIOUS
<1>1. \A l \in Links : Len(link[l]) = 0 /\ link[l] = << >>
  BY DEF Init
<1>2. \A l \in Links : \A t : ~LastStore(link[l], t) /\ Alternates(link[l], t)
  BY <1>1 DEF LastStore, Alternates
<1>3. \A t : \A p \in Processes : ~Has(p, t)
  BY DEF Init, Has
<1>4. \A t : HolderAlone(t)
  BY DEF Init, HolderAlone
<1>5. \A t : Flowing(t)
  BY <1>2, <1>3
     DEF Flowing, StoresAlternate, ConsumeBehind, StoreReplaces, OneStorer
<1> QED
  BY <1>4, <1>5, InitHandover DEF ConsumptionInv

LEMMA NextConsumption == ConsumptionInv /\ [Next]_vars => ConsumptionInv'
<1> DEFINE Sound == \A u \in Tokens \ doubled : HolderAlone(u) /\ Flowing(u)
<1> SUFFICES ASSUME ConsumptionInv, [Next]_vars PROVE Sound'
  BY NextHandover DEF ConsumptionInv
<1>0. persistent \in [Conns -> SUBSET Peer]
  BY HandoverTypes DEF ConsumptionInv
<1>1. ASSUME NEW c \in Conns, Login(c) PROVE Sound'
  BY <1>1, LoginConsumption
<1>2. ASSUME NEW c \in Conns, Route(c) PROVE Sound'
  BY <1>2, SyncConsumption DEF Route
<1>3. ASSUME UNCHANGED <<kept, link, handed, doubled, outlived>>,
             \A d \in Conns : persistent'[d] \subseteq persistent[d]
      PROVE  Sound'
  BY <1>3, QuietConsumption
<1>4. ASSUME NEW c \in Conns, Destroy(c) PROVE Sound'
  <2>1. persistent' = [persistent EXCEPT ![c] = {}]
    BY <1>4 DEF Destroy
  <2>2. CASE SyncAndStore(c)
    BY <2>1, <2>2, SyncConsumption
  <2>3. CASE UNCHANGED <<storeVars, link, auxVars>>
    <3>1. \A d \in Conns : persistent'[d] \subseteq persistent[d]
      BY <1>0, <2>1
    <3> QED
      BY <1>3, <2>3, <3>1 DEF storeVars, auxVars
  <2> QED
    BY <1>4, <2>2, <2>3 DEF Destroy
<1>5. ASSUME NEW c \in Conns, NEW t, NEW s, GameLoad(c, t, s) PROVE Sound'
  <2>1. PICK r \in kept[ProcessOf[c]] :
           Load(ProcessOf[c], r) /\ persistent' = [persistent EXCEPT ![c] = {r}]
    BY <1>5 DEF GameLoad
  <2> QED
    BY <2>1, LoadConsumption
<1>6. ASSUME NEW c \in Conns, NEW s, Retry(c, s) PROVE Sound'
  <2>1. CASE GameLoad(c, waiting[c], s)
    BY <1>5, <2>1
  <2>2. CASE UNCHANGED <<storeVars, link, state, persistent, issued, auxVars>>
    BY <1>3, <2>2 DEF storeVars, auxVars
  <2> QED
    BY <1>6, <2>1, <2>2 DEF Retry
<1>7. ASSUME NEW c \in Conns, NEW t, FrontAuthenticate(c, t) PROVE Sound'
  <2>1. PICK r \in kept[ProcessOf[c]] :
           /\ Load(ProcessOf[c], r)
           /\ persistent' = [persistent EXCEPT ![c] = {[r EXCEPT !.token = issued + 1]}]
    BY <1>7 DEF FrontAuthenticate
  <2>2. r \in Peer
    BY HandoverTypes, PersistenceAssumption DEF ConsumptionInv
  <2>3. [r EXCEPT !.token = issued + 1].token = issued + 1
    BY <2>2 DEF Peer
  <2> QED
    BY <2>1, <2>3, LoadConsumption
<1>8. ASSUME NEW c \in Conns, NEW t,
             Lose(c) \/ GiveUp(c) \/ FrontRefuse(c, t) \/ GamePark(c, t)
      PROVE  Sound'
  <2>1. UNCHANGED <<storeVars, link, persistent, issued, auxVars>>
    BY <1>8 DEF Lose, GiveUp, FrontRefuse, GamePark
  <2> QED
    BY <1>3, <2>1 DEF storeVars, auxVars
<1>9. ASSUME NEW c \in Conns, NEW t, NEW s, GameAuthenticate(c, t, s) PROVE Sound'
  BY <1>5, <1>9 DEF GameAuthenticate
<1>10. CASE UNCHANGED vars
  BY <1>3, <1>10 DEF vars
<1>11. ASSUME NEW p \in Processes, NEW tm \in timers[p], Expire(p, tm) PROVE Sound'
  BY <1>11, ExpireConsumption
<1>12. ASSUME NEW l \in Links, Receive(l) PROVE Sound'
  BY <1>12, ReceiveConsumption
<1> QED
  BY <1>1, <1>2, <1>4, <1>6, <1>7, <1>8, <1>9, <1>10, <1>11, <1>12 DEF Next, SlowUpdate

LEMMA ConsumptionImplies == ConsumptionInv => ConsumedOnce
<1> SUFFICES ASSUME ConsumptionInv, \A l \in Links : link[l] = << >>,
                    NEW p \in Processes, NEW r \in kept[p], r.token \notin doubled,
                    <<r.token, p>> \notin handed \cup outlived
             PROVE  FALSE
  BY DEF ConsumedOnce
<1>1. r.token \in Tokens
  BY HandoverTypes DEF ConsumptionInv, Peer
<1>2. ConsumeBehind(r.token) /\ Has(p, r.token)
  BY <1>1 DEF ConsumptionInv, Flowing, Has
<1>3. ConsumeComing(r.token, p)
  BY <1>2 DEF ConsumeBehind
<1>4. PICK l \in Links : ConsumeIn(link[l], r.token)
  BY <1>3 DEF ConsumeComing
<1>5. Len(link[l]) = 0
  OBVIOUS
<1> QED
  BY <1>4, <1>5 DEF ConsumeIn

\* Once the messages are delivered, a copy of a token that was loaded is found
\* only where it was stored again, where nobody is told of the consumption, or
\* where the copy counted as newer: in every tree of processes, whatever the
\* order in which stores and consumptions of many processes arrive.
THEOREM TokensAreConsumedOnce == Spec => []ConsumedOnce
  BY InitConsumption, NextConsumption, ConsumptionImplies, PTL DEF Spec
=============================================================================
