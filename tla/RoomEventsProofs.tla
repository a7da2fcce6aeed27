-------------------------- MODULE RoomEventsProofs --------------------------
(***************************************************************************)
(* The event cache of a room, for any number of actors, requests, codes    *)
(* and groups: every player has been sent what is cached, in the order of  *)
(* the cache, and what a member that is removed leaves behind was raised   *)
(* too late to be purged.                                                  *)
(*                                                                         *)
(* Two steps put something at risk: the end of a join, which the flood of  *)
(* the cache makes up for, and the end of a RaiseEvent that is cached,     *)
(* which the broadcast does.  The others take from the cache, or leave the *)
(* players that remain and what they were sent alone (FewerEntries).       *)
(***************************************************************************)
EXTENDS RoomEvents, RoomProofs

\* Requests end once: no step changes the record of one that has ended.
EndedStay == \A r \in Raises : raise[r].pc = "done" => raise'[r] = raise[r]

-----------------------------------------------------------------------------
(* Types. *)

\* What an actor was sent stays a set of events, and its order a relation.
LEMMA OrderTyped ==
    ASSUME TypeOK, NEW a \in Actors, NEW entries \in SUBSET Cached
    PROVE  /\ EventsOf(entries) \in SUBSET Raises
           /\ OrderAfter(a, entries) \in SUBSET (Raises \X Raises)
<1>1. EventsOf(entries) \in SUBSET Raises
    BY DEF EventsOf, Cached
<1>2. order[a] \in SUBSET (Raises \X Raises) /\ got[a] \in SUBSET Raises
    BY DEF TypeOK
<1>3. OrderAfter(a, entries) \subseteq Raises \X Raises
    BY <1>1, <1>2, Zenon DEF OrderAfter
<1> QED
    BY <1>1, <1>3

\* The record of a request that has ended without an event, and the fields of
\* any other.
LEMMA RequestTyped ==
    /\ NoRequest \in Request
    /\ [NoRequest EXCEPT !.pc = "done"] \in Request
    /\ NoRequest.sender = 0 /\ [NoRequest EXCEPT !.pc = "done"].sender = 0
<1>1. DefaultAsk \in Ask
    BY DEF DefaultAsk, Ask, CacheOp, Receivers
<1>2. 0 \in 0 .. MaxActor
    BY RoomAssumption
<1> QED
    BY <1>1, <1>2 DEF NoRequest, Request

\* The entry of an event that may be cached.
LEMMA EntryTyped ==
    ASSUME TypeOK, NEW r \in Raises
    PROVE  Entry(r) \in Cached
<1>1. EventsOf(cache) \in SUBSET Raises
    BY DEF TypeOK, EventsOf, Cached
<1>2. raise[r].sender \in 0 .. MaxActor
    BY DEF TypeOK, Request
<1>3. 0 \in 0 .. MaxActor
    BY RoomAssumption
<1> QED
    BY <1>1, <1>2, <1>3 DEF Entry, Cached

-----------------------------------------------------------------------------
(* Steps that add nothing to the cache. *)

\* The cache loses entries at most, the players that remain were joined before
\* and are sent nothing, and in a room with DeleteCacheOnLeave nobody is removed
\* whose events remain.
LEMMA FewerEntries ==
    ASSUME EventsInv, EndedStay, cache' \subseteq cache,
           \A b \in Actors : Joined(b)' =>
               Joined(b) /\ got'[b] = got[b] /\ order'[b] = order[b],
           purge' = purge,
           purge => \A c \in cache' : c.sender \in peers => c.sender \in peers'
    PROVE  EntriesSettled' /\ CacheDelivered' /\ CacheOrder' /\ PurgedUnlessLate'
<1>1. \A c \in cache' : c \in cache /\ c.event \in Raises /\ c.before \subseteq Raises
    BY DEF EventsInv, TypeOK, Cached
<1>2. \A c \in cache' : raise'[c.event] = raise[c.event] /\ raise[c.event].pc = "done"
    BY <1>1 DEF EventsInv, EntriesSettled, EndedStay
<1>3. EntriesSettled'
    BY <1>1, <1>2 DEF EventsInv, EntriesSettled, EndedStay, Origin
<1>4. CacheDelivered'
    BY <1>1, <1>2 DEF EventsInv, CacheDelivered, Origin
<1>5. CacheOrder'
    BY <1>1, <1>2 DEF EventsInv, CacheOrder, Origin
<1>6. PurgedUnlessLate'
    BY <1>1, <1>2 DEF EventsInv, PurgedUnlessLate
<1> QED
    BY <1>3, <1>4, <1>5, <1>6

LEMMA AdmitEvents ==
    ASSUME EventsInv, NEW a \in Actors, Admit(a)
    PROVE  EventsInv'
<1> USE DEF Admit, eventVars
<1>1. RoomInv'
    BY AdmitInv DEF EventsInv
<1>2. TypeOK'
    <2>1. last \in Nat /\ last' = last + 1 /\ \A r \in Raises : raise[r].sender \in Nat
        BY RoomAssumption
        DEF EventsInv, TypeOK, RoomTypeOK, Request, Actors, AdmitMember
    <2>2. SendersGiven'
        BY <2>1 DEF EventsInv, TypeOK, SendersGiven
    <2> QED
        BY <1>1, <2>2 DEF EventsInv, RoomInv, TypeOK
<1>3. \A b \in Actors : Joined(b)' => Joined(b)
    BY DEF Joined, AdmitMember, EventsInv, RoomInv, RoomTypeOK
<1>4. \A c \in cache' : c.sender \in peers => c.sender \in peers'
    BY DEF AdmitMember
<1>5. EntriesSettled' /\ CacheDelivered' /\ CacheOrder' /\ PurgedUnlessLate'
    BY <1>3, <1>4, FewerEntries DEF EndedStay
<1> QED
    BY <1>1, <1>2, <1>5 DEF EventsInv

\* The end of a removal: the others keep what they were sent.
LEMMA Removed ==
    ASSUME EventsInv, RoomInv', NEW a \in Actors,
           peers' = peers \ {a}, \A b \in Actors : b # a => join'[b] = join[b],
           last' = last, Forget(a), cache' \in SUBSET cache,
           (purge /\ a \in peers) => cache' \subseteq Without({a})
    PROVE  EventsInv'
<1> USE DEF Forget
<1>1. TypeOK'
    <2>1. got' \in [Actors -> SUBSET Raises]
        BY DEF EventsInv, TypeOK
    <2>2. order' \in [Actors -> SUBSET (Raises \X Raises)]
        BY DEF EventsInv, TypeOK
    <2>3. groups' \in [Actors -> SUBSET Groups]
        BY DEF EventsInv, TypeOK
    <2>4. cache' \in SUBSET Cached
        BY DEF EventsInv, TypeOK
    <2> QED
        BY <2>1, <2>2, <2>3, <2>4 DEF EventsInv, RoomInv, TypeOK, SendersGiven
<1>2. \A b \in Actors : Joined(b)' =>
          Joined(b) /\ got'[b] = got[b] /\ order'[b] = order[b]
    BY DEF Joined, EventsInv, TypeOK
<1>3. purge => \A c \in cache' : c.sender \in peers => c.sender \in peers'
    BY DEF Without
<1>4. EntriesSettled' /\ CacheDelivered' /\ CacheOrder' /\ PurgedUnlessLate'
    BY <1>2, <1>3, FewerEntries DEF EndedStay
<1> QED
    BY <1>1, <1>4 DEF EventsInv

LEMMA RevertEvents ==
    ASSUME EventsInv, NEW a \in Actors, Revert(a)
    PROVE  EventsInv'
<1>1. RoomInv'
    BY RevertInv DEF Revert, EventsInv
<1>2. peers' = peers \ {a} /\ \A b \in Actors : b # a => join'[b] = join[b]
    BY DEF Revert, RevertMember, EventsInv, RoomInv, RoomTypeOK
<1> QED
    BY <1>1, <1>2, Removed DEF Revert, RevertMember, CacheAfterRemoval, Without

LEMMA FinishDropEvents ==
    ASSUME EventsInv, NEW a \in Actors, FinishDrop(a)
    PROVE  EventsInv'
<1>1. RoomInv'
    BY FinishDropInv DEF FinishDrop, EventsInv
<1>2. peers' = peers \ {a} /\ \A b \in Actors : b # a => join'[b] = join[b]
    BY DEF FinishDrop, FinishDropMember, Depart
<1> QED
    BY <1>1, <1>2, Removed
    DEF FinishDrop, FinishDropMember, Depart, CacheAfterRemoval, Without

LEMMA LeaveEvents ==
    ASSUME EventsInv, NEW a \in Actors, Leave(a)
    PROVE  EventsInv'
<1>1. RoomInv'
    BY LeaveInv DEF Leave, EventsInv
<1>2. peers' = peers \ {a} /\ \A b \in Actors : b # a => join'[b] = join[b]
    BY DEF Leave, LeaveMember, Depart
<1> QED
    BY <1>1, <1>2, Removed DEF Leave, LeaveMember, Depart, Without

LEMMA BeginDropEvents ==
    ASSUME EventsInv, NEW a \in Actors, BeginDrop(a)
    PROVE  EventsInv'
<1> USE DEF BeginDrop
<1>1. RoomInv'
    BY BeginDropInv DEF EventsInv
<1>2. cache' \subseteq cache
    BY DEF Without
<1>3. TypeOK'
    BY <1>1, <1>2 DEF EventsInv, RoomInv, TypeOK, SendersGiven, BeginDropMember
<1>4. UNCHANGED <<peers, join>>
    BY DEF BeginDropMember
<1>5. EntriesSettled' /\ CacheDelivered' /\ CacheOrder' /\ PurgedUnlessLate'
    BY <1>2, <1>4, FewerEntries DEF EndedStay, Joined
<1> QED
    BY <1>1, <1>3, <1>5 DEF EventsInv

\* A request that has not ended changes, and the room stays as it is.
LEMMA RequestOnly ==
    ASSUME EventsInv, NEW r \in Raises, raise[r].pc # "done",
           NEW q \in Request, q.sender <= last, raise' = [raise EXCEPT ![r] = q], cache' \in SUBSET cache,
           UNCHANGED <<roomVars, purge, cleanup, got, order, groups, changes>>
    PROVE  EventsInv'
<1>1. RoomInv'
    BY StutterInv DEF EventsInv
<1>2. TypeOK'
    <2>1. raise' \in [Raises -> Request]
        BY DEF EventsInv, TypeOK
    <2>2. SendersGiven'
        BY DEF EventsInv, TypeOK, SendersGiven, roomVars
    <2> QED
        BY <1>1, <2>1, <2>2 DEF EventsInv, RoomInv, TypeOK
<1>3. EndedStay
    BY DEF EndedStay, EventsInv, TypeOK
<1>4. EntriesSettled' /\ CacheDelivered' /\ CacheOrder' /\ PurgedUnlessLate'
    BY <1>3, FewerEntries DEF roomVars, Joined
<1> QED
    BY <1>1, <1>2, <1>4 DEF EventsInv

LEMMA RaiseEvents ==
    ASSUME EventsInv, NEW r \in Raises, NEW s \in Actors, NEW ask \in Asks,
           RaiseEvent(r, s, ask)
    PROVE  EventsInv'
<1> DEFINE q == [pc |-> "awaiting", sender |-> s, ask |-> ask, late |-> FALSE]
<1>1. ask \in Ask /\ s \in 0 .. MaxActor
    BY AsksAssumption, RoomAssumption DEF Actors
<1>2. q \in Request
    BY <1>1 DEF Request
<1>3. q.sender <= last
    BY DEF RaiseEvent, Connected, EventsInv, RoomInv, RoomTypeOK
<1> QED
    BY <1>2, <1>3, RequestOnly DEF RaiseEvent

LEMMA FailEvents ==
    ASSUME EventsInv, NEW r \in Raises, FailRaiseEvent(r)
    PROVE  EventsInv'
<1>1. 0 <= last
    BY RoomAssumption DEF EventsInv, RoomInv, RoomTypeOK, Actors
<1> QED
    BY <1>1, RequestTyped, RequestOnly DEF FailRaiseEvent

LEMMA RemoveEvents ==
    ASSUME EventsInv, NEW r \in Raises, RemoveFromCache(r)
    PROVE  EventsInv'
<1>1. cache' \in SUBSET cache
    BY DEF RemoveFromCache
<1>2. 0 <= last
    BY RoomAssumption DEF EventsInv, RoomInv, RoomTypeOK, Actors
<1> QED
    BY <1>1, <1>2, RequestTyped, RequestOnly DEF RemoveFromCache

LEMMA GroupsEvents ==
    ASSUME EventsInv, NEW a \in Actors, NEW add \in SUBSET Groups,
           NEW remove \in SUBSET Groups, ChangeInterestGroups(a, add, remove)
    PROVE  EventsInv'
<1> USE DEF ChangeInterestGroups
<1>1. RoomInv'
    BY StutterInv DEF EventsInv
<1>2. TypeOK'
    <2>1. groups' \in [Actors -> SUBSET Groups]
        BY DEF EventsInv, TypeOK
    <2>2. changes' \in 0 .. MaxChanges
        BY EventsAssumption DEF EventsInv, TypeOK
    <2> QED
        BY <1>1, <2>1, <2>2 DEF EventsInv, RoomInv, TypeOK, SendersGiven, roomVars
<1>3. EntriesSettled' /\ CacheDelivered' /\ CacheOrder' /\ PurgedUnlessLate'
    BY FewerEntries DEF EndedStay, roomVars, Joined
<1> QED
    BY <1>1, <1>2, <1>3 DEF EventsInv

-----------------------------------------------------------------------------
(* The end of a join and the end of a RaiseEvent. *)

\* flood_peer() sends the joiner all that is cached and not its own, in order.
LEMMA CompleteEvents ==
    ASSUME EventsInv, NEW a \in Actors, Complete(a)
    PROVE  EventsInv'
<1> USE DEF Complete
<1>1. RoomInv'
    BY CompleteInv DEF EventsInv
<1>2. /\ got \in [Actors -> SUBSET Raises]
      /\ order \in [Actors -> SUBSET (Raises \X Raises)]
      /\ Flood(a) \in SUBSET Cached
    BY DEF EventsInv, TypeOK, Flood
<1>3. TypeOK'
    <2>1. /\ EventsOf(Flood(a)) \in SUBSET Raises
          /\ OrderAfter(a, Flood(a)) \in SUBSET (Raises \X Raises)
        BY <1>2, OrderTyped DEF EventsInv
    <2>2. got' \in [Actors -> SUBSET Raises]
        BY <1>2, <2>1
    <2>3. order' \in [Actors -> SUBSET (Raises \X Raises)]
        BY <1>2, <2>1
    <2> QED
        BY <1>1, <2>2, <2>3 DEF EventsInv, RoomInv, TypeOK, SendersGiven, CompleteMember
<1>4. \A c \in cache : Origin(c) # a => c \in Flood(a)
    <2>1. a # 0
        BY DEF Actors
    <2> QED
        BY <2>1 DEF Flood, EventsInv, EntriesSettled
<1>5. \A b \in Actors : b # a =>
          /\ Joined(b)' => Joined(b)
          /\ got'[b] = got[b] /\ order'[b] = order[b]
    BY <1>2 DEF CompleteMember, Joined, EventsInv, RoomInv, RoomTypeOK
<1>6. /\ got'[a] = got[a] \cup EventsOf(Flood(a))
      /\ order'[a] = OrderAfter(a, Flood(a))
    BY <1>2
<1>7. EntriesSettled'
    BY DEF EventsInv, EntriesSettled, Origin
<1>8. CacheDelivered'
    <2> SUFFICES ASSUME NEW b \in Actors, Joined(b)', NEW c \in cache, Origin(c) # b
                 PROVE  c.event \in got'[b]
        BY DEF CacheDelivered, Origin
    <2>1. CASE b = a
        BY <2>1, <1>4, <1>6 DEF EventsOf
    <2>2. CASE b # a
        BY <2>2, <1>5 DEF EventsInv, CacheDelivered
    <2> QED
        BY <2>1, <2>2
<1>9. CacheOrder'
    <2> SUFFICES ASSUME NEW b \in Actors, Joined(b)', NEW c \in cache, NEW d \in cache,
                        c.event \in d.before, Origin(c) # b, Origin(d) # b
                 PROVE  <<c.event, d.event>> \in order'[b]
        BY DEF CacheOrder, Origin
    <2>1. CASE b = a
        <3>1. c \in Flood(a) /\ d \in Flood(a)
            BY <2>1, <1>4
        <3>2. <<c.event, d.event>> \in EventsOf(Flood(a)) \X EventsOf(Flood(a))
            BY <3>1 DEF EventsOf
        <3> QED
            BY <2>1, <3>1, <3>2, <1>6 DEF OrderAfter
    <2>2. CASE b # a
        BY <2>2, <1>5 DEF EventsInv, CacheOrder
    <2> QED
        BY <2>1, <2>2
<1>10. PurgedUnlessLate'
    BY DEF CompleteMember, EventsInv, PurgedUnlessLate
<1> QED
    BY <1>1, <1>3, <1>7, <1>8, <1>9, <1>10 DEF EventsInv

\* broadcast_event() sends an event that may be cached to every member but,
\* perhaps, its sender.
LEMMA CacheableReaches ==
    ASSUME TypeOK, NEW r \in Raises, Cacheable(r), NEW a \in peers, raise[r].sender # a
    PROVE  a \in Reached(r)
BY DEF Cacheable, Reached, TypeOK, Request, Ask, Receivers

LEMMA PublishEvents ==
    ASSUME EventsInv, NEW r \in Raises, PublishEvent(r)
    PROVE  EventsInv'
<1> DEFINE e == Entry(r)
           New(c) == Cacheable(r) /\ c = e
<1>0. /\ raise \in [Raises -> Request]
      /\ got \in [Actors -> SUBSET Raises]
      /\ order \in [Actors -> SUBSET (Raises \X Raises)]
      /\ cache \in SUBSET Cached
      /\ peers \subseteq Actors
    BY RoomAssumption DEF EventsInv, TypeOK, RoomTypeOK, Actors
<1>1. RoomInv'
    BY StutterInv DEF EventsInv, PublishEvent
<1>2. /\ raise[r].pc = "awaiting"
      /\ raise' = [raise EXCEPT ![r].pc = "done", ![r].late = raise[r].sender \notin peers]
      /\ UNCHANGED <<purge, cleanup, groups, changes, peers, join>>
    BY DEF PublishEvent, roomVars
<1>3. /\ e \in Cached /\ e.event = r /\ e.before = EventsOf(cache)
      /\ e.sender \in {0, raise[r].sender}
    BY EntryTyped DEF EventsInv, Entry
<1>4. /\ raise'[r].pc = "done" /\ raise'[r].sender = raise[r].sender
      /\ raise'[r].late = (raise[r].sender \notin peers)
      /\ \A x \in Raises : x # r => raise'[x] = raise[x]
    BY <1>0, <1>2 DEF Request
<1>5. \A c \in cache : /\ c.event \in Raises \ {r} /\ c.before \subseteq Raises \ {r}
                       /\ raise'[c.event] = raise[c.event]
    BY <1>0, <1>2, <1>4 DEF EventsInv, EntriesSettled, Cached
<1>6. \A c \in cache' : c \in cache \/ New(c)
    BY DEF PublishEvent
<1>7. \A a \in Actors :
          /\ a \in Reached(r) =>
                 got'[a] = got[a] \cup {r} /\ order'[a] = OrderAfter(a, {e})
          /\ a \notin Reached(r) => got'[a] = got[a] /\ order'[a] = order[a]
    BY DEF PublishEvent
<1>8. \A a \in Actors : Cacheable(r) /\ Joined(a) /\ raise[r].sender # a => a \in Reached(r)
    BY CacheableReaches DEF EventsInv, Joined
<1>9. EventsOf({e}) = {r}
    BY <1>3 DEF EventsOf
<1> HIDE DEF e
<1>10. TypeOK'
    <2>1. raise' \in [Raises -> Request]
        BY <1>0, <1>2 DEF Request
    <2>2. cache' \in SUBSET Cached
        BY <1>0, <1>3, <1>6
    <2>3. got' \in [Actors -> SUBSET Raises]
        BY <1>0 DEF PublishEvent
    <2>4. \A a \in Actors : OrderAfter(a, {e}) \in SUBSET (Raises \X Raises)
        <3>1. {e} \in SUBSET Cached
            BY <1>3
        <3> QED
            BY <3>1, OrderTyped DEF EventsInv
    <2>5. order' \in [Actors -> SUBSET (Raises \X Raises)]
        BY <1>0, <2>4 DEF PublishEvent, e
    <2>6. SendersGiven'
        <3>1. last' = last /\ \A x \in Raises : raise'[x].sender = raise[x].sender
            BY <1>4 DEF PublishEvent, roomVars
        <3> QED
            BY <3>1 DEF EventsInv, TypeOK, SendersGiven
    <2> QED
        BY <1>1, <1>2, <2>1, <2>2, <2>3, <2>5, <2>6 DEF EventsInv, RoomInv, TypeOK
<1>11. EntriesSettled'
    <2> SUFFICES ASSUME NEW c \in cache'
                 PROVE  /\ raise'[c.event].pc = "done"
                        /\ c.sender \in {0, raise'[c.event].sender}
                        /\ \A x \in c.before : raise'[x].pc = "done"
        BY DEF EntriesSettled, Origin
    <2>1. CASE c \in cache
        <3>1. \A x \in c.before : raise'[x] = raise[x]
            BY <2>1, <1>4, <1>5
        <3> QED
            BY <2>1, <3>1, <1>5 DEF EventsInv, EntriesSettled, Origin
    <2>2. CASE New(c)
        <3>1. \A x \in e.before : raise'[x].pc = "done"
            BY <1>3, <1>5 DEF EventsOf, EventsInv, EntriesSettled
        <3> QED
            BY <2>2, <3>1, <1>3, <1>4
    <2> QED
        BY <2>1, <2>2, <1>6
<1>12. CacheDelivered'
    <2> SUFFICES ASSUME NEW a \in Actors, Joined(a), NEW c \in cache',
                        raise'[c.event].sender # a
                 PROVE  c.event \in got'[a]
        BY <1>2 DEF CacheDelivered, Origin, Joined
    <2>1. CASE c \in cache
        <3>1. c.event \in got[a]
            BY <2>1, <1>5 DEF EventsInv, CacheDelivered, Origin
        <3> QED
            BY <3>1, <1>7
    <2>2. CASE New(c)
        BY <2>2, <1>3, <1>4, <1>7, <1>8
    <2> QED
        BY <2>1, <2>2, <1>6
<1>13. CacheOrder'
    <2> SUFFICES ASSUME NEW a \in Actors, Joined(a), NEW c \in cache', NEW d \in cache',
                        c.event \in d.before,
                        raise'[c.event].sender # a, raise'[d.event].sender # a
                 PROVE  <<c.event, d.event>> \in order'[a]
        BY <1>2 DEF CacheOrder, Origin, Joined
    <2>1. c \in cache
        <3>1. r \notin d.before
            BY <1>3, <1>5, <1>6 DEF EventsOf
        <3> QED
            BY <3>1, <1>3, <1>6
    <2>2. CASE d \in cache
        <3>1. <<c.event, d.event>> \in order[a]
            BY <2>1, <2>2, <1>5 DEF EventsInv, CacheOrder, Origin
        <3>2. c.event # r /\ d.event # r
            BY <2>1, <2>2, <1>5
        <3>3. <<c.event, d.event>> \in OrderAfter(a, {e})
            BY <3>1, <3>2, <1>9 DEF OrderAfter
        <3> QED
            BY <3>1, <3>3, <1>7
    <2>3. CASE New(d)
        <3>1. d.event = r /\ a \in Reached(r)
            BY <2>3, <1>3, <1>4, <1>8
        <3>2. c.event \in got[a] \ {r}
            BY <2>1, <1>5 DEF EventsInv, CacheDelivered, Origin
        <3>3. <<c.event, r>> \in (got[a] \ {r}) \X {r}
            BY <3>2
        <3>4. <<c.event, r>> \in OrderAfter(a, {e})
            BY <3>3, <1>9 DEF OrderAfter
        <3> QED
            BY <3>1, <3>4, <1>7
    <2> QED
        BY <2>2, <2>3, <1>6
<1>14. PurgedUnlessLate'
    <2> SUFFICES ASSUME purge, NEW c \in cache'
                 PROVE  c.sender \in peers \cup {0} \/ raise'[c.event].late
        BY <1>2 DEF PurgedUnlessLate
    <2>1. CASE c \in cache
        BY <2>1, <1>5 DEF EventsInv, PurgedUnlessLate
    <2>2. CASE New(c)
        BY <2>2, <1>3, <1>4
    <2> QED
        BY <2>1, <2>2, <1>6
<1> QED
    BY <1>1, <1>10, <1>11, <1>12, <1>13, <1>14 DEF EventsInv

-----------------------------------------------------------------------------
(* The theorems. *)

LEMMA EventsInit == Init => EventsInv
<1> SUFFICES ASSUME Init PROVE EventsInv
    OBVIOUS
<1>1. RoomInv
    BY InitInv DEF Init
<1>2. TypeOK
    <2>1. raise \in [Raises -> Request]
        BY RequestTyped DEF Init
    <2>2. changes \in 0 .. MaxChanges
        BY EventsAssumption DEF Init
    <2>3. SendersGiven
        BY RequestTyped DEF Init, RoomInit, SendersGiven
    <2> QED
        BY <1>1, <2>1, <2>2, <2>3 DEF Init, TypeOK, RoomInv
<1>3. EntriesSettled /\ CacheDelivered /\ CacheOrder /\ PurgedUnlessLate
    BY DEF Init, EntriesSettled, CacheDelivered, CacheOrder, PurgedUnlessLate
<1> QED
    BY <1>1, <1>2, <1>3 DEF EventsInv

LEMMA EventsNext == EventsInv /\ [Next]_vars => EventsInv'
<1> SUFFICES ASSUME EventsInv, [Next]_vars PROVE EventsInv'
    OBVIOUS
<1>1. CASE UNCHANGED vars
    <2>1. RoomInv'
        BY <1>1, StutterInv DEF vars, EventsInv
    <2>2. UNCHANGED <<peers, join>> /\ UNCHANGED eventVars
        BY <1>1 DEF vars, roomVars
    <2>3. TypeOK'
        BY <1>1, <2>1, <2>2 DEF EventsInv, RoomInv, TypeOK, eventVars, SendersGiven, vars, roomVars
    <2>4. EntriesSettled' /\ CacheDelivered' /\ CacheOrder' /\ PurgedUnlessLate'
        BY <2>2, FewerEntries DEF eventVars, EndedStay, Joined
    <2> QED
        BY <2>1, <2>3, <2>4 DEF EventsInv
<1>2. CASE Next
    <2>1. CASE \E a \in Actors :
                  Admit(a) \/ Complete(a) \/ Revert(a) \/ BeginDrop(a) \/ FinishDrop(a) \/ Leave(a)
        BY <2>1, AdmitEvents, CompleteEvents, RevertEvents, BeginDropEvents,
            FinishDropEvents, LeaveEvents
    <2>2. CASE \E a \in Actors : \E add, remove \in SUBSET Groups :
                  ChangeInterestGroups(a, add, remove)
        BY <2>2, GroupsEvents
    <2>3. CASE \E r \in Raises : FailRaiseEvent(r) \/ RemoveFromCache(r) \/ PublishEvent(r)
        BY <2>3, FailEvents, RemoveEvents, PublishEvents
    <2>4. CASE \E r \in Raises : \E s \in Actors, ask \in Asks : RaiseEvent(r, s, ask)
        BY <2>4, RaiseEvents
    <2> QED
        BY <1>2, <2>1, <2>2, <2>3, <2>4 DEF Next
<1> QED
    BY <1>1, <1>2

\* EventsInv holds in every reachable state.
THEOREM EventsInvariance == Spec => []EventsInv
<1> QED
    BY EventsInit, EventsNext, PTL DEF Spec

\* Every state of the room, its cache and its RaiseEvent requests is well-typed.
THEOREM EventsWellTyped == Spec => []TypeOK
<1>1. EventsInv => TypeOK
    BY DEF EventsInv
<1> QED
    BY <1>1, EventsInvariance, PTL

\* flood_peer() and broadcast_event() together leave no joined player without a
\* cached event of another player, however joins, events, removals and departures
\* interleave.
THEOREM CachedEventsReachPlayers == Spec => []CacheDelivered
<1>1. EventsInv => CacheDelivered
    BY DEF EventsInv
<1> QED
    BY <1>1, EventsInvariance, PTL

\* Every joined player was last sent the cached events in the order of event_cache.
THEOREM CacheIsInOrder == Spec => []CacheOrder
<1>1. EventsInv => CacheOrder
    BY DEF EventsInv
<1> QED
    BY <1>1, EventsInvariance, PTL

\* remove_peer() purges what a member has in the cache: events of an actor that is
\* gone are those whose RaiseEvent resumed after it was.
THEOREM RemovedArePurged == Spec => []PurgedUnlessLate
<1>1. EventsInv => PurgedUnlessLate
    BY DEF EventsInv
<1> QED
    BY <1>1, EventsInvariance, PTL
=============================================================================
