----------------------------- MODULE RoomEvents -----------------------------
(***************************************************************************)
(* RaiseEvent and the event cache of a room (handler_gameserver.cpp,       *)
(* broadcast_event() and flood_peer() in game.cpp), and interest groups.   *)
(*                                                                         *)
(* An event is named by the RaiseEvent request it comes from.  Its code    *)
(* stands for the code and the data that a removal's filter looks at.  An  *)
(* event is cached once, so that the cache is the set of its entries, each *)
(* with the events that were cached before it.                             *)
(*                                                                         *)
(* purge      the room's flag DeleteCacheOnLeave                           *)
(* cleanup    flags & CleanupCacheOnLeave, which HandleDisconnect tests    *)
(* cache      event_cache: the events with sender_actor_id, 0 for global   *)
(* raise[r]   the coroutine of request r: "awaiting" OnRaiseEvent; late is *)
(*            auxiliary: its sender had been removed when it resumed       *)
(* got[a]     the events that were sent to actor a                         *)
(* order[a]   the pairs of them that it was last sent in this order        *)
(* groups[a]  interest_groups, without group 0                             *)
(***************************************************************************)
EXTENDS Room

CONSTANTS
    Raises,            \* RaiseEvent requests
    Asks,              \* what they may ask for
    Codes,             \* event codes, without the wildcard 0
    Groups,            \* interest groups, without 0
    MaxChanges         \* bound: ChangeInterestGroups requests

ASSUME EventsAssumption == 0 \notin Codes /\ 0 \notin Groups /\ MaxChanges \in Nat

VARIABLES purge, cleanup, cache, raise, got, order, groups, changes

eventVars == <<purge, cleanup, cache, raise, got, order, groups, changes>>
vars == <<roomVars, eventVars>>

CacheOp == {"DoNotCache", "AddToRoomCache", "AddToRoomCacheGlobal",
            "RemoveFromRoomCache", "RemoveFromCacheForActorsLeft"}

Receivers == {"Others", "All", "MasterClient", "List"}

Cached == [event : Raises, sender : 0 .. MaxActor, before : SUBSET Raises]

\* What a request asks for: to is the receiver group or, when ActorList is present,
\* even if it is empty, "List"; only then does list count.
Ask == [op : CacheOp, to : Receivers, list : SUBSET Actors, group : Groups \cup {0},
        code : Codes \cup {0}]

DefaultAsk == [op |-> "DoNotCache", to |-> "Others", list |-> {}, group |-> 0, code |-> 0]

ASSUME AsksAssumption == Asks \subseteq Ask

Request == [pc : {"idle", "awaiting", "done"}, sender : 0 .. MaxActor, ask : Ask,
            late : BOOLEAN]

NoRequest == [pc |-> "idle", sender |-> 0, ask |-> DefaultAsk, late |-> FALSE]

Init ==
    /\ RoomInit
    /\ purge \in BOOLEAN /\ cleanup \in BOOLEAN
    /\ cache = {}
    /\ raise = [r \in Raises |-> NoRequest]
    /\ got = [a \in Actors |-> {}] /\ order = [a \in Actors |-> {}]
    /\ groups = [a \in Actors |-> {}]
    /\ changes = 0

\* Events come from actors that create_peer() has numbered.
SendersGiven == \A r \in Raises : raise[r].sender <= last

TypeOK ==
    /\ RoomTypeOK
    /\ purge \in BOOLEAN /\ cleanup \in BOOLEAN
    /\ cache \in SUBSET Cached
    /\ raise \in [Raises -> Request]
    /\ got \in [Actors -> SUBSET Raises]
    /\ order \in [Actors -> SUBSET (Raises \X Raises)]
    /\ groups \in [Actors -> SUBSET Groups]
    /\ changes \in 0 .. MaxChanges
    /\ SendersGiven

EventsOf(entries) == {c.event : c \in entries}

Without(senders) == {c \in cache : c.sender \notin senders}

\* The order of what a was sent, after entries are sent to it as they stand in
\* the cache.
OrderAfter(a, entries) ==
    LET new == EventsOf(entries)
    IN  {e \in order[a] : e[1] \notin new /\ e[2] \notin new}
            \cup ((got[a] \ new) \X new)
            \cup {e \in new \X new :
                     \E c \in entries : c.event = e[2] /\ e[1] \in c.before}

-----------------------------------------------------------------------------
(* Joins and departures. *)

Admit(a) == AdmitMember(a) /\ UNCHANGED eventVars

\* Mutant: the flood leaves out what the joiner was already sent.
FloodNew(a) == {c \in cache : c.sender # a /\ c.event \notin got[a]}

\* Mutant: the flood leaves out global events, as if their sender had none.
FloodTraceable(a) == {c \in cache : c.sender \notin {0, a}}

\* flood_peer(): the cached events, except the actor's own.
Flood(a) == {c \in cache : c.sender # a}

Complete(a) ==
    /\ CompleteMember(a)
    /\ got' = [got EXCEPT ![a] = @ \cup EventsOf(Flood(a))]
    /\ order' = [order EXCEPT ![a] = OrderAfter(a, Flood(a))]
    /\ UNCHANGED <<purge, cleanup, cache, raise, groups, changes>>

\* Mutant: remove_peer() leaves the cache alone.
CacheAfterRemovalKept(a) == cache

\* remove_peer() drops the cached events of a that is removed, in rooms with
\* DeleteCacheOnLeave.
CacheAfterRemoval(a) == IF purge /\ a \in peers THEN Without({a}) ELSE cache

\* The player of a is gone: what it was sent does not matter any more.
Forget(a) ==
    /\ got' = [got EXCEPT ![a] = {}] /\ order' = [order EXCEPT ![a] = {}]
    /\ groups' = [groups EXCEPT ![a] = {}]
    /\ UNCHANGED <<purge, cleanup, raise, changes>>

Revert(a) == RevertMember(a) /\ cache' = CacheAfterRemoval(a) /\ Forget(a)

\* HandleDisconnect() cleans the cache before it awaits OnLeave.
BeginDrop(a) ==
    /\ BeginDropMember(a)
    /\ cache' = IF cleanup THEN Without({a}) ELSE cache
    /\ UNCHANGED <<purge, cleanup, raise, got, order, groups, changes>>

FinishDrop(a) == FinishDropMember(a) /\ cache' = CacheAfterRemoval(a) /\ Forget(a)

Leave(a) ==
    /\ LeaveMember(a)
    /\ cache' = IF cleanup \/ purge THEN Without({a}) ELSE cache
    /\ Forget(a)

-----------------------------------------------------------------------------
(* RaiseEvent. *)

\* Mutant: the client need not have joined.
RaiseEventUnjoined(r, s, ask) ==
    /\ raise[r].pc = "idle"
    /\ raise' = [raise EXCEPT ![r] =
                    [pc |-> "awaiting", sender |-> s, ask |-> ask, late |-> FALSE]]
    /\ UNCHANGED <<roomVars, purge, cleanup, cache, got, order, groups, changes>>

\* Up to the await of OnRaiseEvent.
RaiseEvent(r, s, ask) ==
    /\ raise[r].pc = "idle"
    /\ Connected(s)
    /\ raise' = [raise EXCEPT ![r] =
                    [pc |-> "awaiting", sender |-> s, ask |-> ask, late |-> FALSE]]
    /\ UNCHANGED <<roomVars, purge, cleanup, cache, got, order, groups, changes>>

\* The plugin cancelled or failed the request.
FailRaiseEvent(r) ==
    /\ raise[r].pc = "awaiting"
    /\ raise' = [raise EXCEPT ![r] = [NoRequest EXCEPT !.pc = "done"]]
    /\ UNCHANGED <<roomVars, purge, cleanup, cache, got, order, groups, changes>>

\* What RemoveFromRoomCache removes: code 0 is a wildcard and the actor list,
\* unless it is absent or empty, names the senders.
MatchesFilter(r, c) ==
    /\ raise[r].ask.code = 0 \/ raise[c.event].ask.code = raise[r].ask.code
    /\ raise[r].ask.to = "List" /\ raise[r].ask.list # {} => c.sender \in raise[r].ask.list

Removal(r) == raise[r].ask.op \in {"RemoveFromRoomCache", "RemoveFromCacheForActorsLeft"}

Departed(c) == c.sender \notin peers /\ c.sender # 0

RemoveFromCache(r) ==
    /\ raise[r].pc = "awaiting" /\ Removal(r)
    /\ cache' = IF raise[r].ask.op = "RemoveFromRoomCache"
                THEN {c \in cache : ~MatchesFilter(r, c)}
                ELSE {c \in cache : ~Departed(c)}
    /\ raise' = [raise EXCEPT ![r] = [NoRequest EXCEPT !.pc = "done"]]
    /\ UNCHANGED <<roomVars, purge, cleanup, got, order, groups, changes>>

Cacheable(r) ==
    /\ raise[r].ask.op \in {"AddToRoomCache", "AddToRoomCacheGlobal"}
    /\ raise[r].ask.to \notin {"List", "MasterClient"} /\ raise[r].ask.group = 0

\* The entry an event leaves in the cache.
Entry(r) ==
    [event |-> r, before |-> EventsOf(cache),
     sender |-> IF raise[r].ask.op = "AddToRoomCacheGlobal" THEN 0 ELSE raise[r].sender]

\* broadcast_event(): the members an event reaches.
Reached(r) ==
    {a \in peers :
        /\ raise[r].ask.group = 0 \/ raise[r].ask.group \in groups[a]
        /\ CASE raise[r].ask.to = "List" -> a \in raise[r].ask.list
             [] raise[r].ask.to = "MasterClient" -> a = master
             [] raise[r].ask.to = "Others" -> a # raise[r].sender
             [] OTHER -> TRUE}

\* OnRaiseEvent returned: the event is cached, if it may be, and broadcast.
PublishEvent(r) ==
    /\ raise[r].pc = "awaiting" /\ ~Removal(r)
    /\ cache' = IF Cacheable(r) THEN cache \cup {Entry(r)} ELSE cache
    /\ got' = [a \in Actors |-> IF a \in Reached(r) THEN got[a] \cup {r} ELSE got[a]]
    /\ order' = [a \in Actors |-> IF a \in Reached(r) THEN OrderAfter(a, {Entry(r)})
                                  ELSE order[a]]
    /\ raise' = [raise EXCEPT ![r].pc = "done", ![r].late = raise[r].sender \notin peers]
    /\ UNCHANGED <<roomVars, purge, cleanup, groups, changes>>

-----------------------------------------------------------------------------
(* ChangeInterestGroups: apply_interest_groups().  A list that is absent   *)
(* and a list that is empty are the same to it.                            *)

ChangeInterestGroups(a, add, remove) ==
    /\ changes < MaxChanges /\ changes' = changes + 1
    /\ Connected(a)
    /\ groups' = [groups EXCEPT ![a] =
                    (IF add = {} THEN Groups ELSE add)
                    \cup (IF remove = {} THEN {} ELSE @ \ remove)]
    /\ UNCHANGED <<roomVars, purge, cleanup, cache, raise, got, order>>

Next ==
    \/ \E a \in Actors :
          \/ Admit(a)
          \/ Complete(a)
          \/ Revert(a)
          \/ BeginDrop(a)
          \/ FinishDrop(a)
          \/ Leave(a)
          \/ \E add, remove \in SUBSET Groups : ChangeInterestGroups(a, add, remove)
    \/ \E r \in Raises :
          \/ \E s \in Actors, ask \in Asks : RaiseEvent(r, s, ask)
          \/ FailRaiseEvent(r)
          \/ RemoveFromCache(r)
          \/ PublishEvent(r)

Spec == Init /\ [][Next]_vars

-----------------------------------------------------------------------------
(* Properties. *)

Origin(c) == raise[c.event].sender

\* A player whose join was answered has been sent every event that is in the
\* cache, except its own: whether it was raised before the player came, while
\* the player's join was under way, or after.
CacheDelivered ==
    \A a \in Actors : Joined(a) =>
        \A c \in cache : Origin(c) # a => c.event \in got[a]

\* Cached events take effect in the same order for all players: the order in
\* which a player was last sent them is the order of the cache.
CacheOrder ==
    \A a \in Actors : Joined(a) =>
        \A c, d \in cache :
            (c.event \in d.before /\ Origin(c) # a /\ Origin(d) # a) =>
                <<c.event, d.event>> \in order[a]

\* In a room with DeleteCacheOnLeave, events of an actor that was removed stay
\* in the cache only if their request resumed after the removal.
PurgedUnlessLate ==
    purge => \A c \in cache : c.sender \in peers \cup {0} \/ raise[c.event].late

-----------------------------------------------------------------------------
(* The inductive invariant. *)

\* A cached event comes from a request that has ended, and so do the events
\* before it; the cache names its sender or nobody.
EntriesSettled ==
    \A c \in cache :
        /\ raise[c.event].pc = "done"
        /\ c.sender \in {0, Origin(c)}
        /\ \A e \in c.before : raise[e].pc = "done"

EventsInv ==
    /\ RoomInv
    /\ TypeOK
    /\ EntriesSettled
    /\ CacheDelivered
    /\ CacheOrder
    /\ PurgedUnlessLate
=============================================================================
