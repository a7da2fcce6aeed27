--------------------------- MODULE RoomProperties ---------------------------
(***************************************************************************)
(* The room's and the actors' custom properties: SetProperties with        *)
(* expected values (handler_gameserver.cpp), apply_game_props() and        *)
(* apply_actor_props() (game.cpp), and what the players are told of them   *)
(* by responses, by Join and PropertiesUpdate events and by the flood      *)
(* after a join.  Rooms without DeleteNullProps; a request sets one key;   *)
(* the built-in property UserId is left out.                               *)
(*                                                                         *)
(* info       not SuppressPlayerInfo: Join events carry properties         *)
(* props[t]   the properties of target t: of the room for t = 0, else of   *)
(*            actor t                                                      *)
(* view[a]    the same as actor a's player was told, from the answer to    *)
(*            its join; its program stores what it set itself when it is   *)
(*            answered Ok                                                  *)
(* blind[a]   auxiliary: the properties that a's player was not told of,   *)
(*            because a request or a plugin asked for it                   *)
(* write[w]   the coroutine of SetProperties request w                     *)
(***************************************************************************)
EXTENDS Room

CONSTANTS
    Keys, NoKey,
    Values, NoValue,   \* NoValue: the key is not set
    Unconditional,     \* no expected value
    Writes,            \* SetProperties requests
    Silence            \* whether updates and joins may be kept from the others

ASSUME PropertiesAssumption ==
    /\ NoKey \notin Keys
    /\ NoValue \notin Values /\ Unconditional \notin Values \cup {NoValue}
    /\ Silence \in BOOLEAN

VARIABLES info, props, view, blind, write

propVars == <<info, props, view, blind, write>>
vars == <<suppress, last, peers, join, drop, master, known, unsettled,
          info, props, view, blind, write>>

Targets == 0 .. MaxActor
Properties == [Keys -> Values \cup {NoValue}]
Unset == [k \in Keys |-> NoValue]
Write == [pc : {"idle", "awaiting", "ok", "failed"}, setter : Targets, target : Targets,
          key : Keys \cup {NoKey}, value : Values \cup {NoValue},
          expected : Values \cup {Unconditional}]
Ended(pc) == [pc |-> pc, setter |-> 0, target |-> 0, key |-> NoKey, value |-> NoValue,
              expected |-> Unconditional]

\* Whether the sender asks for an update to be published.
Told == IF Silence THEN BOOLEAN ELSE {TRUE}

PropInit ==
    /\ info \in BOOLEAN
    /\ props = [t \in Targets |-> Unset]
    /\ view = [a \in Actors |-> [t \in Targets |-> Unset]]
    /\ blind = [a \in Actors |-> {}]
    /\ write = [w \in Writes |-> Ended("idle")]

Init == RoomInit /\ PropInit

TypeOK ==
    /\ RoomTypeOK
    /\ info \in BOOLEAN
    /\ props \in [Targets -> Properties]
    /\ view \in [Actors -> [Targets -> Properties]]
    /\ blind \in [Actors -> SUBSET (Targets \X Keys)]
    /\ write \in [Writes -> Write]

-----------------------------------------------------------------------------
(* Joins and departures. *)

Admit(a) == AdmitMember(a) /\ UNCHANGED propVars

\* insert_actor_props() of the joiner's properties p.
Inserted(old, p) == [k \in Keys |-> IF p[k] = NoValue THEN old[k] ELSE p[k]]

\* Mutant: the joiner's answer is put together before its properties are stored.
AnswerEarly(a, now) == props

\* What the response holds: get_actor_props() and get_game_props() after the
\* joiner's properties were stored.
Answer(a, now) == now

\* OnJoinGame returned.  The joiner's properties are stored, its response tells
\* it everybody's and the Join event tells the others its own; publish is the
\* plugin's broadcast_actor_props.  The flood that follows repeats the room's
\* properties; the actors' come with it as entries of the room's (target 0), which
\* are no properties anybody set and are left out.
Complete(a, p, publish) ==
    LET now == [props EXCEPT ![a] = Inserted(@, p)]
        announced == publish /\ info /\ ~suppress
    IN  /\ CompleteMember(a)
        /\ props' = now
        /\ view' = [m \in Actors |-> [t \in Targets |->
                      IF m = a
                      THEN IF t = 0 \/ (publish /\ t \in peers) THEN Answer(a, now)[t] ELSE Unset
                      ELSE IF Joined(m) /\ t = a /\ announced THEN now[a] ELSE view[m][t]]]
        /\ blind' = [m \in Actors |->
                       IF m = a THEN IF publish THEN {} ELSE (peers \X Keys)
                       ELSE IF Joined(m) /\ ~announced THEN blind[m] \cup ({a} \X Keys)
                       ELSE blind[m]]
        /\ UNCHANGED <<info, write>>

\* The node of a is retired, with its properties, and its player is gone.
Retire(a) ==
    /\ props' = [props EXCEPT ![a] = Unset]
    /\ view' = [view EXCEPT ![a] = [t \in Targets |-> Unset]]
    /\ blind' = [blind EXCEPT ![a] = {}]
    /\ UNCHANGED <<info, write>>

Revert(a) == RevertMember(a) /\ Retire(a)
BeginDrop(a) == BeginDropMember(a) /\ UNCHANGED propVars
FinishDrop(a) == FinishDropMember(a) /\ Retire(a)
Leave(a) == LeaveMember(a) /\ Retire(a)

-----------------------------------------------------------------------------
(* SetProperties. *)

\* Mutant: the new and the expected values are taken for each other.
SetPropertiesSwapped(w, s, k, v, e) ==
    /\ write[w].pc = "idle"
    /\ Connected(s)
    /\ write' = [write EXCEPT ![w] = [pc |-> "awaiting", setter |-> s, target |-> 0,
                                      key |-> k, value |-> e, expected |-> v]]
    /\ UNCHANGED <<roomVars, info, props, view, blind>>

\* Up to the await of BeforeSetProperties: any member may send it, also while
\* its join is not answered yet.
SetProperties(w, s, k, v, e) ==
    /\ write[w].pc = "idle"
    /\ Connected(s)
    /\ write' = [write EXCEPT ![w] = [pc |-> "awaiting", setter |-> s, target |-> 0,
                                      key |-> k, value |-> v, expected |-> e]]
    /\ UNCHANGED <<roomVars, info, props, view, blind>>

\* The plugin failed the request.
FailSetProperties(w) ==
    /\ write[w].pc = "awaiting"
    /\ write' = [write EXCEPT ![w] = Ended("failed")]
    /\ UNCHANGED <<roomVars, info, props, view, blind>>

\* Mutant: a request whose target exists is applied whatever it expects.
AcceptsUnchecked(w, t) == t = 0 \/ t \in peers

\* expect_game_props() and expect_actor_props(), and that the target exists.
Accepts(w, t) ==
    /\ t = 0 \/ t \in peers
    /\ write[w].expected = Unconditional \/ props[t][write[w].key] = write[w].expected

\* apply_game_props() or apply_actor_props(), the response and the event; the
\* plugin may have changed the target t and whether others are told.  The other
\* members have the new value from the event, the setter from its answer.
ApplySetProperties(w, t, tell) ==
    LET k == write[w].key
        v == write[w].value
        s == write[w].setter
    IN  /\ write[w].pc = "awaiting"
        /\ Accepts(w, t)
        /\ props' = [props EXCEPT ![t][k] = v]
        /\ view' = [m \in Actors |->
                      IF Joined(m) /\ (m = s \/ tell)
                      THEN [view[m] EXCEPT ![t][k] = v] ELSE view[m]]
        /\ blind' = [m \in Actors |->
                       IF m = s \/ tell THEN blind[m] \ {<<t, k>>}
                       ELSE IF Joined(m) THEN blind[m] \cup {<<t, k>>} ELSE blind[m]]
        /\ write' = [write EXCEPT ![w].pc = "ok", ![w].setter = 0, ![w].target = t]
        /\ UNCHANGED <<roomVars, info>>

\* The expected values are not met, or the target has left.
RejectSetProperties(w, t) ==
    /\ write[w].pc = "awaiting"
    /\ ~Accepts(w, t)
    /\ write' = [write EXCEPT ![w] = Ended("failed")]
    /\ UNCHANGED <<roomVars, info, props, view, blind>>

Next ==
    \/ \E a \in Actors :
          \/ Admit(a)
          \/ \E p \in Properties, publish \in Told : Complete(a, p, publish)
          \/ Revert(a)
          \/ BeginDrop(a)
          \/ FinishDrop(a)
          \/ Leave(a)
    \/ \E w \in Writes :
          \/ \E s \in Actors, k \in Keys, v \in Values, e \in Values \cup {Unconditional} :
                SetProperties(w, s, k, v, e)
          \/ FailSetProperties(w)
          \/ \E t \in Targets :
                \/ \E tell \in Told : ApplySetProperties(w, t, tell)
                \/ RejectSetProperties(w, t)

Spec == Init /\ [][Next]_vars

-----------------------------------------------------------------------------
(* Properties. *)

\* Every player whose join was answered has the current properties of the room
\* and of the members, except those it was deliberately not told of: however
\* requests that await their plugins, joins that await theirs, and departures
\* interleave.
ViewsCurrent ==
    \A m \in Actors : Joined(m) =>
        \A t \in peers \cup {0}, k \in Keys :
            <<t, k>> \notin blind[m] => view[m][t][k] = props[t][k]

Accepted(t, k) ==
    {w \in Writes : write[w].pc = "ok" /\ write[w].target = t /\ write[w].key = k}

\* The requests that stored v, and those that expected v and replaced it.
Storing(t, k, v) == {w \in Accepted(t, k) : write[w].value = v}
Replacing(t, k, v) == {w \in Accepted(t, k) : write[w].expected = v /\ write[w].value # v}

\* No update is lost: requests that expect v and replace it can only succeed as
\* often as v was stored ("Atomically validates expected properties and applies
\* the update"), once by the join for an actor's property.
NoLostUpdate ==
    \A t \in Targets, k \in Keys, v \in Values :
        Cardinality(Replacing(t, k, v)) <=
            Cardinality(Storing(t, k, v)) + (IF t = 0 THEN 0 ELSE 1)

-----------------------------------------------------------------------------
(* The inductive invariant. *)

\* Nothing is known of actors that have not come yet.
FreshUnset ==
    \A a \in Actors : a > last =>
        props[a] = Unset /\ \A m \in Actors : view[m][a] = Unset

\* A request under way names a key.
AwaitingKeyed == \A w \in Writes : write[w].pc = "awaiting" => write[w].key \in Keys

PropInv ==
    /\ RoomInv
    /\ TypeOK
    /\ FreshUnset
    /\ AwaitingKeyed
    /\ ViewsCurrent

\* Only finitely many requests have been answered.
FinitelyMany == IsFiniteSet({w \in Writes : write[w].pc = "ok"})

\* A value that is stored now can be replaced once more, and a join that is not
\* answered yet has stored nothing.
StoredBacked ==
    \A t \in Targets, k \in Keys, v \in Values :
        Cardinality(Replacing(t, k, v)) + (IF props[t][k] = v THEN 1 ELSE 0) <=
            Cardinality(Storing(t, k, v))
            + (IF t \in Actors /\ join[t] = "joined" THEN 1 ELSE 0)

UpdateInv ==
    /\ PropInv
    /\ FinitelyMany
    /\ StoredBacked
=============================================================================
