------------------------ MODULE RoomPropertiesProofs ------------------------
(***************************************************************************)
(* Every player has the current properties and no conditional update is    *)
(* lost, for any number of joins, requests, keys and values.               *)
(***************************************************************************)
EXTENDS RoomProperties, RoomProofs, FiniteSetTheorems

LEMMA TypesInRange ==
    ASSUME RoomTypeOK
    PROVE  /\ 0 \in Targets /\ Actors \subseteq Targets
           /\ peers \subseteq Actors /\ 0 \notin Actors
           /\ Unset \in Properties
<1> QED
    BY RoomAssumption DEF RoomTypeOK, Actors, Targets, Unset, Properties

LEMMA PropInitInv == Init => PropInv
<1> SUFFICES ASSUME Init PROVE PropInv
    OBVIOUS
<1>1. RoomInv
    BY InitInv DEF Init
<1>2. /\ 0 \in Targets /\ Actors \subseteq Targets
      /\ Unset \in Properties
    BY <1>1, TypesInRange DEF RoomInv
<1>3. TypeOK
    <2>1. write \in [Writes -> Write]
        BY <1>2 DEF Init, PropInit, Ended, Write
    <2> QED
        BY <1>1, <1>2, <2>1 DEF Init, PropInit, TypeOK, RoomInv
<1>4. FreshUnset
    BY <1>2 DEF Init, PropInit, FreshUnset
<1>5. AwaitingKeyed
    BY DEF Init, PropInit, AwaitingKeyed, Ended
<1>6. ViewsCurrent
    BY <1>2 DEF Init, RoomInit, PropInit, ViewsCurrent, Joined
<1> QED
    BY <1>1, <1>3, <1>4, <1>5, <1>6 DEF PropInv

\* The node is added: nobody knows anything of it, and it has no properties.
LEMMA PropAdmitInv ==
    ASSUME PropInv, NEW a \in Actors, Admit(a)
    PROVE  PropInv'
<1> USE DEF PropInv, Admit, propVars
<1>1. RoomInv'
    BY AdmitInv
<1>2. TypeOK'
    BY <1>1 DEF TypeOK, RoomInv
<1>3. FreshUnset'
    BY RoomAssumption DEF FreshUnset, AdmitMember, Actors, TypeOK, RoomTypeOK
<1>4. AwaitingKeyed'
    BY DEF AwaitingKeyed
<1>5. ViewsCurrent'
    <2>1. a > last
        BY RoomAssumption DEF AdmitMember, RoomInv, RoomTypeOK, Actors
    <2>2. props[a] = Unset /\ \A m \in Actors : view[m][a] = Unset
        BY <2>1 DEF FreshUnset
    <2>3. \A m \in Actors : Joined(m)' => Joined(m)
        BY DEF AdmitMember, Joined, RoomInv, RoomTypeOK
    <2> QED
        BY <2>2, <2>3 DEF ViewsCurrent, AdmitMember
<1> QED
    BY <1>1, <1>2, <1>3, <1>4, <1>5

\* The join completes.
LEMMA PropCompleteInv ==
    ASSUME PropInv, NEW a \in Actors, NEW p \in Properties, NEW publish \in BOOLEAN,
           Complete(a, p, publish)
    PROVE  PropInv'
<1> DEFINE now == [props EXCEPT ![a] = Inserted(@, p)]
           announced == publish /\ info /\ ~suppress
<1> USE DEF PropInv
<1>1. RoomInv'
    BY CompleteInv DEF Complete
<1>2. /\ 0 \in Targets /\ Actors \subseteq Targets /\ peers \subseteq Actors
      /\ 0 \notin Actors /\ Unset \in Properties
    BY TypesInRange DEF RoomInv
<1>3. /\ props \in [Targets -> Properties]
      /\ view \in [Actors -> [Targets -> Properties]]
      /\ blind \in [Actors -> SUBSET (Targets \X Keys)]
    BY DEF TypeOK
<1>4. Inserted(props[a], p) \in Properties
    BY <1>2, <1>3 DEF Inserted, Properties
<1>5. now \in [Targets -> Properties] /\ \A t \in Targets : t # a => now[t] = props[t]
    BY <1>2, <1>3, <1>4
<1>6. /\ props' = now
      /\ peers' = peers /\ last' = last
      /\ write' = write /\ info' = info
      /\ \A m \in Actors, t \in Targets : view'[m][t] =
            IF m = a
            THEN IF t = 0 \/ (publish /\ t \in peers) THEN now[t] ELSE Unset
            ELSE IF Joined(m) /\ t = a /\ announced THEN now[a] ELSE view[m][t]
      /\ \A m \in Actors : blind'[m] =
            IF m = a THEN IF publish THEN {} ELSE (peers \X Keys)
            ELSE IF Joined(m) /\ ~announced THEN blind[m] \cup ({a} \X Keys)
            ELSE blind[m]
    BY DEF Complete, CompleteMember, Answer
<1> HIDE DEF now
<1>7. TypeOK'
    <2>1. props' \in [Targets -> Properties]
        BY <1>5, <1>6
    <2>2. view' \in [Actors -> [Targets -> Properties]]
        BY <1>2, <1>3, <1>5 DEF Complete, Answer, now
    <2>3. blind' \in [Actors -> SUBSET (Targets \X Keys)]
        BY <1>2, <1>3 DEF Complete
    <2> QED
        BY <1>1, <1>6, <2>1, <2>2, <2>3 DEF TypeOK, RoomInv
<1>8. a \in peers
    BY DEF Complete, CompleteMember, Connected
<1>9. FreshUnset'
    <2> SUFFICES ASSUME NEW b \in Actors, b > last
                 PROVE  props'[b] = Unset /\ \A m \in Actors : view'[m][b] = Unset
        BY <1>6 DEF FreshUnset
    <2>1. b \notin peers /\ b # a /\ b # 0
        BY <1>2, <1>8, RoomAssumption DEF RoomInv, RoomTypeOK, Actors
    <2>2. props[b] = Unset /\ \A m \in Actors : view[m][b] = Unset
        BY DEF FreshUnset
    <2> QED
        BY <1>2, <1>5, <1>6, <2>1, <2>2
<1>10. AwaitingKeyed'
    BY <1>6 DEF AwaitingKeyed
<1>11. ViewsCurrent'
    <2> SUFFICES ASSUME NEW m \in Actors, Joined(m)', NEW t \in peers \cup {0}, NEW k \in Keys,
                        <<t, k>> \notin blind'[m]
                 PROVE  view'[m][t][k] = props'[t][k]
        BY <1>6 DEF ViewsCurrent
    <2>1. t \in Targets
        BY <1>2
    <2>2. CASE m = a
        BY <1>6, <2>1, <2>2
    <2>3. CASE m # a
        <3>1. Joined(m)
            BY <2>3 DEF Complete, CompleteMember, Joined, RoomInv, RoomTypeOK
        <3>2. <<t, k>> \notin blind[m] /\ (t = a => announced)
            BY <1>6, <2>3, <3>1
        <3>3. CASE t = a
            BY <1>6, <2>1, <2>3, <3>1, <3>2, <3>3
        <3>4. CASE t # a
            BY <1>5, <1>6, <2>1, <2>3, <3>1, <3>2, <3>4 DEF ViewsCurrent
        <3> QED
            BY <3>3, <3>4
    <2> QED
        BY <2>2, <2>3
<1> QED
    BY <1>1, <1>7, <1>9, <1>10, <1>11

\* A node is retired: what the others know of the remaining members stays true.
LEMMA PropRetireInv ==
    ASSUME PropInv, NEW a \in Actors, Retire(a), RoomInv', peers' = peers \ {a},
           last' = last, \A m \in Actors : m # a => join'[m] = join[m]
    PROVE  PropInv'
<1> USE DEF PropInv
<1>1. /\ 0 \in Targets /\ Actors \subseteq Targets /\ peers \subseteq Actors
      /\ 0 \notin Actors /\ Unset \in Properties
    BY TypesInRange DEF RoomInv
<1>2. /\ props \in [Targets -> Properties]
      /\ view \in [Actors -> [Targets -> Properties]]
    BY DEF TypeOK
<1>3. TypeOK'
    BY <1>1 DEF Retire, TypeOK, RoomInv
<1>4. FreshUnset'
    BY <1>1, <1>2 DEF FreshUnset, Retire
<1>5. AwaitingKeyed'
    BY DEF AwaitingKeyed, Retire
<1>6. ViewsCurrent'
    <2> SUFFICES ASSUME NEW m \in Actors, Joined(m)', NEW t \in (peers \ {a}) \cup {0},
                        NEW k \in Keys, <<t, k>> \notin blind'[m]
                 PROVE  view'[m][t][k] = props'[t][k]
        BY DEF ViewsCurrent
    <2>1. m # a /\ t # a /\ t \in Targets
        BY <1>1 DEF Joined
    <2>2. Joined(m) /\ <<t, k>> \notin blind[m]
        BY <2>1 DEF Joined, Retire, TypeOK
    <2>3. view'[m] = view[m] /\ props'[t] = props[t]
        BY <1>2, <2>1 DEF Retire
    <2> QED
        BY <2>1, <2>2, <2>3 DEF ViewsCurrent
<1> QED
    BY <1>3, <1>4, <1>5, <1>6

\* Steps that change only the coroutines of requests or of departures.
LEMMA PropAsideInv ==
    ASSUME PropInv, RoomInv', TypeOK', AwaitingKeyed',
           UNCHANGED <<last, peers, join, props, view, blind>>
    PROVE  PropInv'
<1> QED
    BY DEF PropInv, FreshUnset, ViewsCurrent, Joined

\* apply_game_props() and apply_actor_props().
LEMMA PropApplyInv ==
    ASSUME PropInv, NEW w \in Writes, NEW t \in Targets, NEW tell \in BOOLEAN,
           ApplySetProperties(w, t, tell)
    PROVE  PropInv'
<1> DEFINE k == write[w].key
           v == write[w].value
           s == write[w].setter
<1> USE DEF PropInv
<1>1. RoomInv'
    BY StutterInv DEF ApplySetProperties
<1>2. /\ 0 \in Targets /\ Actors \subseteq Targets /\ peers \subseteq Actors /\ 0 \notin Actors
    BY TypesInRange DEF RoomInv
<1>3. /\ props \in [Targets -> Properties]
      /\ view \in [Actors -> [Targets -> Properties]]
      /\ blind \in [Actors -> SUBSET (Targets \X Keys)]
      /\ write \in [Writes -> Write]
    BY DEF TypeOK
<1>4. k \in Keys /\ v \in Values \cup {NoValue}
    BY <1>3 DEF AwaitingKeyed, ApplySetProperties, Write
<1>5. /\ props' = [props EXCEPT ![t][k] = v]
      /\ \A m \in Actors : view'[m] =
            IF Joined(m) /\ (m = s \/ tell)
            THEN [view[m] EXCEPT ![t][k] = v] ELSE view[m]
      /\ \A m \in Actors : blind'[m] =
            IF m = s \/ tell THEN blind[m] \ {<<t, k>>}
            ELSE IF Joined(m) THEN blind[m] \cup {<<t, k>>} ELSE blind[m]
      /\ last' = last /\ peers' = peers /\ join' = join
      /\ t = 0 \/ t \in peers
    BY DEF ApplySetProperties, roomVars, Accepts
<1>6. TypeOK'
    <2>1. props' \in [Targets -> Properties]
        BY <1>3, <1>4, <1>5 DEF Properties
    <2>2. \A m \in Actors : [view[m] EXCEPT ![t][k] = v] \in [Targets -> Properties]
        BY <1>3, <1>4 DEF Properties
    <2>3. view' \in [Actors -> [Targets -> Properties]]
        BY <1>3, <2>2 DEF ApplySetProperties
    <2>4. blind' \in [Actors -> SUBSET (Targets \X Keys)]
        BY <1>3, <1>4 DEF ApplySetProperties
    <2>5. write' \in [Writes -> Write]
        <3> DEFINE applied == [write[w] EXCEPT !.pc = "ok", !.setter = 0, !.target = t]
        <3>1. write[w] \in Write
            BY <1>3
        <3>2. applied \in Write
            BY <1>2, <3>1 DEF Write
        <3>3. write' = [write EXCEPT ![w] = applied]
            BY <1>3 DEF ApplySetProperties
        <3> HIDE DEF applied
        <3> QED
            BY <1>3, <3>2, <3>3
    <2> QED
        BY <1>1, <2>1, <2>3, <2>4, <2>5 DEF ApplySetProperties, TypeOK, RoomInv
<1>7. AwaitingKeyed'
    BY <1>3 DEF ApplySetProperties, AwaitingKeyed, Write
<1> HIDE DEF k, v, s
<1>8. FreshUnset'
    <2> SUFFICES ASSUME NEW b \in Actors, b > last
                 PROVE  props'[b] = Unset /\ \A m \in Actors : view'[m][b] = Unset
        BY <1>5 DEF FreshUnset
    <2>1. b # t /\ b \in Targets
        BY <1>2, <1>5, RoomAssumption DEF RoomInv, RoomTypeOK, Actors
    <2>2. props'[b] = props[b] /\ \A m \in Actors : view'[m][b] = view[m][b]
        BY <1>3, <1>5, <2>1
    <2> QED
        BY <2>2 DEF FreshUnset
<1>9. ViewsCurrent'
    <2> SUFFICES ASSUME NEW m \in Actors, Joined(m), NEW u \in peers \cup {0}, NEW c \in Keys,
                        <<u, c>> \notin blind'[m]
                 PROVE  view'[m][u][c] = props'[u][c]
        BY <1>5 DEF ViewsCurrent, Joined
    <2> DEFINE old == view[m]
               new == [old EXCEPT ![t][k] = v]
    <2>0. u \in Targets
        BY <1>2
    <2>a. old \in [Targets -> [Keys -> Values \cup {NoValue}]]
        BY <1>3 DEF Properties
    <2> HIDE DEF old
    <2>b. new[t][k] = v
        BY <1>4, <2>a
    <2>c. ~(u = t /\ c = k) => new[u][c] = old[u][c]
        BY <1>4, <2>0, <2>a
    <2>d. view'[m] = IF m = s \/ tell THEN new ELSE old
        BY <1>5 DEF old
    <2> HIDE DEF new
    <2>1. CASE u = t /\ c = k
        <3>1. m = s \/ tell
            BY <1>5, <2>1
        <3>2. props'[t][k] = v
            BY <1>3, <1>4, <1>5 DEF Properties
        <3> QED
            BY <2>b, <2>d, <2>1, <3>1, <3>2
    <2>2. CASE ~(u = t /\ c = k)
        <3>1. <<u, c>> \notin blind[m]
            BY <1>5, <2>2
        <3>2. view[m][u][c] = props[u][c]
            BY <3>1 DEF ViewsCurrent
        <3>3. props'[u][c] = props[u][c]
            BY <1>3, <1>4, <1>5, <2>0, <2>2 DEF Properties
        <3>4. view'[m][u][c] = view[m][u][c]
            BY <2>c, <2>d, <2>2 DEF old
        <3> QED
            BY <3>2, <3>3, <3>4
    <2> QED
        BY <2>1, <2>2
<1> QED
    BY <1>1, <1>6, <1>7, <1>8, <1>9

LEMMA PropNextInv == PropInv /\ [Next]_vars => PropInv'
<1> SUFFICES ASSUME PropInv, [Next]_vars PROVE PropInv'
    OBVIOUS
<1>0. RoomInv /\ TypeOK /\ AwaitingKeyed
    BY DEF PropInv
<1>1. ASSUME NEW a \in Actors, Revert(a) PROVE PropInv'
    <2>1. RoomInv'
        BY <1>0, <1>1, RevertInv DEF Revert
    <2>2. /\ Retire(a) /\ peers' = peers \ {a} /\ last' = last
          /\ \A m \in Actors : m # a => join'[m] = join[m]
        BY <1>0, <1>1 DEF Revert, RevertMember, RoomInv, RoomTypeOK
    <2> QED
        BY <2>1, <2>2, PropRetireInv
<1>2. ASSUME NEW a \in Actors, BeginDrop(a) PROVE PropInv'
    <2>1. RoomInv'
        BY <1>0, <1>2, BeginDropInv DEF BeginDrop
    <2>2. TypeOK' /\ AwaitingKeyed'
        BY <1>0, <1>2, <2>1 DEF BeginDrop, propVars, TypeOK, RoomInv, AwaitingKeyed
    <2>3. UNCHANGED <<last, peers, join, props, view, blind>>
        BY <1>2 DEF BeginDrop, BeginDropMember, propVars
    <2> QED
        BY <2>1, <2>2, <2>3, PropAsideInv
<1>3. ASSUME NEW a \in Actors, FinishDrop(a) PROVE PropInv'
    <2>1. RoomInv'
        BY <1>0, <1>3, FinishDropInv DEF FinishDrop
    <2>2. Retire(a) /\ peers' = peers \ {a} /\ last' = last /\ join' = join
        BY <1>3 DEF FinishDrop, FinishDropMember, Depart
    <2> QED
        BY <2>1, <2>2, PropRetireInv
<1>4. ASSUME NEW a \in Actors, Leave(a) PROVE PropInv'
    <2>1. RoomInv'
        BY <1>0, <1>4, LeaveInv DEF Leave
    <2>2. Retire(a) /\ peers' = peers \ {a} /\ last' = last /\ join' = join
        BY <1>4 DEF Leave, LeaveMember, Depart
    <2> QED
        BY <2>1, <2>2, PropRetireInv
<1>5. ASSUME NEW w \in Writes, NEW r \in Write, write' = [write EXCEPT ![w] = r],
             r.pc = "awaiting" => r.key \in Keys,
             UNCHANGED <<roomVars, info, props, view, blind>>
      PROVE  PropInv'
    <2>1. RoomInv'
        BY <1>0, <1>5, StutterInv
    <2>2. TypeOK' /\ AwaitingKeyed'
        BY <1>0, <1>5, <2>1 DEF TypeOK, RoomInv, AwaitingKeyed
    <2>3. UNCHANGED <<last, peers, join, props, view, blind>>
        BY <1>5 DEF roomVars
    <2> QED
        BY <2>1, <2>2, <2>3, PropAsideInv
<1>6. 0 \in Targets /\ Actors \subseteq Targets
    BY <1>0, TypesInRange DEF RoomInv
<1>7. ASSUME NEW w \in Writes, NEW a \in Actors, NEW k \in Keys, NEW v \in Values,
             NEW e \in Values \cup {Unconditional}, SetProperties(w, a, k, v, e)
      PROVE  PropInv'
    <2> DEFINE r == [pc |-> "awaiting", setter |-> a, target |-> 0, key |-> k, value |-> v,
                     expected |-> e]
    <2>1. r \in Write /\ (r.pc = "awaiting" => r.key \in Keys)
        BY <1>6 DEF Write
    <2>2. write' = [write EXCEPT ![w] = r]
        BY <1>7 DEF SetProperties
    <2>3. UNCHANGED <<roomVars, info, props, view, blind>>
        BY <1>7 DEF SetProperties
    <2> HIDE DEF r
    <2> QED
        BY <1>5, <2>1, <2>2, <2>3
<1>8. ASSUME NEW w \in Writes, write' = [write EXCEPT ![w] = Ended("failed")],
             UNCHANGED <<roomVars, info, props, view, blind>>
      PROVE  PropInv'
    <2>1. Ended("failed") \in Write /\ Ended("failed").pc = "failed"
        BY <1>6 DEF Ended, Write
    <2> QED
        BY <1>5, <1>8, <2>1
<1>9. CASE UNCHANGED vars
    <2>1. RoomInv'
        BY <1>0, <1>9, StutterInv DEF vars, roomVars
    <2>2. TypeOK' /\ AwaitingKeyed'
        BY <1>0, <1>9, <2>1 DEF vars, TypeOK, RoomInv, AwaitingKeyed
    <2> QED
        BY <1>9, <2>1, <2>2, PropAsideInv DEF vars
<1>10. ASSUME NEW a \in Actors, NEW p \in Properties, NEW publish \in Told, Complete(a, p, publish)
       PROVE  PropInv'
    <2>1. publish \in BOOLEAN
        BY DEF Told
    <2> QED
        BY <1>10, <2>1, PropCompleteInv
<1>11. ASSUME NEW w \in Writes, NEW t \in Targets, NEW tell \in Told, ApplySetProperties(w, t, tell)
       PROVE  PropInv'
    <2>1. tell \in BOOLEAN
        BY DEF Told
    <2> QED
        BY <1>11, <2>1, PropApplyInv
<1>12. ASSUME NEW w \in Writes, FailSetProperties(w) PROVE PropInv'
    BY <1>8, <1>12 DEF FailSetProperties
<1>13. ASSUME NEW w \in Writes, NEW t \in Targets, RejectSetProperties(w, t) PROVE PropInv'
    BY <1>8, <1>13 DEF RejectSetProperties
<1> QED
    BY <1>1, <1>2, <1>3, <1>4, <1>7, <1>9, <1>10, <1>11, <1>12, <1>13, PropAdmitInv DEF Next

-----------------------------------------------------------------------------
(* Conditional updates. *)

LEMMA CountsInNat ==
    ASSUME FinitelyMany, NEW t, NEW k, NEW v
    PROVE  /\ IsFiniteSet(Replacing(t, k, v)) /\ Cardinality(Replacing(t, k, v)) \in Nat
           /\ IsFiniteSet(Storing(t, k, v)) /\ Cardinality(Storing(t, k, v)) \in Nat
<1> DEFINE answered == {w \in Writes : write[w].pc = "ok"}
<1>1. Replacing(t, k, v) \subseteq answered /\ Storing(t, k, v) \subseteq answered
    BY DEF Replacing, Storing, Accepted
<1>2. IsFiniteSet(answered)
    BY DEF FinitelyMany
<1> HIDE DEF answered
<1>3. IsFiniteSet(Replacing(t, k, v)) /\ IsFiniteSet(Storing(t, k, v))
    BY <1>1, <1>2, FS_Subset
<1> QED
    BY <1>3, FS_CardinalityType

LEMMA UpdateInitInv == Init => UpdateInv
<1> SUFFICES ASSUME Init PROVE UpdateInv
    OBVIOUS
<1>1. PropInv
    BY PropInitInv
<1>2. {w \in Writes : write[w].pc = "ok"} = {}
    BY DEF Init, PropInit, Ended
<1>3. FinitelyMany
    BY <1>2, FS_EmptySet DEF FinitelyMany
<1>4. ASSUME NEW t \in Targets, NEW k \in Keys, NEW v \in Values
      PROVE  /\ Replacing(t, k, v) = {} /\ Storing(t, k, v) = {}
             /\ props[t][k] # v
    BY <1>2, PropertiesAssumption DEF Init, PropInit, Unset, Replacing, Storing, Accepted
<1>5. StoredBacked
    BY <1>4, FS_EmptySet DEF StoredBacked
<1> QED
    BY <1>1, <1>3, <1>5 DEF UpdateInv

\* The requests that have been answered Ok stay as they are.
OkSame ==
    \A w \in Writes : /\ write'[w].pc = "ok" <=> write[w].pc = "ok"
                      /\ write[w].pc = "ok" => write'[w] = write[w]

LEMMA OkSameCounts ==
    ASSUME OkSame, FinitelyMany
    PROVE  /\ FinitelyMany'
           /\ \A t, k, v : /\ Replacing(t, k, v)' = Replacing(t, k, v)
                           /\ Storing(t, k, v)' = Storing(t, k, v)
<1>1. {w \in Writes : write'[w].pc = "ok"} = {w \in Writes : write[w].pc = "ok"}
    BY DEF OkSame
<1>2. FinitelyMany'
    BY <1>1 DEF FinitelyMany
<1>3. \A t, k : Accepted(t, k)' = Accepted(t, k)
    BY DEF Accepted, OkSame
<1>4. \A t, k : \A w \in Accepted(t, k) : write'[w] = write[w]
    BY DEF Accepted, OkSame
<1> QED
    BY <1>2, <1>3, <1>4 DEF Replacing, Storing

\* A step that stores nothing.
LEMMA UpdateQuietInv ==
    ASSUME UpdateInv, PropInv', OkSame,
           \A t \in Targets : props'[t] = props[t] \/ props'[t] = Unset,
           \A a \in Actors : join[a] = "joined" => join'[a] = "joined"
    PROVE  UpdateInv'
<1>1. FinitelyMany /\ StoredBacked
    BY DEF UpdateInv
<1>2. /\ FinitelyMany'
      /\ \A t, k, v : /\ Replacing(t, k, v)' = Replacing(t, k, v)
                      /\ Storing(t, k, v)' = Storing(t, k, v)
    BY <1>1, OkSameCounts
<1>3. ASSUME NEW t \in Targets, NEW k \in Keys, NEW v \in Values
      PROVE  Cardinality(Replacing(t, k, v)) + (IF props'[t][k] = v THEN 1 ELSE 0) <=
                Cardinality(Storing(t, k, v))
                + (IF t \in Actors /\ join'[t] = "joined" THEN 1 ELSE 0)
    <2>1. Cardinality(Replacing(t, k, v)) \in Nat /\ Cardinality(Storing(t, k, v)) \in Nat
        BY <1>1, CountsInNat
    <2>2. Cardinality(Replacing(t, k, v)) + (IF props[t][k] = v THEN 1 ELSE 0) <=
             Cardinality(Storing(t, k, v))
             + (IF t \in Actors /\ join[t] = "joined" THEN 1 ELSE 0)
        BY <1>1 DEF StoredBacked
    <2>3. props'[t][k] = v => props[t][k] = v
        BY PropertiesAssumption DEF Unset
    <2> QED
        BY <2>1, <2>2, <2>3
<1>4. StoredBacked'
    BY <1>2, <1>3 DEF StoredBacked
<1> QED
    BY <1>2, <1>4 DEF UpdateInv

\* A join is answered: it may store one value, once.
LEMMA UpdateCompleteInv ==
    ASSUME UpdateInv, PropInv', NEW a \in Actors, NEW p \in Properties, NEW publish,
           Complete(a, p, publish)
    PROVE  UpdateInv'
<1>1. FinitelyMany /\ StoredBacked /\ PropInv
    BY DEF UpdateInv
<1>2. /\ write' = write /\ join[a] = "joining" /\ join' = [join EXCEPT ![a] = "joined"]
      /\ props' = [props EXCEPT ![a] = Inserted(@, p)]
    BY DEF Complete, CompleteMember
<1>3. /\ FinitelyMany'
      /\ \A t, k, v : /\ Replacing(t, k, v)' = Replacing(t, k, v)
                      /\ Storing(t, k, v)' = Storing(t, k, v)
    BY <1>1, <1>2, OkSameCounts DEF OkSame
<1>4. join \in [Actors -> {"absent", "joining", "joined", "refused"}]
      /\ props \in [Targets -> Properties]
    BY <1>1 DEF PropInv, TypeOK, RoomTypeOK
<1>5. ASSUME NEW t \in Targets, NEW k \in Keys, NEW v \in Values
      PROVE  Cardinality(Replacing(t, k, v)) + (IF props'[t][k] = v THEN 1 ELSE 0) <=
                Cardinality(Storing(t, k, v))
                + (IF t \in Actors /\ join'[t] = "joined" THEN 1 ELSE 0)
    <2>1. Cardinality(Replacing(t, k, v)) \in Nat /\ Cardinality(Storing(t, k, v)) \in Nat
        BY <1>1, CountsInNat
    <2>2. Cardinality(Replacing(t, k, v)) + (IF props[t][k] = v THEN 1 ELSE 0) <=
             Cardinality(Storing(t, k, v))
             + (IF t \in Actors /\ join[t] = "joined" THEN 1 ELSE 0)
        BY <1>1 DEF StoredBacked
    <2>3. CASE t = a
        <3>1. join[t] # "joined" /\ join'[t] = "joined"
            BY <1>2, <1>4, <2>3
        <3>2. Cardinality(Replacing(t, k, v)) <= Cardinality(Storing(t, k, v))
            BY <2>1, <2>2, <3>1
        <3> QED
            BY <2>1, <2>3, <3>1, <3>2
    <2>4. CASE t # a
        <3>1. props'[t] = props[t] /\ (t \in Actors => join'[t] = join[t])
            BY <1>2, <1>4, <2>4
        <3> QED
            BY <2>2, <3>1
    <2> QED
        BY <2>3, <2>4
<1>6. StoredBacked'
    BY <1>3, <1>5 DEF StoredBacked
<1> QED
    BY <1>3, <1>6 DEF UpdateInv

\* A request is applied: what it replaces was stored, and now it is not.
LEMMA UpdateApplyInv ==
    ASSUME UpdateInv, PropInv', NEW w \in Writes, NEW t \in Targets, NEW tell,
           ApplySetProperties(w, t, tell)
    PROVE  UpdateInv'
<1> DEFINE k == write[w].key
           x == write[w].value
           e == write[w].expected
           n == write'[w]
<1>1. FinitelyMany /\ StoredBacked /\ PropInv
    BY DEF UpdateInv
<1>2. /\ props \in [Targets -> Properties] /\ write \in [Writes -> Write]
      /\ write[w].pc = "awaiting" /\ k \in Keys /\ join' = join
      /\ e = Unconditional \/ props[t][k] = e
      /\ props' = [props EXCEPT ![t][k] = x]
      /\ write' = [write EXCEPT ![w].pc = "ok", ![w].setter = 0, ![w].target = t]
    BY <1>1 DEF PropInv, TypeOK, AwaitingKeyed, ApplySetProperties, Accepts, roomVars
<1>3. /\ n.pc = "ok" /\ n.target = t /\ n.key = k /\ n.value = x /\ n.expected = e
      /\ \A o \in Writes \ {w} : write'[o] = write[o]
    BY <1>2 DEF Write
<1>4. /\ props'[t][k] = x
      /\ \A l \in Keys : l # k => props'[t][l] = props[t][l]
      /\ \A s \in Targets : s # t => props'[s] = props[s]
    BY <1>2 DEF Properties
<1>5. FinitelyMany'
    <2>1. {o \in Writes : write'[o].pc = "ok"} = {o \in Writes : write[o].pc = "ok"} \cup {w}
        BY <1>3
    <2> QED
        BY <1>1, <2>1, FS_AddElement DEF FinitelyMany
<1> HIDE DEF k, x, e, n
<1>6. /\ Accepted(t, k)' = Accepted(t, k) \cup {w}
      /\ \A s, l : ~(s = t /\ l = k) => Accepted(s, l)' = Accepted(s, l)
      /\ \A s, l : w \notin Accepted(s, l)
      /\ \A s, l : Accepted(s, l) \subseteq Writes
    BY <1>2, <1>3 DEF Accepted, n, k
<1>7. \A s, l : \A o \in Accepted(s, l) : write'[o] = write[o]
    BY <1>3, <1>6
<1>8. ASSUME NEW s \in Targets, NEW l \in Keys, NEW v \in Values
      PROVE  Cardinality(Replacing(s, l, v)') + (IF props'[s][l] = v THEN 1 ELSE 0) <=
                Cardinality(Storing(s, l, v)')
                + (IF s \in Actors /\ join[s] = "joined" THEN 1 ELSE 0)
    <2> DEFINE R == Replacing(s, l, v)
               S == Storing(s, l, v)
               j == IF s \in Actors /\ join[s] = "joined" THEN 1 ELSE 0
    <2>1. IsFiniteSet(R) /\ Cardinality(R) \in Nat /\ IsFiniteSet(S) /\ Cardinality(S) \in Nat
        BY <1>1, CountsInNat
    <2>2. Cardinality(R) + (IF props[s][l] = v THEN 1 ELSE 0) <= Cardinality(S) + j
        BY <1>1 DEF StoredBacked
    <2>3. w \notin R /\ w \notin S /\ j \in {0, 1}
        BY <1>6 DEF Replacing, Storing
    <2>4. CASE ~(s = t /\ l = k)
        <3>1. Replacing(s, l, v)' = R /\ Storing(s, l, v)' = S
            BY <1>6, <1>7, <2>4 DEF Replacing, Storing
        <3>2. props'[s][l] = props[s][l]
            BY <1>4, <2>4
        <3> QED
            BY <2>2, <3>1, <3>2
    <2>5. CASE s = t /\ l = k
        <3>1. /\ Replacing(s, l, v)' = IF e = v /\ x # v THEN R \cup {w} ELSE R
              /\ Storing(s, l, v)' = IF x = v THEN S \cup {w} ELSE S
            BY <1>3, <1>6, <1>7, <2>5 DEF Replacing, Storing, n
        <3>2. /\ Cardinality(R \cup {w}) = Cardinality(R) + 1
              /\ Cardinality(S \cup {w}) = Cardinality(S) + 1
            BY <2>1, <2>3, FS_AddElement
        <3>3. props'[s][l] = x
            BY <1>4, <2>5
        <3> HIDE DEF R, S, j
        <3>4. CASE x = v
            <4>1. Cardinality(R) + 1 <= Cardinality(S) + 1 + j
                BY <2>1, <2>2, <2>3
            <4> QED
                BY <3>1, <3>2, <3>3, <3>4, <4>1 DEF j
        <3>5. CASE x # v /\ e = v
            <4>1. props[s][l] = v
                BY <1>2, <2>5, <3>5, PropertiesAssumption
            <4>2. Cardinality(R) + 1 <= Cardinality(S) + j
                BY <2>2, <4>1
            <4>3. Cardinality(R) + 1 + 0 <= Cardinality(S) + j
                BY <2>1, <4>2
            <4> QED
                BY <3>1, <3>2, <3>3, <3>5, <4>3 DEF j
        <3>6. CASE x # v /\ e # v
            <4>1. Cardinality(R) + 0 <= Cardinality(S) + j
                BY <2>1, <2>2, <2>3
            <4> QED
                BY <3>1, <3>3, <3>6, <4>1 DEF j
        <3> QED
            BY <3>4, <3>5, <3>6
    <2> QED
        BY <2>4, <2>5
<1>9. StoredBacked'
    BY <1>2, <1>8 DEF StoredBacked
<1> QED
    BY <1>5, <1>9 DEF UpdateInv

LEMMA UpdateNextInv == UpdateInv /\ [Next]_vars => UpdateInv'
<1> SUFFICES ASSUME UpdateInv, [Next]_vars PROVE UpdateInv'
    OBVIOUS
<1>0. PropInv' /\ PropInv
    BY PropNextInv DEF UpdateInv
<1>1. /\ join \in [Actors -> {"absent", "joining", "joined", "refused"}]
      /\ props \in [Targets -> Properties] /\ write \in [Writes -> Write]
    BY <1>0 DEF PropInv, TypeOK, RoomTypeOK
<1>2. ASSUME NEW a \in Actors, Admit(a) PROVE UpdateInv'
    <2>1. a > last
        BY <1>0, <1>2, RoomAssumption DEF Admit, AdmitMember, PropInv, RoomInv, RoomTypeOK, Actors
    <2>2. join[a] = "absent"
        BY <1>0, <2>1 DEF PropInv, RoomInv, FreshAbsent
    <2>3. join' = [join EXCEPT ![a] = "joining"] /\ UNCHANGED propVars
        BY <1>2 DEF Admit, AdmitMember
    <2> QED
        BY <1>0, <1>1, <2>2, <2>3, UpdateQuietInv DEF OkSame, propVars
<1>3. ASSUME NEW a \in Actors, NEW p \in Properties, NEW publish \in Told, Complete(a, p, publish)
      PROVE  UpdateInv'
    BY <1>0, <1>3, UpdateCompleteInv
<1>4. ASSUME NEW a \in Actors, Retire(a),
             \A b \in Actors : join[b] = "joined" => join'[b] = "joined"
      PROVE  UpdateInv'
    <2>1. \A t \in Targets : props'[t] = props[t] \/ props'[t] = Unset
        BY <1>1, <1>4 DEF Retire
    <2>2. OkSame
        BY <1>4 DEF Retire, OkSame
    <2> QED
        BY <1>0, <1>4, <2>1, <2>2, UpdateQuietInv
<1>5. ASSUME NEW a \in Actors, Revert(a) \/ FinishDrop(a) \/ Leave(a) PROVE UpdateInv'
    <2>1. Retire(a)
        BY <1>5 DEF Revert, FinishDrop, Leave
    <2>2. \A b \in Actors : join[b] = "joined" => join'[b] = "joined"
        BY <1>1, <1>5 DEF Revert, RevertMember, FinishDrop, FinishDropMember, Leave,
            LeaveMember, Depart
    <2> QED
        BY <1>4, <2>1, <2>2
<1>6. ASSUME NEW a \in Actors, BeginDrop(a) PROVE UpdateInv'
    <2>1. join' = join /\ props' = props /\ write' = write
        BY <1>6 DEF BeginDrop, BeginDropMember, propVars
    <2> QED
        BY <1>0, <2>1, UpdateQuietInv DEF OkSame
<1>7. ASSUME NEW w \in Writes, NEW r, write' = [write EXCEPT ![w] = r], r.pc # "ok",
             write[w].pc # "ok", join' = join, props' = props
      PROVE  UpdateInv'
    <2>1. OkSame
        BY <1>1, <1>7 DEF OkSame
    <2> QED
        BY <1>0, <1>7, <2>1, UpdateQuietInv
<1>8. ASSUME NEW w \in Writes, NEW a \in Actors, NEW k \in Keys, NEW v \in Values,
             NEW e \in Values \cup {Unconditional}, SetProperties(w, a, k, v, e)
      PROVE  UpdateInv'
    <2> DEFINE r == [pc |-> "awaiting", setter |-> a, target |-> 0, key |-> k, value |-> v,
                     expected |-> e]
    <2>1. /\ r.pc # "ok" /\ write[w].pc # "ok" /\ write' = [write EXCEPT ![w] = r]
          /\ join' = join /\ props' = props
        BY <1>8 DEF SetProperties, roomVars
    <2> HIDE DEF r
    <2> QED
        BY <1>7, <2>1
<1>9. ASSUME NEW w \in Writes, NEW t \in Targets,
             FailSetProperties(w) \/ RejectSetProperties(w, t)
      PROVE  UpdateInv'
    <2>1. /\ Ended("failed").pc # "ok" /\ write[w].pc # "ok"
          /\ write' = [write EXCEPT ![w] = Ended("failed")]
          /\ join' = join /\ props' = props
        BY <1>9 DEF FailSetProperties, RejectSetProperties, Ended, roomVars
    <2> QED
        BY <1>7, <2>1
<1>10. ASSUME NEW w \in Writes, NEW t \in Targets, NEW tell \in Told,
              ApplySetProperties(w, t, tell)
       PROVE  UpdateInv'
    BY <1>0, <1>10, UpdateApplyInv
<1>11. CASE UNCHANGED vars
    BY <1>0, <1>11, UpdateQuietInv DEF vars, OkSame
<1>12. 0 \in Targets
    BY <1>0, TypesInRange DEF PropInv, RoomInv
<1> QED
    BY <1>2, <1>3, <1>5, <1>6, <1>8, <1>9, <1>10, <1>11, <1>12 DEF Next

-----------------------------------------------------------------------------
(* The theorems. *)

LEMMA PropInvariance == Spec => []PropInv
BY PropInitInv, PropNextInv, PTL DEF Spec

\* Every state of the properties and of the requests under way is well-typed,
\* whatever the plugins make of a request's target.
THEOREM PropertiesWellTyped == Spec => []TypeOK
<1>1. PropInv => TypeOK
    BY DEF PropInv
<1> QED
    BY <1>1, PropInvariance, PTL

\* Responses, Join events and PropertiesUpdate events together keep every
\* player's picture of the properties current, but for what requests and plugins
\* keep from it.
THEOREM PlayersAreCurrent == Spec => []ViewsCurrent
<1>1. PropInv => ViewsCurrent
    BY DEF PropInv
<1> QED
    BY <1>1, PropInvariance, PTL

\* SetProperties compares and stores in one step after its await: of the requests
\* that expect a value and replace it, only as many succeed as it was stored.
THEOREM UpdatesAreNotLost == Spec => []NoLostUpdate
<1>1. ASSUME UpdateInv, NEW t \in Targets, NEW k \in Keys, NEW v \in Values
      PROVE  Cardinality(Replacing(t, k, v)) <=
                Cardinality(Storing(t, k, v)) + (IF t = 0 THEN 0 ELSE 1)
    <2>1. Cardinality(Replacing(t, k, v)) \in Nat /\ Cardinality(Storing(t, k, v)) \in Nat
        BY <1>1, CountsInNat DEF UpdateInv
    <2>2. Cardinality(Replacing(t, k, v)) + (IF props[t][k] = v THEN 1 ELSE 0) <=
             Cardinality(Storing(t, k, v))
             + (IF t \in Actors /\ join[t] = "joined" THEN 1 ELSE 0)
        BY <1>1 DEF UpdateInv, StoredBacked
    <2>3. t = 0 => t \notin Actors
        BY DEF Actors
    <2> QED
        BY <2>1, <2>2, <2>3
<1>2. UpdateInv => NoLostUpdate
    BY <1>1 DEF NoLostUpdate
<1> QED
    BY <1>2, UpdateInitInv, UpdateNextInv, PTL DEF Spec
=============================================================================
