----------------------------- MODULE RoomProofs -----------------------------
(***************************************************************************)
(* The invariant of Room, for any number of joins: a player that is wrong  *)
(* about the master believes in somebody who is gone, and only after the   *)
(* role had passed to a member on its way in or out.  RoomPropertiesProofs *)
(* and RoomEventsProofs use the step lemmas too.                           *)
(***************************************************************************)
EXTENDS Room, WellFoundedInduction, TLAPS

\* remove_peer(): the front of a list that is not empty is a member.
LEMMA FrontIn ==
    ASSUME NEW s \in SUBSET Nat, s # {}
    PROVE  FrontOf(s) \in s
<1>1. PICK x \in s : \A y \in s : <<y, x>> \notin OpToRel(<, Nat)
    BY WFMin, NatLessThanWellFounded, Zenon
<1>2. \A y \in s : ~(y < x)
    BY <1>1 DEF OpToRel
<1>3. \A y \in s : x <= y
    BY <1>2
<1> QED
    BY <1>3, Zenon DEF FrontOf

\* The master after a removal is an actor: the old one, or another member when
\* the master was removed.
LEMMA SuccessorIn ==
    ASSUME RoomTypeOK, NEW a \in Actors
    PROVE  /\ MasterWithout(a) \in 1 .. last /\ MasterWithout(a) \in Actors
           /\ MasterWithout(a) # master => a = master /\ MasterWithout(a) \in peers \ {a}
           /\ (a = master /\ a \in peers /\ peers \ {a} # {}) =>
                  MasterWithout(a) \in peers \ {a}
<1>1. peers \ {a} \in SUBSET Nat /\ 1 .. last \in SUBSET Actors
    BY RoomAssumption DEF RoomTypeOK, Actors
<1>2. peers \ {a} # {} => FrontOf(peers \ {a}) \in peers \ {a}
    BY <1>1, FrontIn
<1> QED
    BY <1>1, <1>2 DEF MasterWithout, RoomTypeOK

-----------------------------------------------------------------------------
(* The steps. *)

LEMMA InitInv == RoomInit => RoomInv
<1> SUFFICES ASSUME RoomInit PROVE RoomInv
    OBVIOUS
<1> USE RoomAssumption DEF RoomInit, Actors
<1>1. RoomTypeOK
    <2>1. suppress \in BOOLEAN /\ unsettled \in BOOLEAN
        OBVIOUS
    <2>2. last \in Actors /\ peers \in SUBSET (1 .. last) /\ master \in 1 .. last
        OBVIOUS
    <2>3. join \in [Actors -> {"absent", "joining", "joined", "refused"}]
        OBVIOUS
    <2>4. drop \in [Actors -> [pc : {"idle", "leaving", "done"}, wasMaster : BOOLEAN]]
        BY DEF Idle
    <2>5. known \in [Actors -> 0 .. last]
        OBVIOUS
    <2> QED
        BY <2>1, <2>2, <2>3, <2>4, <2>5 DEF RoomTypeOK
<1>2. FreshAbsent
    BY DEF FreshAbsent
<1>3. MasterSettled
    BY DEF MasterSettled, Heralded, Idle
<1>4. MasterKnown
    BY DEF MasterKnown, Joined
<1> QED
    BY <1>1, <1>2, <1>3, <1>4 DEF RoomInv

\* Whatever settles the role, MasterSettled holds after it.
LEMMA SettleSettles ==
    ASSUME NEW told \in BOOLEAN, Settle(told)
    PROVE  /\ MasterSettled' /\ unsettled' \in BOOLEAN
           /\ unsettled /\ ~told => unsettled'
BY DEF Settle, MasterSettled

LEMMA AdmitInv ==
    ASSUME RoomInv, NEW a \in Actors, AdmitMember(a)
    PROVE  RoomInv'
<1> USE RoomAssumption DEF RoomInv, RoomTypeOK, AdmitMember, Actors
<1>1. RoomTypeOK'
    <2>1. 1 .. last \subseteq 1 .. last' /\ 0 .. last \subseteq 0 .. last'
        OBVIOUS
    <2>2. known' \in [Actors -> 0 .. last'] /\ master' \in 1 .. last'
        BY <2>1
    <2>3. last' \in Actors /\ peers' \in SUBSET (1 .. last')
        OBVIOUS
    <2>4. join' \in [Actors -> {"absent", "joining", "joined", "refused"}]
        OBVIOUS
    <2> QED
        BY <2>2, <2>3, <2>4
<1>2. join[a] = "absent"
    BY DEF FreshAbsent
<1>3. FreshAbsent'
    BY DEF FreshAbsent
<1>4. MasterSettled'
    BY <1>2 DEF MasterSettled, Heralded
<1>5. MasterKnown'
    <2> SUFFICES ASSUME AllowChangeMaster, ~suppress, NEW m \in Actors, Joined(m)'
                 PROVE  known[m] = master \/ (unsettled /\ known[m] \notin peers')
        BY DEF MasterKnown
    <2>1. m # a /\ Joined(m)
        BY DEF Joined
    <2>2. known[m] # a
        <3>1. known[m] \in 0 .. last
            OBVIOUS
        <3> QED
            BY <3>1
    <2> QED
        BY <2>1, <2>2 DEF MasterKnown
<1> QED
    BY <1>1, <1>3, <1>4, <1>5

LEMMA CompleteInv ==
    ASSUME RoomInv, NEW a \in Actors, CompleteMember(a)
    PROVE  RoomInv'
<1> USE RoomAssumption DEF RoomInv, RoomTypeOK, CompleteMember, Actors
<1>1. RoomTypeOK'
    OBVIOUS
<1>2. FreshAbsent'
    BY DEF FreshAbsent
<1>3. MasterSettled'
    BY DEF MasterSettled, Heralded
<1>4. MasterKnown'
    BY DEF MasterKnown, Joined
<1> QED
    BY <1>1, <1>2, <1>3, <1>4

\* What the removal of a leaves of a player's belief that no event corrects.
LEMMA BeliefKept ==
    ASSUME RoomInv, NEW a \in Actors, NEW m \in Actors, AllowChangeMaster, ~suppress,
           Joined(m), MasterWithout(a) # master => unsettled
    PROVE  \/ known[m] = MasterWithout(a)
           \/ unsettled /\ known[m] \notin peers \ {a}
<1>1. known[m] = master \/ (unsettled /\ known[m] \notin peers)
    BY DEF RoomInv, MasterKnown
<1>2. MasterWithout(a) # master => a = master
    BY DEF MasterWithout
<1> QED
    BY <1>1, <1>2

LEMMA RevertInv ==
    ASSUME RoomInv, NEW a \in Actors, RevertMember(a)
    PROVE  RoomInv'
<1> USE RoomAssumption DEF RoomInv, RevertMember
<1>0. /\ MasterWithout(a) \in 1 .. last
      /\ MasterWithout(a) # master => a = master
    BY SuccessorIn
<1>1. /\ MasterSettled' /\ unsettled' \in BOOLEAN
      /\ unsettled => unsettled'
    BY SettleSettles
<1>2. RoomTypeOK'
    BY <1>0, <1>1 DEF RoomTypeOK
<1>3. FreshAbsent'
    BY DEF FreshAbsent, RoomTypeOK, Actors
<1>4. MasterKnown'
    <2>1. MasterWithout(a) # master => unsettled
        BY <1>0 DEF MasterSettled, Heralded
    <2> SUFFICES ASSUME AllowChangeMaster, ~suppress, NEW m \in Actors, Joined(m)'
                 PROVE  known[m] = MasterWithout(a)
                           \/ (unsettled' /\ known[m] \notin peers \ {a})
        BY DEF MasterKnown
    <2>2. Joined(m)
        BY DEF Joined, RoomTypeOK
    <2> QED
        BY <1>1, <2>1, <2>2, BeliefKept
<1> QED
    BY <1>1, <1>2, <1>3, <1>4

LEMMA BeginDropInv ==
    ASSUME RoomInv, NEW a \in Actors, BeginDropMember(a)
    PROVE  RoomInv'
<1> USE RoomAssumption DEF RoomInv, RoomTypeOK, BeginDropMember
<1>1. RoomTypeOK'
    OBVIOUS
<1>2. FreshAbsent'
    BY DEF FreshAbsent, Actors
<1>3. MasterSettled'
    <2>1. master \in Actors /\ a \in Actors
        BY DEF Actors
    <2>2. drop'[master].wasMaster = IF a = master THEN TRUE ELSE drop[master].wasMaster
        BY <2>1
    <2>3. a # master => drop'[master] = drop[master]
        BY <2>1
    <2> QED
        BY <2>2, <2>3 DEF MasterSettled, Heralded
<1>4. MasterKnown'
    BY DEF MasterKnown, Joined
<1> QED
    BY <1>1, <1>2, <1>3, <1>4

\* The heart of the argument: when a master whose departure is heralded goes, the
\* Leave event names its successor, because the snapshot was taken when it was
\* the master already.
LEMMA DepartInv ==
    ASSUME RoomInv, NEW a \in Actors, NEW w \in BOOLEAN, Depart(a, w),
           (~unsettled /\ a = master /\ a \in peers) => w
    PROVE  RoomInv'
<1> DEFINE told == ~suppress /\ NamesMaster(w, a)
<1> USE RoomAssumption DEF RoomInv, Depart
<1>0. /\ MasterWithout(a) \in 1 .. last
      /\ MasterWithout(a) # master => a = master /\ a \in peers
    BY SuccessorIn DEF MasterWithout
<1>1. told \in BOOLEAN /\ (~suppress => told = w)
    BY DEF NamesMaster
<1>2. /\ MasterSettled' /\ unsettled' \in BOOLEAN
      /\ unsettled /\ ~told => unsettled'
    BY <1>1, SettleSettles
<1>3. RoomTypeOK'
    <2> USE DEF RoomTypeOK
    <2>1. master' \in 1 .. last' /\ peers' \in SUBSET (1 .. last')
        BY <1>0
    <2>2. drop' \in [Actors -> [pc : {"idle", "leaving", "done"}, wasMaster : BOOLEAN]]
        OBVIOUS
    <2>3. known' \in [Actors -> 0 .. last']
        <3>1. MasterWithout(a) \in 0 .. last /\ 0 \in 0 .. last
            BY <1>0 DEF Actors
        <3> QED
            BY <3>1
    <2> QED
        BY <1>2, <2>1, <2>2, <2>3
<1>4. FreshAbsent'
    BY DEF FreshAbsent, RoomTypeOK, Actors
<1>5. MasterKnown'
    <2> SUFFICES ASSUME AllowChangeMaster, ~suppress, NEW m \in Actors, Joined(m)'
                 PROVE  known'[m] = master' \/ (unsettled' /\ known'[m] \notin peers')
        BY DEF MasterKnown
    <2>1. Joined(m) /\ m # a
        BY DEF Joined
    <2>2. known'[m] = IF told THEN master' ELSE known[m]
        BY <2>1
    <2> HIDE DEF told
    <2>3. CASE ~told
        <3>1. MasterWithout(a) # master => unsettled
            BY <1>0, <1>1, <2>3
        <3> QED
            BY <1>2, <2>1, <2>2, <2>3, <3>1, BeliefKept
    <2> QED
        BY <2>2, <2>3
<1> QED
    BY <1>2, <1>3, <1>4, <1>5

LEMMA FinishDropInv ==
    ASSUME RoomInv, NEW a \in Actors, FinishDropMember(a)
    PROVE  RoomInv'
<1>1. drop[a].wasMaster \in BOOLEAN
    BY DEF RoomInv, RoomTypeOK
<1>2. (~unsettled /\ a = master) => drop[a].wasMaster
    BY DEF RoomInv, MasterSettled, Heralded, FinishDropMember
<1> QED
    BY <1>1, <1>2, DepartInv DEF FinishDropMember

LEMMA LeaveInv ==
    ASSUME RoomInv, NEW a \in Actors, LeaveMember(a)
    PROVE  RoomInv'
<1>1. (a = master) \in BOOLEAN
    OBVIOUS
<1> QED
    BY <1>1, DepartInv DEF LeaveMember

LEMMA SetMasterInv ==
    ASSUME RoomInv, NEW m \in Actors, SetMaster(m)
    PROVE  RoomInv'
<1> USE RoomAssumption DEF RoomInv, SetMaster
<1>1. MasterSettled' /\ unsettled' \in BOOLEAN
    BY SettleSettles
<1>2. RoomTypeOK'
    <2>1. m \in 0 .. last
        BY DEF RoomTypeOK, Actors
    <2> QED
        BY <1>1, <2>1 DEF RoomTypeOK
<1>3. FreshAbsent'
    BY DEF FreshAbsent
<1>4. MasterKnown'
    BY DEF MasterKnown, Joined, RoomTypeOK
<1> QED
    BY <1>1, <1>2, <1>3, <1>4

LEMMA StutterInv == RoomInv /\ UNCHANGED roomVars => RoomInv'
<1> QED
    BY DEF RoomInv, roomVars, RoomTypeOK, FreshAbsent, MasterSettled, Heralded,
        MasterKnown, Joined

LEMMA NextInv == RoomInv /\ [RoomNext]_roomVars => RoomInv'
<1> SUFFICES ASSUME RoomInv, [RoomNext]_roomVars PROVE RoomInv'
    OBVIOUS
<1>1. CASE UNCHANGED roomVars
    BY <1>1, StutterInv
<1>2. CASE RoomNext
    BY <1>2, AdmitInv, CompleteInv, RevertInv, BeginDropInv, FinishDropInv, LeaveInv,
        SetMasterInv DEF RoomNext
<1> QED
    BY <1>1, <1>2

-----------------------------------------------------------------------------
(* The theorems. *)

\* RoomInv holds in every reachable state.
THEOREM RoomInvariant == RoomSpec => []RoomInv
<1> QED
    BY InitInv, NextInv, PTL DEF RoomSpec

\* Every state of a room is well-typed, its members being among the actor numbers
\* that create_peer() has given.
THEOREM RoomWellTyped == RoomSpec => []RoomTypeOK
<1>1. RoomInv => RoomTypeOK
    BY DEF RoomInv
<1> QED
    BY <1>1, RoomInvariant, PTL

\* HandleDisconnect()'s Leave events keep every player informed of who the master
\* is; a player that missed a succession, because the role had passed to a member
\* on its way in or out, believes in somebody who is gone until the next event.
THEOREM MasterIsKnown == RoomSpec => []MasterKnown
<1>1. RoomInv => MasterKnown
    BY DEF RoomInv
<1> QED
    BY <1>1, RoomInvariant, PTL

\* remove_peer() never leaves a room without a master that had one.
THEOREM MasterIsSucceeded == RoomSpec => MasterSucceeds
<1>1. ASSUME RoomInv, RoomNext, master \in peers, peers' # {}, peers' # peers
      PROVE  master' \in peers'
    <2>1. RoomTypeOK
        BY <1>1 DEF RoomInv
    <2>2. ASSUME NEW a \in Actors, AdmitMember(a)
          PROVE  master' \in peers'
        BY <1>1, <2>2 DEF AdmitMember
    <2>3. ASSUME NEW a \in Actors, master' = MasterWithout(a), peers' = peers \ {a}
          PROVE  master' \in peers'
        <3>1. CASE a = master
            BY <1>1, <2>1, <2>3, <3>1, SuccessorIn
        <3>2. CASE a # master
            BY <1>1, <2>3, <3>2 DEF MasterWithout
        <3> QED
            BY <3>1, <3>2
    <2> QED
        BY <1>1, <2>2, <2>3 DEF RoomNext, CompleteMember, RevertMember, BeginDropMember,
            FinishDropMember, LeaveMember, Depart, SetMaster
<1>2. RoomInv /\ [RoomNext]_roomVars =>
        [(master \in peers /\ peers' # {} /\ peers' # peers) => master' \in peers']_roomVars
    BY <1>1
<1> QED
    BY <1>2, RoomInvariant, PTL DEF RoomSpec, MasterSucceeds
=============================================================================
