------------------------- MODULE BudgetPolicyProofs -------------------------
(***************************************************************************)
(* Proofs about BudgetPolicy, for any number of pods up at a time.         *)
(***************************************************************************)
EXTENDS BudgetPolicy, TLAPS

LEMMA TypeInit == Init => TypeOK
<1> SUFFICES ASSUME Init PROVE TypeOK
    OBVIOUS
<1>1. 0 \in 0..MaxLost
    BY BoundsAssumption
<1>2. phase \in [Pods -> Phases]
    BY DEF Init, Phases
<1>3. want \in [Pods -> BOOLEAN] /\ lastFrozen \in [Pods -> BOOLEAN]
    BY DEF Init
<1>4. QED
    BY <1>1, <1>2, <1>3 DEF Init, TypeOK, AsksForChange

(* The type invariant is kept by every step.                               *)
LEMMA TypeStep == TypeOK /\ [Next]_vars => TypeOK'
<1> SUFFICES ASSUME TypeOK, [Next]_vars PROVE TypeOK'
    OBVIOUS
<1> USE DEF TypeOK, Phases, AsksForChange
<1>1. ASSUME NEW p \in Pods, Start(p) PROVE TypeOK'
    BY <1>1 DEF Start
<1>2. ASSUME NEW p \in Pods, Stop(p) PROVE TypeOK'
    BY <1>2 DEF Stop
<1>3. ASSUME NEW p \in Pods, Check(p) PROVE TypeOK'
    <2>1. PICK v \in {burn, NoData} : Answered(p, v)
        BY <1>3 DEF Check
    <2>2. Wanted(v) \in BOOLEAN /\ Wanted(v) = ~lastFrozen[p]
        BY <2>1, BurnsAssumption DEF Answered, Due, Wanted, NaN, NoData, FreezeThreshold,
                                    UnfreezeThreshold
    <2>3. QED
        BY <2>1, <2>2 DEF Answered
<1>4. ASSUME NEW p \in Pods, Patched(p) PROVE TypeOK'
    BY <1>4 DEF Patched
<1>5. ASSUME NEW p \in Pods, PatchFailed(p) PROVE TypeOK'
    <2>1. paused' \in BOOLEAN /\ lastFrozen' \in [Pods -> BOOLEAN]
        BY <1>5 DEF PatchFailed, Remembered
    <2>2. lost' \in 0..MaxLost
        BY <1>5, BoundsAssumption DEF PatchFailed
    <2>3. QED
        BY <1>5, <2>1, <2>2 DEF PatchFailed, Remembered
<1>6. CASE BurnMoves
    BY <1>6 DEF BurnMoves
<1>7. CASE UNCHANGED vars
    BY <1>7 DEF vars
<1>8. QED
    BY <1>1, <1>2, <1>3, <1>4, <1>5, <1>6, <1>7 DEF Next

(* Type correctness, whatever number of pods is up.                        *)
THEOREM TypeCorrect == Spec => []TypeOK
<1>1. Init => TypeOK
    BY TypeInit
<1>2. QED
    BY <1>1, TypeStep, PTL DEF Spec

-----------------------------------------------------------------------------
(* FreezeRemembered.  By itself it is not inductive: the memory of a pod   *)
(* that thaws must be known, and whether another relies on the freeze.     *)

(* NewBudgetPolicy leaves lastFrozen at its zero value.                    *)
NewForgets == \A p \in Pods : phase[p] = "new" => ~lastFrozen[p]

(* A pod thaws only what it remembers having frozen.                       *)
ThawsOwn == \A p \in Pods : phase[p] = "patch" /\ ~want[p] => lastFrozen[p]

(* Two pods that remember a freeze are recorded.                           *)
TwoRecorded ==
    (\E p, q \in Up : p # q /\ lastFrozen[p] /\ lastFrozen[q]) => bothFroze

IInv == TypeOK /\ NewForgets /\ ThawsOwn /\ TwoRecorded /\ FreezeRemembered

(* What a step keeps that leaves alone what pods remember, the Rollout and *)
(* the history, and lets no pod up that remembers anything.                *)
LEMMA MemoryKept ==
    ASSUME IInv, TypeOK', UNCHANGED << paused, lastFrozen, bothFroze >>, lost' = lost,
           \A p \in Up' : lastFrozen[p] => p \in Up,
           NewForgets', ThawsOwn'
    PROVE  IInv'
<1>1. TwoRecorded'
    BY DEF IInv, TwoRecorded
<1>2. FreezeRemembered'
    BY DEF IInv, FreezeRemembered
<1> QED
    BY <1>1, <1>2 DEF IInv

LEMMA StartKeeps == ASSUME IInv, NEW p \in Pods, Start(p) PROVE IInv'
<1>1. TypeOK'
    BY TypeStep DEF IInv, Next
<1>2. \A q \in Pods : q # p => phase'[q] = phase[q]
    BY DEF IInv, TypeOK, Start
<1>3. phase[p] = "new" /\ phase'[p] = "idle" /\ ~lastFrozen[p]
    BY DEF IInv, TypeOK, NewForgets, Start
<1>4. \A q \in Up' : lastFrozen[q] => q \in Up
    BY <1>2, <1>3 DEF Up
<1>5. NewForgets' /\ ThawsOwn'
    BY <1>2, <1>3 DEF IInv, NewForgets, ThawsOwn, Start
<1> QED
    BY <1>1, <1>4, <1>5, MemoryKept DEF Start

LEMMA StopKeeps == ASSUME IInv, NEW p \in Pods, Stop(p) PROVE IInv'
<1>1. TypeOK'
    BY TypeStep DEF IInv, Next
<1>2. phase'[p] = "gone" /\ \A q \in Pods : q # p => phase'[q] = phase[q]
    BY DEF IInv, TypeOK, Stop
<1>3. Up' \subseteq Up
    BY <1>2 DEF Up
<1>4. NewForgets' /\ ThawsOwn'
    BY <1>2 DEF IInv, NewForgets, ThawsOwn, Stop
<1> QED
    BY <1>1, <1>3, <1>4, MemoryKept DEF Stop

(* A check that wants to thaw has been told that the pod froze.            *)
LEMMA CheckKeeps == ASSUME IInv, NEW p \in Pods, Check(p) PROVE IInv'
<1>1. TypeOK'
    BY TypeStep DEF IInv, Next
<1>2. PICK v \in {burn, NoData} : Answered(p, v)
    BY DEF Check
<1>3. /\ phase[p] = "idle" /\ phase'[p] = "patch" /\ want'[p] = Wanted(v)
      /\ \A q \in Pods : q # p => phase'[q] = phase[q] /\ want'[q] = want[q]
    BY <1>2 DEF IInv, TypeOK, Answered
<1>4. Wanted(v) \/ lastFrozen[p]
    BY <1>2 DEF Answered, Due, Wanted
<1>5. \A q \in Up' : q \in Up
    BY <1>3 DEF Up
<1>6. NewForgets' /\ ThawsOwn'
    BY <1>2, <1>3, <1>4 DEF IInv, NewForgets, ThawsOwn, Answered
<1> QED
    BY <1>1, <1>2, <1>5, <1>6, MemoryKept DEF Answered

(* A pod that freezes joins those that remember; one that thaws leaves the *)
(* release thawed for those that still do, and there are such only where   *)
(* two had frozen.                                                         *)
LEMMA PatchedKeeps == ASSUME IInv, NEW p \in Pods, Patched(p) PROVE IInv'
<1>1. TypeOK'
    BY TypeStep DEF IInv, Next
<1>2. /\ phase[p] = "patch" /\ phase'[p] = "idle"
      /\ \A q \in Pods : q # p => phase'[q] = phase[q] /\ lastFrozen'[q] = lastFrozen[q]
      /\ lastFrozen'[p] = want[p] /\ paused' = want[p]
    BY DEF IInv, TypeOK, Patched
<1>3. Up' = Up /\ p \in Up
    BY <1>2 DEF Up
<1>4. NewForgets' /\ ThawsOwn'
    BY <1>2 DEF IInv, NewForgets, ThawsOwn, Patched
<1>5. TwoRecorded'
    <2> SUFFICES ASSUME NEW q \in Up, NEW r \in Up, q # r, lastFrozen'[q], lastFrozen'[r]
                 PROVE  bothFroze'
        BY <1>3 DEF TwoRecorded
    <2> q \in Pods /\ r \in Pods
        BY DEF Up
    <2>1. CASE q # p /\ r # p
        BY <1>2, <2>1 DEF IInv, TwoRecorded, Patched
    <2>2. CASE q = p \/ r = p
        BY <1>2, <2>2 DEF Patched
    <2> QED
        BY <2>1, <2>2
<1>6. FreezeRemembered'
    <2> SUFFICES ASSUME NEW q \in Up, lastFrozen'[q], ~paused' PROVE bothFroze'
        BY <1>3 DEF FreezeRemembered
    <2>1. q \in Pods /\ q # p /\ lastFrozen[q]
        BY <1>2 DEF Up
    <2>2. lastFrozen[p]
        BY <1>2 DEF IInv, ThawsOwn
    <2> QED
        BY <1>3, <2>1, <2>2 DEF IInv, TwoRecorded, Patched
<1> QED
    BY <1>1, <1>4, <1>5, <1>6 DEF IInv

LEMMA PatchFailedKeeps == ASSUME IInv, NEW p \in Pods, PatchFailed(p) PROVE IInv'
<1>1. TypeOK'
    BY TypeStep DEF IInv, Next
<1>2. /\ phase[p] = "patch" /\ phase'[p] = "idle"
      /\ \A q \in Pods : q # p => phase'[q] = phase[q]
      /\ UNCHANGED << want, lastFrozen, bothFroze >>
    BY DEF IInv, TypeOK, PatchFailed, Remembered
<1>3. Up' = Up
    BY <1>2 DEF Up
<1>4. NewForgets' /\ ThawsOwn' /\ TwoRecorded'
    BY <1>2, <1>3 DEF IInv, NewForgets, ThawsOwn, TwoRecorded
<1>5. CASE UNCHANGED << paused, lost >>
    BY <1>1, <1>2, <1>3, <1>4, <1>5, MemoryKept
<1>6. CASE lost' = lost + 1
    <2>1. lost' > 0
        BY <1>6 DEF IInv, TypeOK
    <2> QED
        BY <1>1, <1>4, <2>1 DEF IInv, FreezeRemembered
<1> QED
    BY <1>5, <1>6 DEF PatchFailed

LEMMA IInvStep == IInv /\ [Next]_vars => IInv'
<1> SUFFICES ASSUME IInv, [Next]_vars PROVE IInv'
    OBVIOUS
<1>1. CASE \E p \in Pods : Start(p) \/ Stop(p) \/ Check(p) \/ Patched(p) \/ PatchFailed(p)
    BY <1>1, StartKeeps, StopKeeps, CheckKeeps, PatchedKeeps, PatchFailedKeeps
<1>2. CASE BurnMoves \/ UNCHANGED vars
    <2>1. UNCHANGED << paused, phase, want, lastFrozen, lost, bothFroze >>
        BY <1>2 DEF BurnMoves, vars
    <2>2. TypeOK' /\ Up' = Up
        BY <2>1, TypeStep DEF IInv, Up
    <2>3. NewForgets' /\ ThawsOwn'
        BY <2>1 DEF IInv, NewForgets, ThawsOwn
    <2> QED
        BY <2>1, <2>2, <2>3, MemoryKept
<1> QED
    BY <1>1, <1>2 DEF Next

(* However many pods are up, however often they replace one another and    *)
(* kubectl is refused, the policy never believes the release frozen while  *)
(* it can go out, unless an applied patch was reported as failed or two    *)
(* pods had both frozen the release: check sets lastFrozen only after      *)
(* PauseRollout has returned without an error, and thaws only what it set. *)
THEOREM FreezeIsRemembered == Spec => []FreezeRemembered
<1>1. Init => IInv
    <2>1. ASSUME Init PROVE TypeOK /\ Up = {} /\ \A p \in Pods : phase[p] = "new"
        BY <2>1, TypeInit DEF Init, Up
    <2> QED
        BY <2>1 DEF Init, IInv, NewForgets, ThawsOwn, TwoRecorded, FreezeRemembered
<1>2. IInv => FreezeRemembered
    BY DEF IInv
<1> QED
    BY <1>1, <1>2, IInvStep, PTL DEF Spec
=============================================================================
