---------------------------- MODULE BudgetPolicy ----------------------------
(***************************************************************************)
(* The error-budget policy (remediate/budget_policy.go): a goroutine of    *)
(* the remediator that asks Prometheus for burn_rate1d every minute and    *)
(* patches spec.pause of the Argo Rollout.  What it did last is kept in    *)
(* memory (lastFrozen); the Rollout outlives the pod.                      *)
(*                                                                         *)
(* Rates are in tenths.  A check takes at most 25 seconds (10 for the      *)
(* query, 15 for kubectl), less than the period, so checks of one pod      *)
(* never overlap; a check that ends without a patch changes nothing.       *)
(***************************************************************************)
EXTENDS Integers, FiniteSets

CONSTANTS
    Pods,       \* remediator pods, each started once
    Burns,      \* values burn_rate1d takes
    MaxUp,      \* pods up at one time: 2 in a rolling update, 1 otherwise
    MaxLost     \* bound on patches that are applied but reported as failed

NaN == -1
NoData == 0                 \* Query's value for an empty result

ASSUME BurnsAssumption == Burns \subseteq {b \in Int : b >= NaN}
ASSUME BoundsAssumption == MaxUp \in Nat \ {0} /\ MaxLost \in Nat

FreezeThreshold == 10
UnfreezeThreshold == 5

VARIABLES
    burn,       \* the service's burn rate
    paused,     \* spec.pause of the Rollout
    phase,      \* of each pod: not started, between checks, patching, gone
    want,       \* the value a patching pod asks for
    lastFrozen, \* BudgetPolicy.lastFrozen of each pod
    lost,       \* patches applied but reported as failed
    bothFroze   \* history: a pod froze while another remembered a freeze

vars == << burn, paused, phase, want, lastFrozen, lost, bothFroze >>

Phases == {"new", "idle", "patch", "gone"}
Up == {p \in Pods : phase[p] \in {"idle", "patch"}}

Init ==
    /\ burn \in Burns
    /\ paused = FALSE
    /\ phase = [p \in Pods |-> "new"]
    /\ want = [p \in Pods |-> FALSE]
    /\ lastFrozen = [p \in Pods |-> FALSE]
    /\ lost = 0
    /\ bothFroze = FALSE

(* NewBudgetPolicy and Start: a new pod remembers nothing.                 *)
Start(p) ==
    /\ phase[p] = "new" /\ Cardinality(Up) < MaxUp
    /\ phase' = [phase EXCEPT ![p] = "idle"]
    /\ UNCHANGED << burn, paused, want, lastFrozen, lost, bothFroze >>

(* The pod is deleted or dies, in the middle of a patch or not.            *)
Stop(p) ==
    /\ phase[p] \in {"idle", "patch"}
    /\ phase' = [phase EXCEPT ![p] = "gone"]
    /\ UNCHANGED << burn, paused, want, lastFrozen, lost, bothFroze >>

(* Mutant of Due: the branch that thaws is missing.                        *)
DueToFreeze(v, frozen) == v > FreezeThreshold /\ ~frozen

(* Mutant of Due: a release that is frozen is frozen again.                *)
DueAgain(v, frozen) ==
    \/ v > FreezeThreshold
    \/ v # NaN /\ v < UnfreezeThreshold /\ frozen

(* check: whether a patch is due.  NaN is below neither threshold.         *)
Due(v, frozen) ==
    \/ v > FreezeThreshold /\ ~frozen
    \/ v # NaN /\ v < UnfreezeThreshold /\ frozen

Wanted(v) == v > FreezeThreshold

(* check up to PauseRollout, for one answer of Prometheus.                 *)
Answered(p, v) ==
    /\ phase[p] = "idle" /\ Due(v, lastFrozen[p])
    /\ phase' = [phase EXCEPT ![p] = "patch"]
    /\ want' = [want EXCEPT ![p] = Wanted(v)]
    /\ UNCHANGED << burn, paused, lastFrozen, lost, bothFroze >>

(* Prometheus answers with the rate, or, when the series is missing or the *)
(* body holds an error, with no data; a failed query ends the check.       *)
Check(p) == \E v \in {burn, NoData} : Answered(p, v)

(* Mutant of Remembered: set before the patch is known to have worked.     *)
RememberedEarly(p) == [lastFrozen EXCEPT ![p] = want[p]]

(* lastFrozen after a patch that failed.                                   *)
Remembered(p) == lastFrozen

(* PauseRollout returns no error.                                          *)
Patched(p) ==
    /\ phase[p] = "patch"
    /\ paused' = want[p]
    /\ lastFrozen' = [lastFrozen EXCEPT ![p] = want[p]]
    /\ phase' = [phase EXCEPT ![p] = "idle"]
    /\ bothFroze' = (bothFroze \/ (want[p] /\ \E q \in Up \ {p} : lastFrozen[q]))
    /\ UNCHANGED << burn, want, lost >>

(* PauseRollout returns an error: kubectl was refused, or it was killed at *)
(* its timeout after the API server had applied the patch.                 *)
PatchFailed(p) ==
    /\ phase[p] = "patch"
    /\ \/ UNCHANGED << paused, lost >>
       \/ lost < MaxLost /\ lost' = lost + 1 /\ paused' = want[p]
    /\ lastFrozen' = Remembered(p)
    /\ phase' = [phase EXCEPT ![p] = "idle"]
    /\ UNCHANGED << burn, want, bothFroze >>

(* The service burns its budget at another rate.                           *)
BurnMoves ==
    /\ burn' \in Burns \ {burn}
    /\ UNCHANGED << paused, phase, want, lastFrozen, lost, bothFroze >>

Next ==
    \/ \E p \in Pods : Start(p) \/ Stop(p) \/ Check(p) \/ Patched(p) \/ PatchFailed(p)
    \/ BurnMoves

(* The ticker fires for ever: a pod that stays up gets the true rate again *)
(* and again, and kubectl succeeds again and again.                        *)
Fairness ==
    \A p \in Pods : SF_vars(Answered(p, burn)) /\ SF_vars(Patched(p))

Spec == Init /\ [][Next]_vars /\ Fairness

-----------------------------------------------------------------------------
(* Properties.                                                             *)

(* A patch under way asks for the opposite of what the pod remembers: a    *)
(* frozen release is not patched again at every tick of the minute.        *)
AsksForChange == \A p \in Pods : phase[p] = "patch" => want[p] = ~lastFrozen[p]

(* The type invariant, with what a pod in the middle of check knows.       *)
TypeOK ==
    /\ burn \in Burns
    /\ paused \in BOOLEAN
    /\ phase \in [Pods -> Phases]
    /\ want \in [Pods -> BOOLEAN]
    /\ lastFrozen \in [Pods -> BOOLEAN]
    /\ lost \in 0..MaxLost
    /\ bothFroze \in BOOLEAN
    /\ AsksForChange

(* The policy never believes the release frozen while it can go out,       *)
(* through refused patches, restarts and rolling updates, as long as no    *)
(* patch was applied that kubectl reported as failed, and the two pods of  *)
(* a rolling update have not both frozen the release, in which case the    *)
(* old one may undo what the new one relies on (lastFrozen of check).      *)
FreezeRemembered ==
    (\E p \in Up : lastFrozen[p] /\ ~paused) => lost > 0 \/ bothFroze

(* While the budget burns too fast and a pod is up, the release is frozen  *)
(* again and again, whichever pod froze it last, with the same exceptions. *)
FreezeFollowsUnlessLost ==
    <>[](burn > FreezeThreshold /\ Up # {}) => []<>(paused \/ lost > 0 \/ bothFroze)

(* A pod that stays up thaws, once the budget has recovered for good, what *)
(* it remembers having frozen.                                             *)
OwnFreezeThaws ==
    \A p \in Pods :
        <>[](burn # NaN /\ burn < UnfreezeThreshold /\ p \in Up) => <>[](~lastFrozen[p])

-----------------------------------------------------------------------------
(* What the comment at the head of budget_policy.go says and the code does *)
(* not keep.                                                               *)

(* Line 9: burn_rate1d below 0.5 thaws the release.  A freeze that the pod *)
(* does not remember, because another pod made it, is never undone.        *)
ThawFollows ==
    <>[](burn # NaN /\ burn < UnfreezeThreshold /\ Up # {}) => <>[](~paused)
=============================================================================
