-------------------------- MODULE SLOStatusHistory --------------------------
(***************************************************************************)
(* SLOStatus with a history of what its Reconciles did, against which the  *)
(* status can be judged: a status may be late, and may mix what several    *)
(* Reconciles found, since each patch is computed from a cached copy and   *)
(* carries over the conditions of that copy.                               *)
(***************************************************************************)
EXTENDS SLOStatus

VARIABLE done   \* history: what Reconciles derived and wrote, and what failed

hvars == << vars, done >>

(* What one Reconcile has to tell: the rules it derived, and of each write *)
(* that it failed, or of the first that it was done.                       *)
Facts(w) ==
    LET failed == {part \in Parts : w[part] # Ok}
    IN  {<< "GeneratedRules", RuleNames[w.base.spec] >>}
        \cup {<< Failed(part), w[part] >> : part \in failed}
        \cup (IF "pr" \in failed THEN {}
              ELSE {<< "RulesGenerated", RuleCounts[w.base.spec] >>})

HInit == Init /\ done = {}

HNext ==
    /\ Next
    /\ done' = done \cup (IF work = None /\ work' # None THEN Facts(work') ELSE {})

HSpec == HInit /\ [][HNext]_hvars /\ Fairness

(* What a condition's message quotes: an error, or the counts of rules.    *)
Quoted(condition) == condition.message[2]

(* The status quotes only what happened.  The error in a condition is one  *)
(* that some Reconcile met in writing the object the condition is about,   *)
(* the counts are of rules that one derived and wrote to a PrometheusRule, *)
(* and the rules listed are those that one derived, although patches are   *)
(* computed from copies that may be versions behind, or of a deleted       *)
(* resource, and processes stop between the writes and the patch.          *)
(*                                                                         *)
(* It does not vouch for the words around the quotation: CRDMissing and    *)
(* "PrometheusRule CRD not installed" stand with every error of the first  *)
(* write (slo_controller.go, line 92), a conflict for instance.  Nor does  *)
(* it say that a condition still holds: none is ever set to False.         *)
QuotesWhatHappened ==
    obj # None =>
        /\ obj.rules # None => << "GeneratedRules", obj.rules >> \in done
        /\ \A t \in DOMAIN obj.conds : << t, Quoted(obj.conds[t]) >> \in done
=============================================================================
