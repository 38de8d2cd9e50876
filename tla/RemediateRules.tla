--------------------------- MODULE RemediateRules ---------------------------
(***************************************************************************)
(* The remediation rule table and the pure decisions taken from it         *)
(* (remediator/internal/remediate/rules.go).  Rates and confidences are in *)
(* tenths: 144 stands for a burn rate of 14.4, 7 for a confidence of 0.7.  *)
(* A burn rate is a quotient of non-negative rates, so NaN == -1 stands    *)
(* for the float NaN that a quotient 0/0 yields: every comparison with a   *)
(* threshold is then false, as in Go.                                      *)
(***************************************************************************)
EXTENDS Integers, Sequences

NaN == -1

Rules ==
    << [id |-> "R-D1", alertName |-> "OrdersvcHighErrorRatePage", burn |-> 500,
        dangerous |-> TRUE,  action |-> "rollout_undo", cooldown |-> 1800, scaleTo |-> 0],
       [id |-> "R-B1", alertName |-> "OrdersvcHighErrorRatePage", burn |-> 300,
        dangerous |-> FALSE, action |-> "scale_up",     cooldown |-> 600,  scaleTo |-> 6],
       [id |-> "R-A1", alertName |-> "OrdersvcHighErrorRatePage", burn |-> 144,
        dangerous |-> FALSE, action |-> "fault_reset",  cooldown |-> 300,  scaleTo |-> 0],
       [id |-> "R-C1", alertName |-> "OrdersvcHighLatencyP99Ticket", burn |-> 0,
        dangerous |-> FALSE, action |-> "scale_up",     cooldown |-> 600,  scaleTo |-> 8] >>

RuleIndexes == 1..4
NoRule == 0

Matches(i, alertName, burn5m) ==
    /\ Rules[i].alertName \in {"", alertName}
    /\ burn5m >= Rules[i].burn

(* Match: the first row of the table that matches, nil when none does.     *)
Match(alertName, burn5m) ==
    IF \E i \in RuleIndexes : Matches(i, alertName, burn5m)
    THEN CHOOSE i \in RuleIndexes :
            /\ Matches(i, alertName, burn5m)
            /\ \A j \in RuleIndexes : j < i => ~Matches(j, alertName, burn5m)
    ELSE NoRule

(* The answer of the LLM; NoResult is the nil pointer.                     *)
LLMResults == [inferred : BOOLEAN, rollback : BOOLEAN, confidence : Nat]
NoResult == [inferred |-> FALSE, rollback |-> FALSE, confidence |-> 0]

ConfirmsRollback(llm) == llm.inferred /\ llm.rollback /\ llm.confidence >= 7
=============================================================================
