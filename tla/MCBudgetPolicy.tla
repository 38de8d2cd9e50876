--------------------------- MODULE MCBudgetPolicy ---------------------------
(* Instances of BudgetPolicy for TLC.                                      *)
EXTENDS BudgetPolicy

(* No number, below, at and between the thresholds, at the upper one, and  *)
(* above.                                                                  *)
AllBurns == {NaN, 4, 5, 10, 11}
=============================================================================
