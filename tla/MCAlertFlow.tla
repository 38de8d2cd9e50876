----------------------------- MODULE MCAlertFlow -----------------------------
(* Instances of AlertFlow for TLC.                                         *)
EXTENDS AlertFlow, TLC

CONSTANTS p1, p2, g1, g2

Page(path) == [name |-> "OrdersvcHighErrorRatePage", slo |-> "availability-99.9",
               severity |-> "page", chaos |-> FALSE, path |-> path]
Ticket == [name |-> "OrdersvcHighErrorRateTicket", slo |-> "availability-99.9",
           severity |-> "ticket", chaos |-> FALSE, path |-> 1]

(* Two alerts of one group.                                               *)
TwoPages == {Page(1), Page(2)}

(* A page and a ticket that it mutes.                                      *)
PageAndTicket == {Page(1), Ticket}

Symmetry == Permutations(Pods) \cup Permutations(Goroutines)

(* The rate of R-A1, whose cooldown is a group_interval, and that of R-B1, *)
(* whose cooldown is two.                                                  *)
Burn144 == {144}
Burn300 == {300}

Confirmed == [inferred |-> TRUE, rollback |-> TRUE, confidence |-> 7]
TwoVerdicts == {NoResult, Confirmed}
=============================================================================
