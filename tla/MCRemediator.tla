---------------------------- MODULE MCRemediator ----------------------------
(* Instances of Remediator for TLC.                                        *)
EXTENDS Remediator, TLC

Page(starts, status) ==
    [group |-> "page", startsAt |-> starts, status |-> status,
     alertName |-> "OrdersvcHighErrorRatePage", chaos |-> FALSE]

(* One page incident that fires and resolves; the end of its recurrence    *)
(* under the same group key, whose start an earlier process was told of; a *)
(* drill.                                                                  *)
PageFiring == {Page(1, "firing")}
PageIncident == PageFiring \cup {Page(1, "resolved")}
PageRecurs == PageIncident \cup {Page(2, "resolved")}

Drill ==
    [group |-> "drill", startsAt |-> 1, status |-> "firing",
     alertName |-> "OrdersvcHighErrorRatePage", chaos |-> TRUE]

PageAndDrill == PageIncident \cup {Drill}

Confirmed == [inferred |-> TRUE, rollback |-> TRUE, confidence |-> 7]

TwoVerdicts == {NoResult, Confirmed}
JustNoResult == {NoResult}
MildBurns == {0, 144}
SomeBurns == {0, 144, 500}

Symmetry == Permutations(Deliveries)
=============================================================================
