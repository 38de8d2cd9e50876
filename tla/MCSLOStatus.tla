----------------------------- MODULE MCSLOStatus -----------------------------
(* Instances of SLOStatus for TLC.                                         *)
EXTENDS SLOStatus

NoTier == [on |-> FALSE, disable |-> FALSE, burnThreshold |-> Nil, windows |-> {}]
Latency ==
    [name |-> << "latency_p99_500ms", "latency-p99-500ms" >>, objective |-> 999,
     events |-> [on |-> FALSE, error |-> "good", total |-> "good"],
     raw |-> [on |-> TRUE, ratio |-> "good", histogram |-> TRUE],
     alerting |-> "OrdersvcHighLatency", page |-> NoTier,
     ticket |-> [NoTier EXCEPT !.on = TRUE, !.burnThreshold = 0, !.windows = {"5m"}]]

(* Two SLOs that read a histogram_quantile, the same series recorded for   *)
(* each, and one of them without the other.                                *)
Slower == [Latency EXCEPT !.name = << "latency_p99_1s", "latency-p99-1s" >>]
TwoSpecs == {<< Latency, Slower >>, << Latency >>}
=============================================================================
