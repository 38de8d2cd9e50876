--------------------------- MODULE MCSLOController ---------------------------
(* Instances of SLOController for TLC.                                     *)
EXTENDS SLOController

NoTier == [on |-> FALSE, disable |-> FALSE, burnThreshold |-> Nil, windows |-> {}]
Tier(threshold, windows) ==
    [on |-> TRUE, disable |-> FALSE, burnThreshold |-> threshold, windows |-> windows]
NoEvents == [on |-> FALSE, error |-> "good", total |-> "good"]
NoRaw == [on |-> FALSE, ratio |-> "good", histogram |-> FALSE]

(* deploy/manifests/slo-cr-ordersvc.yaml.                                  *)
Availability ==
    [name |-> << "availability_99_9", "availability-99.9" >>, objective |-> 999,
     events |-> [on |-> TRUE, error |-> "good", total |-> "good"], raw |-> NoRaw,
     alerting |-> "OrdersvcHighErrorRate",
     page |-> Tier(144, {"5m", "1h"}), ticket |-> Tier(60, {"30m", "6h"})]
Latency ==
    [name |-> << "latency_p99_500ms", "latency-p99-500ms" >>, objective |-> 999,
     events |-> NoEvents, raw |-> [on |-> TRUE, ratio |-> "good", histogram |-> FALSE],
     alerting |-> "OrdersvcHighLatency",
     page |-> NoTier, ticket |-> Tier(0, {"5m"})]
Shipped == << Availability, Latency >>

(* Another one, with two SLOs that both read a histogram_quantile, and one *)
(* that the webhook refuses.                                               *)
Plain == <<[Latency EXCEPT !.raw.histogram = TRUE, !.page = Tier(Nil, {}),
                           !.ticket.disable = TRUE],
           [Latency EXCEPT !.raw.histogram = TRUE, !.objective = 990,
                           !.name = << "latency_p99_1s", "latency-p99-1s" >>]>>
Misspelt == <<[Availability EXCEPT !.events.error = "status"]>>

ThreeSpecs == {Shipped, Plain, Misspelt}
OneSpec == {Shipped}

(* What the manifest says and the code does not keep.                      *)

(* slo-cr-ordersvc.yaml, lines 3 and 4: the rules derived from it.  The    *)
(* rule R-C1 of the remediator waits for the last of the alerts, and the   *)
(* SLO report (slo-report.py) reads the last of the series.                *)
ShippedRules ==
    \A s \in CRs : cm = << s, Shipped >> =>
        /\ {"OrdersvcHighErrorRatePage", "OrdersvcHighErrorRateTicket",
            "OrdersvcErrorBudgetExhausting", "OrdersvcHighLatencyP99Ticket"}
           \subseteq {a.name : a \in Rules(buildAlertRules(s, Shipped))}
        /\ {Series(s, kind, w) : kind \in {"request_rate", "error_rate", "error_ratio", "burn_rate"},
                                w \in RecordingWindows}
           \cup {Series(s, "latency_p99_5m", "")}
           \subseteq Recorded(s, Shipped)
=============================================================================
