--------------------------- MODULE MCOrderService ---------------------------
(* OrderService for TLC.                                                   *)
EXTENDS OrderService

(* A rate of 0.95 takes the pod out of the Service; the reset gives it     *)
(* back if it still gets there; a call may leave a parameter out.  With    *)
(* LATENCY_MS, 4 s in the configuration, the latencies lie on both sides   *)
(* of the five seconds of the shutdown context.                            *)
MCAsked ==
    { [fail |-> 95, latency |-> 5],
      [fail |-> 0,  latency |-> 0],
      NoneAsked }

=============================================================================
