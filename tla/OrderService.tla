---------------------------- MODULE OrderService ----------------------------
(***************************************************************************)
(* The order service (app): pods that take orders, the fault parameters    *)
(* that /admin/fault changes while orders read them, the metrics the SLO   *)
(* is computed from, the readiness probe and the graceful shutdown.        *)
(* Rates are in percent, latencies in seconds.  Calls and orders come      *)
(* through the Service, which picks any pod among its endpoints.           *)
(*                                                                         *)
(* Timing: a second is long against a step of the code, so time passes     *)
(* only while every request sleeps.                                        *)
(***************************************************************************)
EXTENDS Integers, FiniteSets

CONSTANTS
    Pods, Orders, Calls,    \* a call is one request to /admin/fault
    NoPod,                  \* where a request is before it is sent
    Asked,                  \* what calls ask for: sets of [fail, latency]
    EnvRate, EnvLatency,    \* FAILURE_RATE and LATENCY_MS of the Deployment
    Buggy,                  \* built with buggy=true
    LastArrival, MaxNow,    \* bounds: no request arrives, no time passes after
    MaxStops                \* bound: pods stopped or killed

ASSUME OrderServiceAssumption ==
    /\ Asked \subseteq [fail : -1..100, latency : Nat \union {-1}]
    /\ EnvRate \in 0..100 /\ EnvLatency \in Nat
    /\ Buggy \in BOOLEAN /\ NoPod \notin Pods
    /\ LastArrival \in Nat /\ MaxNow \in Nat /\ MaxStops \in Nat

VARIABLES
    state,                  \* pod: "down", "up" or "draining" (after SIGTERM)
    failRate, latency,      \* the fields of Handler
    failGauge, latencyGauge,\* the gauges that show them
    metric,                 \* the counters of a pod's registry
    serving, misses,        \* endpoints of the Service; failed probes in a row
    deadline,               \* when the shutdown context ends
    order, call, now, stops,
    overlapped              \* history: two calls met in this life of the pod

vars == <<state, failRate, latency, failGauge, latencyGauge, metric, serving,
          misses, deadline, order, call, now, stops, overlapped>>
faults == <<failRate, latency, failGauge, latencyGauge, overlapped>>
pods == <<state, serving, misses, deadline, stops>>

Absent == -1                \* a parameter left out, or refused by setFault
NoneAsked == [fail |-> Absent, latency |-> Absent]
ShutdownSec == 5

Running == {"enter", "sleep", "asleep", "fail?", "draw", "return", "count"}
Ended == {"new", "answered", "refused", "cut", "lost"}
Assigning == {"fail", "failGauge", "latency", "latencyGauge"}

Within(p) == {o \in Orders : order[o].pod = p /\ order[o].pc \in Running}
Setting(p) == {c \in Calls : call[c].pod = p /\ call[c].pc \in Assigning}

EndedOrder(pc) == [pc |-> pc, pod |-> NoPod, code |-> 200, slept |-> 0, wake |-> 0]
Arriving(p) == [pc |-> "enter", pod |-> p, code |-> 200, slept |-> 0, wake |-> 0]
Moved(o, pc, code) == [pc |-> pc, pod |-> order[o].pod, code |-> code,
                       slept |-> order[o].slept, wake |-> 0]
Sleeping(o, sec) == [pc |-> "asleep", pod |-> order[o].pod, code |-> order[o].code,
                     slept |-> sec, wake |-> now + sec]
EndedCall(pc) == [pc |-> pc, pod |-> NoPod, asked |-> NoneAsked]
NoMetrics == [inFlight |-> 0, created |-> 0, failed |-> 0,
              code201 |-> 0, code405 |-> 0, code500 |-> 0]

Init ==
    /\ state = [p \in Pods |-> "down"]
    /\ failRate = [p \in Pods |-> 0] /\ latency = [p \in Pods |-> 0]
    /\ failGauge = [p \in Pods |-> 0] /\ latencyGauge = [p \in Pods |-> 0]
    /\ metric = [p \in Pods |-> NoMetrics]
    /\ serving = {} /\ misses = [p \in Pods |-> 0]
    /\ deadline = [p \in Pods |-> 0]
    /\ order = [o \in Orders |-> EndedOrder("new")]
    /\ call = [c \in Calls |-> EndedCall("new")]
    /\ now = 0 /\ stops = 0
    /\ overlapped = [p \in Pods |-> FALSE]

-----------------------------------------------------------------------------
(* The life of a pod.                                                      *)

(* main: metrics.New and handler.New before the server listens.            *)
Start(p) ==
    /\ state[p] = "down" /\ p \notin serving
    /\ state' = [state EXCEPT ![p] = "up"]
    /\ failRate' = [failRate EXCEPT ![p] = EnvRate]
    /\ latency' = [latency EXCEPT ![p] = EnvLatency]
    /\ failGauge' = [failGauge EXCEPT ![p] = EnvRate]
    /\ latencyGauge' = [latencyGauge EXCEPT ![p] = EnvLatency]
    /\ UNCHANGED <<metric, overlapped, serving, misses, deadline, order, call, now, stops>>

(* Mutant of Ready: only a pod where every order fails is not ready.       *)
ReadyIfAnySucceeds(p) == failRate[p] < 100

Ready(p) == failRate[p] <= 90

(* The kubelet calls /readyz; two refusals take the pod out of the         *)
(* Service, one success puts it back.                                      *)
Probe(p) ==
    /\ state[p] = "up"
    /\ IF Ready(p)
       THEN /\ misses' = [misses EXCEPT ![p] = 0]
            /\ serving' = serving \union {p}
       ELSE /\ misses' = [misses EXCEPT ![p] = IF @ < 2 THEN @ + 1 ELSE @]
            /\ serving' = IF misses'[p] = 2 THEN serving \ {p} ELSE serving
    /\ UNCHANGED <<state, faults, metric, deadline, order, call, now, stops>>

(* SIGTERM: main leaves <-ctx.Done() and calls Shutdown, which closes the  *)
(* listener at once; the endpoint is removed by somebody else, later.      *)
Terminate(p) ==
    /\ state[p] = "up" /\ stops < MaxStops
    /\ state' = [state EXCEPT ![p] = "draining"]
    /\ deadline' = [deadline EXCEPT ![p] = now + ShutdownSec]
    /\ stops' = stops + 1
    /\ UNCHANGED <<faults, metric, serving, misses, order, call, now>>

RemoveEndpoint(p) ==
    /\ state[p] # "up" /\ p \in serving
    /\ serving' = serving \ {p}
    /\ UNCHANGED <<state, faults, metric, misses, deadline, order, call, now, stops>>

(* The process ends: its memory is gone and what was running ends as pc.   *)
EndProcess(p, pc) ==
    /\ state' = [state EXCEPT ![p] = "down"]
    /\ failRate' = [failRate EXCEPT ![p] = 0] /\ latency' = [latency EXCEPT ![p] = 0]
    /\ failGauge' = [failGauge EXCEPT ![p] = 0]
    /\ latencyGauge' = [latencyGauge EXCEPT ![p] = 0]
    /\ metric' = [metric EXCEPT ![p] = NoMetrics]
    /\ misses' = [misses EXCEPT ![p] = 0]
    /\ deadline' = [deadline EXCEPT ![p] = 0]
    /\ overlapped' = [overlapped EXCEPT ![p] = FALSE]
    /\ order' = [o \in Orders |->
                    IF o \in Within(p) THEN Moved(o, pc, order[o].code) ELSE order[o]]
    /\ call' = [c \in Calls |-> IF c \in Setting(p) THEN EndedCall(pc) ELSE call[c]]

(* Mutant of MayExit: Close in place of Shutdown.                          *)
MayExitAtOnce(p) == TRUE

MayExit(p) == Within(p) \union Setting(p) = {} \/ now >= deadline[p]

(* Shutdown returns when nothing is left to do, or when its context ends:  *)
(* main then returns and what is still running is cut off.                 *)
Exit(p) ==
    /\ state[p] = "draining" /\ MayExit(p)
    /\ EndProcess(p, "cut")
    /\ UNCHANGED <<serving, now, stops>>

(* The pod is killed (chaos experiment, out of memory, node lost).         *)
Kill(p) ==
    /\ state[p] # "down" /\ stops < MaxStops
    /\ EndProcess(p, "lost")
    /\ stops' = stops + 1
    /\ UNCHANGED <<serving, now>>

-----------------------------------------------------------------------------
(* /order, through instrument.                                             *)

SendOrder(o, p) ==
    /\ order[o].pc = "new" /\ p \in serving /\ now <= LastArrival
    /\ order' = [order EXCEPT ![o] = IF state[p] = "up" THEN Arriving(p)
                                                       ELSE EndedOrder("refused")]
    /\ UNCHANGED <<pods, faults, metric, call, now>>

(* Neither a wrong method nor a buggy build's 500 reaches the gauges.      *)
TurnAway(o) ==
    /\ order[o].pc = "enter"
    /\ \E code \in {405, 500} :
          /\ code = 500 => Buggy
          /\ order' = [order EXCEPT ![o] = Moved(o, "count", code)]
    /\ UNCHANGED <<pods, faults, metric, call, now>>

(* OrdersInFlight.Inc, and the first look at latencyMs.                    *)
Accept(o) ==
    LET p == order[o].pod IN
    /\ order[o].pc = "enter"
    /\ metric' = [metric EXCEPT ![p].inFlight = @ + 1]
    /\ order' = [order EXCEPT ![o] =
                    Moved(o, IF latency[p] > 0 THEN "sleep" ELSE "fail?", @.code)]
    /\ UNCHANGED <<pods, faults, call, now>>

(* time.Sleep reads latencyMs again: it may have changed.                  *)
Sleep(o) ==
    /\ order[o].pc = "sleep"
    /\ order' = [order EXCEPT ![o] = Sleeping(o, latency[order[o].pod])]
    /\ UNCHANGED <<pods, faults, metric, call, now>>

(* The sleep is over; h.failRate > 0 is evaluated.                         *)
CheckFailRate(o) ==
    /\ \/ order[o].pc = "fail?"
       \/ order[o].pc = "asleep" /\ now >= order[o].wake
    /\ IF failRate[order[o].pod] > 0
       THEN order' = [order EXCEPT ![o] = Moved(o, "draw", @.code)] /\ UNCHANGED metric
       ELSE /\ order' = [order EXCEPT ![o] = Moved(o, "return", 201)]
            /\ metric' = [metric EXCEPT ![order[o].pod].created = @ + 1]
    /\ UNCHANGED <<pods, faults, call, now>>

(* rand.Float64() < h.failRate, on a second reading of failRate.           *)
Draw(o) ==
    LET p == order[o].pod IN
    /\ order[o].pc = "draw"
    /\ \/ /\ failRate[p] > 0
          /\ order' = [order EXCEPT ![o] = Moved(o, "return", 500)]
          /\ metric' = [metric EXCEPT ![p].failed = @ + 1]
       \/ /\ failRate[p] < 100
          /\ order' = [order EXCEPT ![o] = Moved(o, "return", 201)]
          /\ metric' = [metric EXCEPT ![p].created = @ + 1]
    /\ UNCHANGED <<pods, faults, call, now>>

(* Mutant of Return: Dec is not deferred, the failing branch forgets it.   *)
ReturnUndeferred(o) ==
    /\ order[o].pc = "return"
    /\ order' = [order EXCEPT ![o] = Moved(o, "count", @.code)]
    /\ metric' = IF order[o].code = 500 THEN metric
                 ELSE [metric EXCEPT ![order[o].pod].inFlight = @ - 1]
    /\ UNCHANGED <<pods, faults, call, now>>

(* The deferred OrdersInFlight.Dec.                                        *)
Return(o) ==
    /\ order[o].pc = "return"
    /\ order' = [order EXCEPT ![o] = Moved(o, "count", @.code)]
    /\ metric' = [metric EXCEPT ![order[o].pod].inFlight = @ - 1]
    /\ UNCHANGED <<pods, faults, call, now>>

CodeCounted(m, code) ==
    CASE code = 201 -> [m EXCEPT !.code201 = @ + 1]
      [] code = 405 -> [m EXCEPT !.code405 = @ + 1]
      [] code = 500 -> [m EXCEPT !.code500 = @ + 1]

(* instrument: HTTPRequestsTotal with the code the recorder saw.           *)
Count(o) ==
    /\ order[o].pc = "count"
    /\ order' = [order EXCEPT ![o] = EndedOrder("answered")]
    /\ metric' = [metric EXCEPT ![order[o].pod] = CodeCounted(@, order[o].code)]
    /\ UNCHANGED <<pods, faults, call, now>>

-----------------------------------------------------------------------------
(* /admin/fault: setFault, a parameter at a time and its gauge after it.   *)

SendCall(c, p, asked) ==
    /\ call[c].pc = "new" /\ p \in serving /\ now <= LastArrival
    /\ call' = [call EXCEPT ![c] =
                   IF state[p] = "up" THEN [pc |-> "fail", pod |-> p, asked |-> asked]
                                      ELSE EndedCall("refused")]
    /\ overlapped' = [overlapped EXCEPT ![p] =
                         @ \/ (state[p] = "up" /\ Setting(p) # {})]
    /\ UNCHANGED <<pods, failRate, latency, failGauge, latencyGauge, metric, order, now>>

(* Mutant of AfterCall: the gauge of the rate is not set.                  *)
AfterCallUnshown(pc) == IF pc = "fail" THEN "latency" ELSE "latencyGauge"

AfterCall(pc) ==
    CASE pc = "fail" -> "failGauge"
      [] pc = "failGauge" -> "latency"
      [] pc = "latency" -> "latencyGauge"

(* Mutant of Assign: a parameter left out is not skipped.                  *)
AssignAlways(old, c, value) == [old EXCEPT ![call[c].pod] = value]

Assign(old, c, value) ==
    IF value = Absent THEN old ELSE [old EXCEPT ![call[c].pod] = value]

SetFault(c) ==
    LET pc == call[c].pc IN
    /\ pc \in Assigning
    /\ call' = [call EXCEPT ![c] = IF pc = "latencyGauge" THEN EndedCall("answered")
                                  ELSE [pc |-> AfterCall(pc), pod |-> @.pod, asked |-> @.asked]]
    /\ failRate' = IF pc = "fail" THEN Assign(failRate, c, call[c].asked.fail) ELSE failRate
    /\ failGauge' = IF pc = "failGauge" THEN Assign(failGauge, c, call[c].asked.fail) ELSE failGauge
    /\ latency' = IF pc = "latency" THEN Assign(latency, c, call[c].asked.latency) ELSE latency
    /\ latencyGauge' = IF pc = "latencyGauge"
                       THEN Assign(latencyGauge, c, call[c].asked.latency) ELSE latencyGauge
    /\ UNCHANGED <<pods, overlapped, metric, order, now>>

-----------------------------------------------------------------------------
(* Time that no order sleeps through need not be counted.                  *)
Tick ==
    /\ now < MaxNow
    /\ \E o \in Orders : order[o].pc = "asleep"
    /\ \A o \in Orders : order[o].pc \in Running =>
                            order[o].pc = "asleep" /\ order[o].wake > now
    /\ \A p \in Pods : Setting(p) = {} /\ ~(state[p] = "draining" /\ MayExit(p))
    /\ now' = now + 1
    /\ UNCHANGED <<pods, faults, metric, order, call>>

OrderStep(o) ==
    \/ TurnAway(o) \/ Accept(o) \/ Sleep(o) \/ CheckFailRate(o)
    \/ Draw(o) \/ Return(o) \/ Count(o)

RequestStep ==
    \/ \E o \in Orders : OrderStep(o)
    \/ \E c \in Calls : SetFault(c)

Next ==
    \/ Tick
    \/ \E p \in Pods :
          \/ Start(p) \/ Probe(p) \/ Terminate(p) \/ RemoveEndpoint(p)
          \/ Exit(p) \/ Kill(p)
          \/ \E o \in Orders : SendOrder(o, p)
          \/ \E c \in Calls, asked \in Asked : SendCall(c, p, asked)
    \/ RequestStep

(* The kubelet starts pods, probes and delivers; goroutines run.           *)
Fairness ==
    /\ WF_vars(Tick)
    /\ \A p \in Pods : WF_vars(Start(p)) /\ WF_vars(Probe(p))
                       /\ WF_vars(RemoveEndpoint(p)) /\ WF_vars(Exit(p))
    /\ WF_vars(RequestStep)

Spec == Init /\ [][Next]_vars /\ Fairness

-----------------------------------------------------------------------------
TypeOK ==
    /\ state \in [Pods -> {"down", "up", "draining"}]
    /\ failRate \in [Pods -> 0..100] /\ failGauge \in [Pods -> 0..100]
    /\ latency \in [Pods -> Nat] /\ latencyGauge \in [Pods -> Nat]
    /\ metric \in [Pods -> [inFlight : Int, created : Nat, failed : Nat,
                            code201 : Nat, code405 : Nat, code500 : Nat]]
    /\ serving \subseteq Pods /\ misses \in [Pods -> 0..2]
    /\ deadline \in [Pods -> Nat] /\ now \in Nat /\ stops \in Nat
    /\ order \in [Orders -> [pc : Running \union Ended, pod : Pods \union {NoPod},
                             code : {200, 201, 405, 500}, slept : Nat, wake : Nat]]
    /\ call \in [Calls -> [pc : Assigning \union Ended, pod : Pods \union {NoPod},
                           asked : Asked \union {NoneAsked}]]
    /\ overlapped \in [Pods -> BOOLEAN]

(* What orders left behind in the registry agrees, whatever way they took  *)
(* through createOrder: in a pod without orders none is in flight, every   *)
(* created one was counted as 201 by the middleware, and every failed one  *)
(* as 500 (a buggy build answers 500 without counting a failed order).     *)
MetricsAgree ==
    \A p \in Pods :
        state[p] # "down" /\ Within(p) = {} =>
            /\ metric[p].inFlight = 0
            /\ metric[p].created = metric[p].code201
            /\ metric[p].failed <= metric[p].code500
            /\ ~Buggy => metric[p].failed = metric[p].code500

(* Between calls to /admin/fault the gauges show the parameters orders are *)
(* treated with, unless two calls met in this life of the pod: setFault    *)
(* takes no lock, and the gauge may keep the value of the call that lost.  *)
GaugesShowFaults ==
    \A p \in Pods :
        state[p] # "down" /\ Setting(p) = {} /\ ~overlapped[p] =>
            failGauge[p] = failRate[p] /\ latencyGauge[p] = latency[p]

(* A pod that is told to stop finishes every order it took that sleeps     *)
(* less than the five seconds of main's shutdown context.                  *)
ShortOrdersFinish ==
    \A o \in Orders : order[o].pc = "cut" => order[o].slept >= ShutdownSec

(* readyz reads the rate, not the gauge: a pod that stays up with a rate   *)
(* above 0.9 is in the end out of the Service (no reset can reach it       *)
(* there), and one that stays up with a lower rate is in it.               *)
ReadinessFollows ==
    \A p \in Pods :
        /\ <>[](state[p] = "up" /\ failRate[p] > 90) => <>[](p \notin serving)
        /\ <>[](state[p] = "up" /\ failRate[p] <= 90) => <>[](p \in serving)

=============================================================================
