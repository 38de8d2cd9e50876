------------------------- MODULE OrderServiceProofs -------------------------
(***************************************************************************)
(* Proofs about OrderService, for any number of pods, orders and calls.    *)
(***************************************************************************)
EXTENDS OrderService, TLAPS, FiniteSetTheorems

PCs == Running \union Ended
OrderRecords == [pc : PCs, pod : Pods \union {NoPod},
                 code : {200, 201, 405, 500}, slept : Nat, wake : Nat]
CallRecords == [pc : Assigning \union Ended, pod : Pods \union {NoPod},
                asked : Asked \union {NoneAsked}]

Metrics == [inFlight : Int, created : Nat, failed : Nat,
            code201 : Nat, code405 : Nat, code500 : Nat]

(* What runs, runs in a pod.                                               *)
InPods ==
    /\ \A o \in Orders : order[o].pc \in Running => order[o].pod \in Pods
    /\ \A c \in Calls : call[c].pc \in Assigning => call[c].pod \in Pods

(* An order that is about to be counted has got a status.                  *)
HasCode(r) ==
    /\ r.pc = "return" => r.code \in {201, 500}
    /\ r.pc = "count" => r.code \in {201, 405, 500}

Coded == \A o \in Orders : HasCode(order[o])

Typed == TypeOK /\ InPods /\ Coded

LEMMA TypedInit == Init => Typed
<1> SUFFICES ASSUME Init PROVE Typed
    OBVIOUS
<1>1. EndedOrder("new") \in OrderRecords
    BY DEF EndedOrder, OrderRecords, PCs, Ended
<1>2. EndedCall("new") \in CallRecords
    BY DEF EndedCall, CallRecords, Ended
<1>3. order \in [Orders -> OrderRecords] /\ call \in [Calls -> CallRecords]
    BY <1>1, <1>2 DEF Init
<1>4. InPods
    BY DEF Init, InPods, EndedOrder, EndedCall, Running, Assigning
<1>5. metric \in [Pods -> Metrics]
    BY DEF Init, NoMetrics, Metrics
<1>6. Coded
    BY DEF Init, Coded, HasCode, EndedOrder
<1>7. QED
    BY <1>3, <1>4, <1>5, <1>6 DEF Init, Typed, TypeOK, OrderRecords, CallRecords, PCs, Metrics

(* A process that ends leaves only records of ended requests behind.       *)
LEMMA EndProcessTyped ==
    ASSUME Typed, NEW p \in Pods, NEW pc \in {"cut", "lost"}, EndProcess(p, pc),
           serving' \subseteq Pods, now' = now, stops' \in Nat
    PROVE  Typed'
<1>1. order' \in [Orders -> OrderRecords]
    <2>1. ASSUME NEW o \in Orders PROVE order'[o] \in OrderRecords
        <3>1. order[o] \in OrderRecords
            BY DEF Typed, TypeOK, OrderRecords, PCs
        <3>2. order'[o] = Moved(o, pc, order[o].code) \/ order'[o] = order[o]
            BY DEF EndProcess
        <3>3. Moved(o, pc, order[o].code) \in OrderRecords
            BY <3>1 DEF Moved, OrderRecords, PCs, Ended
        <3>4. QED
            BY <3>1, <3>2, <3>3
    <2>2. QED
        BY <2>1 DEF EndProcess
<1>2. call' \in [Calls -> CallRecords]
    <2>1. EndedCall(pc) \in CallRecords
        BY DEF EndedCall, CallRecords, Ended
    <2>2. QED
        BY <2>1 DEF EndProcess, Typed, TypeOK, CallRecords
<1>3. InPods'
    <2>1. ASSUME NEW o \in Orders, order'[o].pc \in Running PROVE order'[o].pod \in Pods
        <3>1. order[o] \in OrderRecords
            BY DEF Typed, TypeOK, OrderRecords, PCs
        <3>2. order'[o] = order[o]
            BY <2>1, <3>1 DEF EndProcess, Moved, Running, OrderRecords
        <3>3. QED
            BY <2>1, <3>2 DEF Typed, InPods
    <2>2. ASSUME NEW c \in Calls, call'[c].pc \in Assigning PROVE call'[c].pod \in Pods
        BY <2>2 DEF EndProcess, EndedCall, Assigning, Typed, InPods
    <2>3. QED
        BY <2>1, <2>2 DEF InPods
<1>4. metric' \in [Pods -> Metrics]
    BY DEF EndProcess, NoMetrics, Typed, TypeOK, Metrics
<1>5. Coded'
    BY DEF EndProcess, Moved, Typed, Coded, HasCode
<1>6. QED
    BY <1>1, <1>2, <1>3, <1>4, <1>5
       DEF EndProcess, Typed, TypeOK, OrderRecords, CallRecords, PCs, Metrics

(* A step of the pods that leaves requests and metrics alone.              *)
LEMMA PodStepTyped ==
    ASSUME Typed, UNCHANGED <<metric, order, call>>,
           state' \in [Pods -> {"down", "up", "draining"}],
           failRate' \in [Pods -> 0..100], failGauge' \in [Pods -> 0..100],
           latency' \in [Pods -> Nat], latencyGauge' \in [Pods -> Nat],
           serving' \subseteq Pods, misses' \in [Pods -> 0..2],
           deadline' \in [Pods -> Nat], now' \in Nat, stops' \in Nat,
           overlapped' \in [Pods -> BOOLEAN]
    PROVE  Typed'
BY DEF Typed, TypeOK, InPods, Coded

(* A step of one order: it gets the record r, the others keep theirs.      *)
Becomes(o, r) ==
    /\ order' \in [Orders -> OrderRecords]
    /\ order'[o] = r
    /\ \A q \in Orders : q # o => order'[q] = order[q]

LEMMA OrderStepTyped ==
    ASSUME Typed, NEW o \in Orders, UNCHANGED <<pods, faults, call, now>>,
           NEW r, r.pc \in Running => r.pod \in Pods, HasCode(r),
           Becomes(o, r), metric' \in [Pods -> Metrics]
    PROVE  Typed'
<1>1. InPods'
    BY DEF Typed, InPods, Becomes, faults
<1>2. Coded'
    BY DEF Typed, Coded, HasCode, Becomes
<1>3. QED
    BY <1>1, <1>2 DEF Becomes, Typed, TypeOK, OrderRecords, PCs, pods, faults, Metrics

LEMMA Becoming ==
    ASSUME order \in [Orders -> OrderRecords], NEW o \in Orders, NEW r \in OrderRecords,
           order' = [order EXCEPT ![o] = r]
    PROVE  Becomes(o, r)
BY DEF Becomes

LEMMA OrderTyped ==
    ASSUME Typed, NEW o \in Orders
    PROVE  order[o] \in OrderRecords /\ order \in [Orders -> OrderRecords]
           /\ metric \in [Pods -> Metrics]
BY DEF Typed, TypeOK, OrderRecords, PCs, Metrics

LEMMA MovedTyped ==
    ASSUME Typed, NEW o \in Orders, NEW pc \in PCs, NEW code \in {200, 201, 405, 500},
           order[o].pc \in Running
    PROVE  /\ order[o].pod \in Pods
           /\ Moved(o, pc, code) \in OrderRecords
           /\ Moved(o, pc, code).pod = order[o].pod
<1>1. order[o].pod \in Pods
    BY DEF Typed, InPods
<1>2. QED
    BY <1>1, OrderTyped DEF OrderRecords, Moved

(* What each step of an order does, with its types: where it goes (Becomes)
   and what it counts.                                                     *)
OnlyOrders == UNCHANGED <<pods, faults, call, now>>

LEMMA TurnAwayDoes ==
    ASSUME Typed, NEW o \in Orders, TurnAway(o)
    PROVE  /\ OnlyOrders /\ metric' = metric
           /\ order[o].pc = "enter" /\ order[o].pod \in Pods
           /\ \E code \in {405, 500} :
                 (code = 500 => Buggy) /\ Becomes(o, Moved(o, "count", code))
<1>1. PICK code \in {405, 500} : /\ code = 500 => Buggy
                                 /\ order' = [order EXCEPT ![o] = Moved(o, "count", code)]
    BY DEF TurnAway
<1>2. order[o].pc = "enter" /\ metric' = metric /\ OnlyOrders
    BY DEF TurnAway, OnlyOrders
<1>3. order[o].pc \in Running /\ "count" \in PCs
    BY <1>2 DEF Running, PCs
<1>4. order[o].pod \in Pods /\ Moved(o, "count", code) \in OrderRecords
    BY <1>3, MovedTyped
<1>5. Becomes(o, Moved(o, "count", code))
    BY <1>1, <1>4, OrderTyped, Becoming
<1>6. QED
    BY <1>1, <1>2, <1>4, <1>5

LEMMA AcceptDoes ==
    ASSUME Typed, NEW o \in Orders, Accept(o)
    PROVE  /\ OnlyOrders /\ metric' \in [Pods -> Metrics]
           /\ metric' = [metric EXCEPT ![order[o].pod].inFlight = @ + 1]
           /\ order[o].pc = "enter" /\ order[o].pod \in Pods
           /\ \E pc \in {"sleep", "fail?"} : Becomes(o, Moved(o, pc, order[o].code))
<1> DEFINE p == order[o].pod
           pc == IF latency[p] > 0 THEN "sleep" ELSE "fail?"
<1>1. order[o].pc = "enter" /\ OnlyOrders
    BY DEF Accept, OnlyOrders
<1>2. order[o].pc \in Running /\ pc \in PCs /\ order[o].code \in {200, 201, 405, 500}
    BY <1>1, OrderTyped DEF Running, PCs, OrderRecords
<1>3. metric' = [metric EXCEPT ![p].inFlight = @ + 1]
    BY DEF Accept
<1>4. order' = [order EXCEPT ![o] = Moved(o, pc, order[o].code)]
    BY OrderTyped DEF Accept
<1>5. pc \in {"sleep", "fail?"}
    OBVIOUS
<1> HIDE DEF pc
<1>6. p \in Pods /\ Moved(o, pc, order[o].code) \in OrderRecords
    BY <1>2, MovedTyped
<1>7. Becomes(o, Moved(o, pc, order[o].code))
    BY <1>4, <1>6, OrderTyped, Becoming
<1>8. metric' \in [Pods -> Metrics]
    BY <1>3, <1>6, OrderTyped DEF Metrics
<1>9. QED
    BY <1>1, <1>3, <1>5, <1>6, <1>7, <1>8

LEMMA SleepDoes ==
    ASSUME Typed, NEW o \in Orders, Sleep(o)
    PROVE  /\ OnlyOrders /\ metric' = metric
           /\ order[o].pc = "sleep" /\ order[o].pod \in Pods
           /\ \E sec \in Nat : Becomes(o, Sleeping(o, sec))
<1> DEFINE p == order[o].pod
<1>1. order[o].pc = "sleep" /\ metric' = metric /\ OnlyOrders
    BY DEF Sleep, OnlyOrders
<1>2. p \in Pods
    BY <1>1 DEF Typed, InPods, Running
<1>3. latency[p] \in Nat /\ now + latency[p] \in Nat
    BY <1>2 DEF Typed, TypeOK
<1>4. Sleeping(o, latency[p]) \in OrderRecords
    BY <1>2, <1>3, OrderTyped DEF Sleeping, OrderRecords, PCs, Running
<1>5. order' = [order EXCEPT ![o] = Sleeping(o, latency[p])]
    BY DEF Sleep
<1>6. Becomes(o, Sleeping(o, latency[p]))
    BY <1>4, <1>5, OrderTyped, Becoming
<1>7. QED
    BY <1>1, <1>2, <1>3, <1>6

Succeeds(o) ==
    /\ metric' = [metric EXCEPT ![order[o].pod].created = @ + 1]
    /\ Becomes(o, Moved(o, "return", 201))

Fails(o) ==
    /\ metric' = [metric EXCEPT ![order[o].pod].failed = @ + 1]
    /\ Becomes(o, Moved(o, "return", 500))

LEMMA CheckFailRateDoes ==
    ASSUME Typed, NEW o \in Orders, CheckFailRate(o)
    PROVE  /\ OnlyOrders /\ metric' \in [Pods -> Metrics]
           /\ order[o].pod \in Pods
           /\ order[o].pc \in {"fail?", "asleep"}
           /\ order[o].pc = "asleep" => now >= order[o].wake
           /\ \/ metric' = metric /\ Becomes(o, Moved(o, "draw", order[o].code))
              \/ Succeeds(o)
<1> DEFINE p == order[o].pod
<1>1. /\ OnlyOrders /\ order[o].pc \in {"fail?", "asleep"}
      /\ order[o].pc = "asleep" => now >= order[o].wake
    BY DEF CheckFailRate, OnlyOrders
<1>2. /\ order[o].pc \in Running /\ "draw" \in PCs /\ "return" \in PCs
      /\ order[o].code \in {200, 201, 405, 500}
    BY <1>1, OrderTyped DEF Running, PCs, OrderRecords
<1>3. /\ p \in Pods /\ Moved(o, "draw", order[o].code) \in OrderRecords
      /\ Moved(o, "return", 201) \in OrderRecords
    BY <1>2, MovedTyped
<1>4. CASE failRate[p] > 0
    <2>1. order' = [order EXCEPT ![o] = Moved(o, "draw", order[o].code)] /\ metric' = metric
        BY <1>4, OrderTyped DEF CheckFailRate
    <2>2. Becomes(o, Moved(o, "draw", order[o].code))
        BY <1>3, <2>1, OrderTyped, Becoming
    <2>3. QED
        BY <1>1, <1>3, <2>1, <2>2, OrderTyped
<1>5. CASE ~(failRate[p] > 0)
    <2>1. /\ order' = [order EXCEPT ![o] = Moved(o, "return", 201)]
          /\ metric' = [metric EXCEPT ![p].created = @ + 1]
        BY <1>5 DEF CheckFailRate
    <2>2. Becomes(o, Moved(o, "return", 201))
        BY <1>3, <2>1, OrderTyped, Becoming
    <2>3. metric' \in [Pods -> Metrics]
        BY <1>3, <2>1, OrderTyped DEF Metrics
    <2>4. Succeeds(o)
        BY <2>1, <2>2 DEF Succeeds
    <2>5. QED
        BY <1>1, <1>3, <2>3, <2>4
<1>6. QED
    BY <1>4, <1>5

LEMMA DrawDoes ==
    ASSUME Typed, NEW o \in Orders, Draw(o)
    PROVE  /\ OnlyOrders /\ metric' \in [Pods -> Metrics]
           /\ order[o].pc = "draw" /\ order[o].pod \in Pods
           /\ Fails(o) \/ Succeeds(o)
<1> DEFINE p == order[o].pod
<1>1. OnlyOrders /\ order[o].pc = "draw"
    BY DEF Draw, OnlyOrders
<1>2. order[o].pc \in Running /\ "return" \in PCs
    BY <1>1 DEF Running, PCs
<1>3. /\ p \in Pods /\ Moved(o, "return", 500) \in OrderRecords
      /\ Moved(o, "return", 201) \in OrderRecords
    BY <1>2, MovedTyped
<1>4. \/ /\ metric' = [metric EXCEPT ![p].failed = @ + 1]
         /\ order' = [order EXCEPT ![o] = Moved(o, "return", 500)]
      \/ /\ metric' = [metric EXCEPT ![p].created = @ + 1]
         /\ order' = [order EXCEPT ![o] = Moved(o, "return", 201)]
    BY DEF Draw
<1>5. CASE /\ metric' = [metric EXCEPT ![p].failed = @ + 1]
           /\ order' = [order EXCEPT ![o] = Moved(o, "return", 500)]
    <2>1. Becomes(o, Moved(o, "return", 500))
        BY <1>3, <1>5, OrderTyped, Becoming
    <2>2. metric' \in [Pods -> Metrics]
        BY <1>3, <1>5, OrderTyped DEF Metrics
    <2>3. Fails(o)
        BY <1>5, <2>1 DEF Fails
    <2>4. QED
        BY <1>1, <1>3, <2>2, <2>3
<1>6. CASE /\ metric' = [metric EXCEPT ![p].created = @ + 1]
           /\ order' = [order EXCEPT ![o] = Moved(o, "return", 201)]
    <2>1. Becomes(o, Moved(o, "return", 201))
        BY <1>3, <1>6, OrderTyped, Becoming
    <2>2. metric' \in [Pods -> Metrics]
        BY <1>3, <1>6, OrderTyped DEF Metrics
    <2>3. Succeeds(o)
        BY <1>6, <2>1 DEF Succeeds
    <2>4. QED
        BY <1>1, <1>3, <2>2, <2>3
<1>7. QED
    BY <1>4, <1>5, <1>6

LEMMA ReturnDoes ==
    ASSUME Typed, NEW o \in Orders, Return(o)
    PROVE  /\ OnlyOrders /\ metric' \in [Pods -> Metrics]
           /\ metric' = [metric EXCEPT ![order[o].pod].inFlight = @ - 1]
           /\ order[o].pc = "return" /\ order[o].pod \in Pods
           /\ Becomes(o, Moved(o, "count", order[o].code))
<1> DEFINE p == order[o].pod
<1>1. OnlyOrders /\ order[o].pc = "return"
    BY DEF Return, OnlyOrders
<1>2. order[o].pc \in Running /\ "count" \in PCs /\ order[o].code \in {200, 201, 405, 500}
    BY <1>1, OrderTyped DEF Running, PCs, OrderRecords
<1>3. p \in Pods /\ Moved(o, "count", order[o].code) \in OrderRecords
    BY <1>2, MovedTyped
<1>4. /\ metric' = [metric EXCEPT ![p].inFlight = @ - 1]
      /\ order' = [order EXCEPT ![o] = Moved(o, "count", order[o].code)]
    BY OrderTyped DEF Return
<1>5. Becomes(o, Moved(o, "count", order[o].code))
    BY <1>3, <1>4, OrderTyped, Becoming
<1>6. metric' \in [Pods -> Metrics]
    BY <1>3, <1>4, OrderTyped DEF Metrics
<1>7. QED
    BY <1>1, <1>3, <1>4, <1>5, <1>6

LEMMA CountDoes ==
    ASSUME Typed, NEW o \in Orders, Count(o)
    PROVE  /\ OnlyOrders /\ metric' \in [Pods -> Metrics]
           /\ metric' = [metric EXCEPT ![order[o].pod] = CodeCounted(@, order[o].code)]
           /\ order[o].pc = "count" /\ order[o].pod \in Pods
           /\ Becomes(o, EndedOrder("answered"))
<1> DEFINE p == order[o].pod
<1>1. OnlyOrders /\ order[o].pc = "count"
    BY DEF Count, OnlyOrders
<1>2. p \in Pods
    BY <1>1 DEF Typed, InPods, Running
<1>3. EndedOrder("answered") \in OrderRecords
    BY DEF EndedOrder, OrderRecords, PCs, Ended
<1>4. /\ metric' = [metric EXCEPT ![p] = CodeCounted(@, order[o].code)]
      /\ order' = [order EXCEPT ![o] = EndedOrder("answered")]
    BY DEF Count
<1>5. Becomes(o, EndedOrder("answered"))
    BY <1>3, <1>4, OrderTyped, Becoming
<1>6. CodeCounted(metric[p], order[o].code) \in Metrics
    <2>1. order[o].code \in {201, 405, 500}
        BY <1>1 DEF Typed, Coded, HasCode
    <2>2. QED
        BY <1>2, <2>1, OrderTyped DEF CodeCounted, Metrics
<1>7. metric' \in [Pods -> Metrics]
    BY <1>2, <1>4, <1>6, OrderTyped
<1>8. QED
    BY <1>1, <1>2, <1>4, <1>5, <1>7

LEMMA SendOrderDoes ==
    ASSUME Typed, NEW o \in Orders, NEW p \in Pods, SendOrder(o, p)
    PROVE  /\ OnlyOrders /\ metric' = metric /\ order[o].pc = "new"
           /\ \/ state[p] = "up" /\ Becomes(o, Arriving(p))
              \/ Becomes(o, EndedOrder("refused"))
<1> DEFINE r == IF state[p] = "up" THEN Arriving(p) ELSE EndedOrder("refused")
<1>1. r \in OrderRecords
    BY DEF Arriving, EndedOrder, OrderRecords, PCs, Ended, Running
<1>2. OnlyOrders /\ metric' = metric /\ order[o].pc = "new"
    BY DEF SendOrder, OnlyOrders
<1>3. order' = [order EXCEPT ![o] = r]
    BY DEF SendOrder
<1>4. \/ state[p] = "up" /\ r = Arriving(p)
      \/ r = EndedOrder("refused")
    OBVIOUS
<1> HIDE DEF r
<1>5. Becomes(o, r)
    BY <1>1, <1>3, OrderTyped, Becoming
<1>6. QED
    BY <1>2, <1>4, <1>5

(* Steps of calls to /admin/fault.                                         *)
LEMMA SendCallTyped ==
    ASSUME Typed, NEW c \in Calls, NEW p \in Pods, NEW asked \in Asked,
           SendCall(c, p, asked)
    PROVE  Typed'
<1>1. call' \in [Calls -> CallRecords]
    BY DEF SendCall, EndedCall, CallRecords, Assigning, Ended, Typed, TypeOK
<1>2. InPods'
    BY DEF SendCall, EndedCall, Typed, TypeOK, InPods, Assigning
<1>3. overlapped' \in [Pods -> BOOLEAN]
    BY DEF SendCall, Typed, TypeOK
<1>4. Coded'
    BY DEF SendCall, Typed, Coded, HasCode
<1>5. QED
    BY <1>1, <1>2, <1>3, <1>4 DEF SendCall, pods, Typed, TypeOK, CallRecords

LEMMA SetFaultTyped ==
    ASSUME Typed, NEW c \in Calls, SetFault(c)
    PROVE  Typed'
<1> DEFINE p == call[c].pod
           asked == call[c].asked
<1>1. p \in Pods /\ asked \in Asked \union {NoneAsked}
    BY DEF SetFault, Typed, TypeOK, InPods
<1>2. /\ asked.fail \in -1..100 /\ (asked.fail # Absent => asked.fail \in 0..100)
      /\ asked.latency \in Nat \union {-1} /\ (asked.latency # Absent => asked.latency \in Nat)
    BY <1>1, OrderServiceAssumption DEF NoneAsked, Absent
<1>3. /\ failRate' \in [Pods -> 0..100] /\ failGauge' \in [Pods -> 0..100]
      /\ latency' \in [Pods -> Nat] /\ latencyGauge' \in [Pods -> Nat]
    BY <1>1, <1>2 DEF SetFault, Assign, Typed, TypeOK
<1>4. call' \in [Calls -> CallRecords]
    BY DEF SetFault, AfterCall, EndedCall, CallRecords, Assigning, Ended, Typed, TypeOK
<1>5. InPods'
    BY DEF SetFault, AfterCall, EndedCall, Assigning, Typed, TypeOK, InPods
<1>6. Coded'
    BY DEF SetFault, Typed, Coded, HasCode
<1>7. QED
    BY <1>3, <1>4, <1>5, <1>6 DEF SetFault, pods, Typed, TypeOK, CallRecords

LEMMA TypedStep == Typed /\ [Next]_vars => Typed'
<1> SUFFICES ASSUME Typed, [Next]_vars PROVE Typed'
    OBVIOUS
<1>1. CASE Tick
    BY <1>1, PodStepTyped DEF Tick, pods, faults, Typed, TypeOK
<1>2. ASSUME NEW p \in Pods, Start(p) PROVE Typed'
    BY <1>2, PodStepTyped, OrderServiceAssumption DEF Start, Typed, TypeOK
<1>3. ASSUME NEW p \in Pods, Probe(p) PROVE Typed'
    <2>1. misses' \in [Pods -> 0..2] /\ serving' \subseteq Pods
        BY <1>3 DEF Probe, Typed, TypeOK
    <2>2. QED
        BY <1>3, <2>1, PodStepTyped DEF Probe, faults, Typed, TypeOK
<1>4. ASSUME NEW p \in Pods, Terminate(p) PROVE Typed'
    BY <1>4, PodStepTyped DEF Terminate, faults, ShutdownSec, Typed, TypeOK
<1>5. ASSUME NEW p \in Pods, RemoveEndpoint(p) PROVE Typed'
    BY <1>5, PodStepTyped DEF RemoveEndpoint, faults, Typed, TypeOK
<1>6. ASSUME NEW p \in Pods, Exit(p) PROVE Typed'
    BY <1>6, EndProcessTyped DEF Exit, Typed, TypeOK
<1>7. ASSUME NEW p \in Pods, Kill(p) PROVE Typed'
    BY <1>7, EndProcessTyped DEF Kill, Typed, TypeOK
<1>8. ASSUME NEW p \in Pods, NEW o \in Orders, SendOrder(o, p) PROVE Typed'
    <2>1. HasCode(Arriving(p)) /\ (Arriving(p).pc \in Running => Arriving(p).pod \in Pods)
        BY DEF HasCode, Arriving
    <2>2. /\ HasCode(EndedOrder("refused"))
          /\ EndedOrder("refused").pc \notin Running
        BY DEF HasCode, EndedOrder, Running
    <2>3. OnlyOrders /\ metric' = metric
          /\ (Becomes(o, Arriving(p)) \/ Becomes(o, EndedOrder("refused")))
        BY <1>8, SendOrderDoes
    <2>4. QED
        BY <2>1, <2>2, <2>3, OrderTyped, OrderStepTyped DEF OnlyOrders
<1>9. ASSUME NEW o \in Orders, OrderStep(o) PROVE Typed'
    <2>1. \A pc, code : Moved(o, pc, code).pod = order[o].pod
        BY DEF Moved
    <2>2. CASE TurnAway(o)
        <3>1. PICK code \in {405, 500} : Becomes(o, Moved(o, "count", code))
            BY <2>2, TurnAwayDoes
        <3>2. HasCode(Moved(o, "count", code))
            BY DEF Moved, HasCode
        <3>3. QED
            BY <2>1, <2>2, <3>1, <3>2, TurnAwayDoes, OrderTyped, OrderStepTyped DEF OnlyOrders
    <2>3. CASE Accept(o)
        <3>1. PICK pc \in {"sleep", "fail?"} : Becomes(o, Moved(o, pc, order[o].code))
            BY <2>3, AcceptDoes
        <3>2. HasCode(Moved(o, pc, order[o].code))
            BY DEF Moved, HasCode
        <3>3. OnlyOrders /\ order[o].pod \in Pods /\ metric' \in [Pods -> Metrics]
            BY <2>3, AcceptDoes
        <3>4. QED
            BY <2>1, <3>1, <3>2, <3>3, OrderStepTyped DEF OnlyOrders
    <2>4. CASE Sleep(o)
        <3>1. PICK sec \in Nat : Becomes(o, Sleeping(o, sec))
            BY <2>4, SleepDoes
        <3>2. HasCode(Sleeping(o, sec)) /\ Sleeping(o, sec).pod = order[o].pod
            BY DEF Sleeping, HasCode
        <3>3. QED
            BY <2>4, <3>1, <3>2, SleepDoes, OrderTyped, OrderStepTyped DEF OnlyOrders
    <2>5. CASE CheckFailRate(o)
        <3>1. HasCode(Moved(o, "draw", order[o].code)) /\ HasCode(Moved(o, "return", 201))
            BY DEF Moved, HasCode
        <3>2. /\ OnlyOrders /\ order[o].pod \in Pods /\ metric' \in [Pods -> Metrics]
              /\ Becomes(o, Moved(o, "draw", order[o].code)) \/ Succeeds(o)
            BY <2>5, CheckFailRateDoes
        <3>3. QED
            BY <2>1, <3>1, <3>2, OrderStepTyped DEF OnlyOrders, Succeeds
    <2>6. CASE Draw(o)
        <3>1. HasCode(Moved(o, "return", 500)) /\ HasCode(Moved(o, "return", 201))
            BY DEF Moved, HasCode
        <3>2. OnlyOrders /\ order[o].pod \in Pods /\ metric' \in [Pods -> Metrics]
            BY <2>6, DrawDoes
        <3>3. Becomes(o, Moved(o, "return", 500)) \/ Becomes(o, Moved(o, "return", 201))
            <4>1. Fails(o) \/ Succeeds(o)
                BY <2>6, DrawDoes
            <4>2. QED
                BY <4>1 DEF Fails, Succeeds
        <3>4. QED
            BY <2>1, <3>1, <3>2, <3>3, OrderStepTyped DEF OnlyOrders
    <2>7. CASE Return(o)
        <3>1. HasCode(Moved(o, "count", order[o].code))
            BY <2>7, ReturnDoes DEF Typed, Coded, Moved, HasCode
        <3>2. /\ OnlyOrders /\ order[o].pod \in Pods /\ metric' \in [Pods -> Metrics]
              /\ Becomes(o, Moved(o, "count", order[o].code))
            BY <2>7, ReturnDoes
        <3>3. QED
            BY <2>1, <3>1, <3>2, OrderStepTyped DEF OnlyOrders
    <2>8. CASE Count(o)
        <3>1. HasCode(EndedOrder("answered")) /\ EndedOrder("answered").pc \notin Running
            BY DEF HasCode, EndedOrder, Running
        <3>2. QED
            BY <2>8, <3>1, CountDoes, OrderStepTyped DEF OnlyOrders
    <2>9. QED
        BY <1>9, <2>2, <2>3, <2>4, <2>5, <2>6, <2>7, <2>8 DEF OrderStep
<1>10. ASSUME NEW p \in Pods, NEW c \in Calls, NEW asked \in Asked, SendCall(c, p, asked)
       PROVE  Typed'
    BY <1>10, SendCallTyped
<1>11. ASSUME NEW c \in Calls, SetFault(c) PROVE Typed'
    BY <1>11, SetFaultTyped
<1>12. CASE UNCHANGED vars
    BY <1>12, PodStepTyped DEF vars, Typed, TypeOK
<1>13. QED
    BY <1>1, <1>2, <1>3, <1>4, <1>5, <1>6, <1>7, <1>8, <1>9, <1>10, <1>11, <1>12
       DEF Next, RequestStep

(* Type correctness; that a status is counted only when there is one is    *)
(* part of the argument (instrument's recorder starts at 200).             *)
THEOREM TypeCorrect == Spec => []TypeOK
<1>1. Typed => TypeOK
    BY DEF Typed
<1>2. QED
    BY <1>1, TypedInit, TypedStep, PTL DEF Spec

-----------------------------------------------------------------------------
(* GaugesShowFaults is kept because a call that nobody met is the only one *)
(* in its pod, and a gauge can differ only between an assignment and the   *)
(* Set after it.                                                           *)

(* A call that assigned the rate is about to show the rate it assigned.    *)
FailShown(p) ==
    /\ \A c \in Setting(p) : call[c].pc = "failGauge" =>
          IF call[c].asked.fail = Absent THEN failGauge[p] = failRate[p]
                                         ELSE failRate[p] = call[c].asked.fail
    /\ (\A c \in Setting(p) : call[c].pc # "failGauge") => failGauge[p] = failRate[p]

LatencyShown(p) ==
    /\ \A c \in Setting(p) : call[c].pc = "latencyGauge" =>
          IF call[c].asked.latency = Absent THEN latencyGauge[p] = latency[p]
                                            ELSE latency[p] = call[c].asked.latency
    /\ (\A c \in Setting(p) : call[c].pc # "latencyGauge") => latencyGauge[p] = latency[p]

Alone(p) == \A c, d \in Setting(p) : c = d

FaultInv ==
    \A p \in Pods :
        /\ state[p] = "down" => Setting(p) = {}
        /\ state[p] # "down" /\ ~overlapped[p] => Alone(p) /\ FailShown(p) /\ LatencyShown(p)

LEMMA FaultInvImplies == FaultInv => GaugesShowFaults
BY DEF FaultInv, GaugesShowFaults, FailShown, LatencyShown

LEMMA FaultInvInit == Init => FaultInv
BY DEF Init, FaultInv, Setting, EndedCall, Assigning

(* A step that touches neither parameters nor calls and starts no pod.     *)
LEMMA FaultInvKept ==
    ASSUME FaultInv, UNCHANGED <<faults, call>>,
           \A p \in Pods : state'[p] = "down" <=> state[p] = "down"
    PROVE  FaultInv'
BY DEF FaultInv, faults, Setting, Alone, FailShown, LatencyShown

LEMMA EndProcessFault ==
    ASSUME Typed, FaultInv, NEW p \in Pods, NEW pc \in {"cut", "lost"}, EndProcess(p, pc)
    PROVE  FaultInv'
<1>1. Setting(p)' = {} /\ state'[p] = "down"
    BY DEF EndProcess, Setting, EndedCall, Assigning, Typed, TypeOK
<1>2. ASSUME NEW q \in Pods, q # p
      PROVE  /\ Setting(q)' = Setting(q)
             /\ \A c \in Setting(q) : call'[c] = call[c]
    BY <1>2 DEF EndProcess, Setting, EndedCall, Assigning
<1>3. ASSUME NEW q \in Pods, q # p
      PROVE  /\ state'[q] = state[q] /\ overlapped'[q] = overlapped[q]
             /\ failRate'[q] = failRate[q] /\ failGauge'[q] = failGauge[q]
             /\ latency'[q] = latency[q] /\ latencyGauge'[q] = latencyGauge[q]
    BY <1>3 DEF EndProcess, Typed, TypeOK
<1>4. QED
    BY <1>1, <1>2, <1>3 DEF FaultInv, Alone, FailShown, LatencyShown

LEMMA StartFault ==
    ASSUME Typed, FaultInv, NEW p \in Pods, Start(p)
    PROVE  FaultInv'
<1>1. Setting(p) = {}
    BY DEF FaultInv, Start
<1>2. \A q \in Pods : Setting(q)' = Setting(q)
    BY DEF Setting, Start
<1>3. failRate'[p] = failGauge'[p] /\ latency'[p] = latencyGauge'[p]
    BY DEF Start, Typed, TypeOK
<1>4. ASSUME NEW q \in Pods, q # p
      PROVE  /\ state'[q] = state[q] /\ overlapped'[q] = overlapped[q]
             /\ failRate'[q] = failRate[q] /\ failGauge'[q] = failGauge[q]
             /\ latency'[q] = latency[q] /\ latencyGauge'[q] = latencyGauge[q]
    BY <1>4 DEF Start, Typed, TypeOK
<1>5. state'[p] # "down" /\ call' = call
    BY DEF Start, Typed, TypeOK
<1>6. QED
    BY <1>1, <1>2, <1>3, <1>4, <1>5 DEF FaultInv, Alone, FailShown, LatencyShown

LEMMA SendCallFault ==
    ASSUME Typed, FaultInv, NEW c \in Calls, NEW p \in Pods, NEW asked \in Asked,
           SendCall(c, p, asked)
    PROVE  FaultInv'
<1>1. \A q \in Pods : c \notin Setting(q)
    BY DEF SendCall, Setting, Assigning
<1>2. \A d \in Calls : d # c => call'[d] = call[d]
    BY DEF SendCall, Typed, TypeOK
<1>3. UNCHANGED <<state, failRate, latency, failGauge, latencyGauge>>
    BY DEF SendCall, pods
<1>4. \A q \in Pods : q # p => overlapped'[q] = overlapped[q]
    BY DEF SendCall, Typed, TypeOK
<1>5. CASE state[p] = "up"
    <2>1. call'[c] = [pc |-> "fail", pod |-> p, asked |-> asked]
        BY <1>5 DEF SendCall, Typed, TypeOK
    <2>2. Setting(p)' = Setting(p) \union {c}
        BY <1>2, <2>1 DEF Setting, Assigning
    <2>3. \A q \in Pods : q # p => Setting(q)' = Setting(q)
        BY <1>1, <1>2, <2>1 DEF Setting
    <2>4. overlapped'[p] <=> (overlapped[p] \/ Setting(p) # {})
        BY <1>5 DEF SendCall, Typed, TypeOK
    <2>5. ASSUME NEW q \in Pods, q # p
          PROVE  /\ state'[q] = "down" => Setting(q)' = {}
                 /\ state'[q] # "down" /\ ~overlapped'[q]
                       => Alone(q)' /\ FailShown(q)' /\ LatencyShown(q)'
        <3>1. \A d \in Setting(q) : call'[d] = call[d]
            BY <1>1, <1>2 DEF Setting
        <3>2. QED
            BY <1>3, <1>4, <2>3, <2>5, <3>1 DEF FaultInv, Alone, FailShown, LatencyShown
    <2>6. ASSUME ~overlapped'[p] PROVE Alone(p)' /\ FailShown(p)' /\ LatencyShown(p)'
        <3>1. ~overlapped[p] /\ Setting(p) = {}
            BY <2>4, <2>6
        <3>2. failGauge[p] = failRate[p] /\ latencyGauge[p] = latency[p]
            BY <1>5, <3>1 DEF FaultInv, FailShown, LatencyShown
        <3>3. QED
            BY <1>3, <2>1, <2>2, <3>1, <3>2 DEF Alone, FailShown, LatencyShown
    <2>7. state'[p] # "down"
        BY <1>3, <1>5
    <2>8. QED
        BY <2>5, <2>6, <2>7 DEF FaultInv
<1>6. CASE state[p] # "up"
    <2>1. call'[c].pc \notin Assigning
        BY <1>6 DEF SendCall, EndedCall, Assigning, Typed, TypeOK
    <2>2. \A q \in Pods : Setting(q)' = Setting(q)
        BY <1>1, <1>2, <2>1 DEF Setting
    <2>3. \A q \in Pods : overlapped'[q] = overlapped[q]
        <3>1. overlapped'[p] <=> overlapped[p]
            BY <1>6 DEF SendCall, Typed, TypeOK
        <3>2. overlapped'[p] \in BOOLEAN /\ overlapped[p] \in BOOLEAN
            BY SendCallTyped DEF Typed, TypeOK
        <3>3. QED
            BY <1>4, <3>1, <3>2
    <2>4. \A q \in Pods : \A d \in Setting(q) : call'[d] = call[d]
        BY <1>1, <1>2 DEF Setting
    <2>5. QED
        BY <1>3, <2>2, <2>3, <2>4 DEF FaultInv, Alone, FailShown, LatencyShown
<1>7. QED
    BY <1>5, <1>6

LEMMA SetFaultFault ==
    ASSUME Typed, FaultInv, NEW c \in Calls, SetFault(c)
    PROVE  FaultInv'
<1> DEFINE asked == call[c].asked
<1>p. PICK p \in Pods : p = call[c].pod
    BY DEF SetFault, Typed, InPods
<1>1. p = call[c].pod /\ c \in Setting(p) /\ call[c].pc \in Assigning
    BY <1>p DEF SetFault, Setting
<1>2. /\ state' = state /\ overlapped' = overlapped
      /\ \A d \in Calls : d # c => call'[d] = call[d]
    BY DEF SetFault, pods, Typed, TypeOK
<1>3. ASSUME NEW q \in Pods, q # p
      PROVE  /\ Setting(q)' = Setting(q) /\ c \notin Setting(q)
             /\ failRate'[q] = failRate[q] /\ failGauge'[q] = failGauge[q]
             /\ latency'[q] = latency[q] /\ latencyGauge'[q] = latencyGauge[q]
    <2>1. call'[c].pod = p \/ call'[c].pc \notin Assigning
        BY <1>1 DEF SetFault, EndedCall, Assigning, Typed, TypeOK
    <2>2. Setting(q)' = Setting(q) /\ c \notin Setting(q)
        BY <1>1, <1>2, <1>3, <2>1 DEF Setting
    <2>3. /\ failRate'[q] = failRate[q] /\ failGauge'[q] = failGauge[q]
          /\ latency'[q] = latency[q] /\ latencyGauge'[q] = latencyGauge[q]
        BY <1>1, <1>3 DEF SetFault, Assign, Typed, TypeOK
    <2>4. QED
        BY <2>2, <2>3
<1>4. ASSUME NEW q \in Pods, q # p
      PROVE  /\ state'[q] = "down" => Setting(q)' = {}
             /\ state'[q] # "down" /\ ~overlapped'[q]
                   => Alone(q)' /\ FailShown(q)' /\ LatencyShown(q)'
    <2>1. \A d \in Setting(q) : call'[d] = call[d]
        BY <1>2, <1>3, <1>4 DEF Setting
    <2>2. QED
        BY <1>2, <1>3, <1>4, <2>1 DEF FaultInv, Alone, FailShown, LatencyShown
<1>5. state'[p] # "down"
    BY <1>1, <1>2 DEF FaultInv
<1>6. ASSUME ~overlapped'[p] PROVE Alone(p)' /\ FailShown(p)' /\ LatencyShown(p)'
    <2>1. Setting(p) = {c} /\ FailShown(p) /\ LatencyShown(p)
        BY <1>1, <1>2, <1>5, <1>6 DEF FaultInv, Alone
    <2>2. Setting(p)' \subseteq {c}
        BY <1>2, <2>1 DEF Setting
    <2>3. CASE call[c].pc = "fail"
        <3>1. call'[c] = [pc |-> "failGauge", pod |-> p, asked |-> asked] /\ Setting(p)' = {c}
            BY <1>1, <2>2, <2>3 DEF SetFault, AfterCall, Setting, Assigning, Typed, TypeOK
        <3>2. failRate'[p] = IF asked.fail = Absent THEN failRate[p] ELSE asked.fail
            BY <1>1, <2>3 DEF SetFault, Assign, Typed, TypeOK
        <3>3. UNCHANGED <<failGauge, latency, latencyGauge>>
            BY <2>3 DEF SetFault
        <3>4. QED
            BY <2>1, <2>3, <3>1, <3>2, <3>3 DEF Alone, FailShown, LatencyShown
    <2>4. CASE call[c].pc = "failGauge"
        <3>1. call'[c] = [pc |-> "latency", pod |-> p, asked |-> asked] /\ Setting(p)' = {c}
            BY <1>1, <2>2, <2>4 DEF SetFault, AfterCall, Setting, Assigning, Typed, TypeOK
        <3>2. failGauge'[p] = IF asked.fail = Absent THEN failGauge[p] ELSE asked.fail
            BY <1>1, <2>4 DEF SetFault, Assign, Typed, TypeOK
        <3>3. UNCHANGED <<failRate, latency, latencyGauge>>
            BY <2>4 DEF SetFault
        <3>4. QED
            BY <2>1, <2>4, <3>1, <3>2, <3>3 DEF Alone, FailShown, LatencyShown
    <2>5. CASE call[c].pc = "latency"
        <3>1. call'[c] = [pc |-> "latencyGauge", pod |-> p, asked |-> asked] /\ Setting(p)' = {c}
            BY <1>1, <2>2, <2>5 DEF SetFault, AfterCall, Setting, Assigning, Typed, TypeOK
        <3>2. latency'[p] = IF asked.latency = Absent THEN latency[p] ELSE asked.latency
            BY <1>1, <2>5 DEF SetFault, Assign, Typed, TypeOK
        <3>3. UNCHANGED <<failRate, failGauge, latencyGauge>>
            BY <2>5 DEF SetFault
        <3>4. QED
            BY <2>1, <2>5, <3>1, <3>2, <3>3 DEF Alone, FailShown, LatencyShown
    <2>6. CASE call[c].pc = "latencyGauge"
        <3>1. call'[c] = EndedCall("answered") /\ Setting(p)' = {}
            BY <2>2, <2>6 DEF SetFault, EndedCall, Setting, Assigning, Typed, TypeOK
        <3>2. latencyGauge'[p] = IF asked.latency = Absent THEN latencyGauge[p] ELSE asked.latency
            BY <1>1, <2>6 DEF SetFault, Assign, Typed, TypeOK
        <3>3. UNCHANGED <<failRate, failGauge, latency>>
            BY <2>6 DEF SetFault
        <3>4. QED
            BY <2>1, <2>6, <3>1, <3>2, <3>3 DEF Alone, FailShown, LatencyShown
    <2>7. QED
        BY <1>1, <2>3, <2>4, <2>5, <2>6 DEF Assigning
<1>7. QED
    BY <1>4, <1>5, <1>6 DEF FaultInv

LEMMA FaultInvStep == Typed /\ FaultInv /\ [Next]_vars => FaultInv'
<1> SUFFICES ASSUME Typed, FaultInv, [Next]_vars PROVE FaultInv'
    OBVIOUS
<1>1. ASSUME NEW p \in Pods, NEW o \in Orders, SendOrder(o, p) PROVE FaultInv'
    BY <1>1, FaultInvKept DEF SendOrder, pods
<1>2. ASSUME NEW o \in Orders, OrderStep(o) PROVE FaultInv'
    <2>1. UNCHANGED <<faults, call>> /\ state' = state
        BY <1>2 DEF OrderStep, TurnAway, Accept, Sleep, CheckFailRate, Draw, Return, Count, pods
    <2>2. QED
        BY <2>1, FaultInvKept
<1>3. ASSUME NEW p \in Pods, Terminate(p) PROVE FaultInv'
    <2>1. \A q \in Pods : state'[q] = "down" <=> state[q] = "down"
        BY <1>3 DEF Terminate, Typed, TypeOK
    <2>2. QED
        BY <1>3, <2>1, FaultInvKept DEF Terminate
<1>4. ASSUME NEW p \in Pods, Probe(p) \/ RemoveEndpoint(p) PROVE FaultInv'
    BY <1>4, FaultInvKept DEF Probe, RemoveEndpoint
<1>5. ASSUME NEW p \in Pods, Exit(p) \/ Kill(p) PROVE FaultInv'
    BY <1>5, EndProcessFault DEF Exit, Kill
<1>6. CASE Tick
    BY <1>6, FaultInvKept DEF Tick, pods
<1>7. CASE UNCHANGED vars
    BY <1>7, FaultInvKept DEF vars, faults
<1>8. QED
    BY <1>1, <1>2, <1>3, <1>4, <1>5, <1>6, <1>7, StartFault, SendCallFault, SetFaultFault
       DEF Next, RequestStep

(* The gauges show what orders are treated with, in any number of pods and *)
(* calls, in every life of a pod in which no two calls met.                *)
THEOREM GaugesFollow == Spec => []GaugesShowFaults
<1>1. Init => Typed /\ FaultInv
    BY TypedInit, FaultInvInit
<1>2. Typed /\ FaultInv /\ [Next]_vars => (Typed /\ FaultInv)'
    BY TypedStep, FaultInvStep
<1>3. Typed /\ FaultInv => GaugesShowFaults
    BY FaultInvImplies
<1>4. QED
    BY <1>1, <1>2, <1>3, PTL DEF Spec

-----------------------------------------------------------------------------
(* ShortOrdersFinish: an order in a draining pod was taken no later than   *)
(* the SIGTERM, five seconds before the deadline, so its sleep ends no     *)
(* later than it slept beyond five seconds before the deadline.            *)

Due(r) == IF r.pc = "asleep" THEN r.wake ELSE now

Timely(r) ==
    /\ r.pc \in {"enter", "sleep"} => r.slept = 0
    /\ r.pc = "asleep" => now <= r.wake /\ r.wake <= now + r.slept
    /\ r.pc \in Running /\ state[r.pod] = "draining" =>
          Due(r) + ShutdownSec <= deadline[r.pod] + r.slept
    /\ r.pc = "cut" => r.slept >= ShutdownSec

TimeInv == \A o \in Orders : Timely(order[o])

LEMMA TimeInvInit == Init => TimeInv
BY DEF Init, TimeInv, Timely, EndedOrder, Running

(* A step that leaves orders, clock, states and deadlines alone.           *)
LEMMA TimeInvKept ==
    ASSUME TimeInv, UNCHANGED <<order, now, state, deadline>>
    PROVE  TimeInv'
BY DEF TimeInv, Timely, Due

(* A step of one order to a timely record.                                 *)
LEMMA OrderStepTime ==
    ASSUME TimeInv, NEW o \in Orders, OnlyOrders, NEW r, Becomes(o, r), Timely(r)
    PROVE  TimeInv'
<1>1. UNCHANGED <<now, state, deadline>>
    BY DEF OnlyOrders, pods
<1>2. \A q \in Orders : Timely(order'[q])
    BY DEF TimeInv, Becomes
<1>3. \A q \in Orders : Timely(order[q])'
    BY <1>1, <1>2 DEF Timely, Due
<1>4. QED
    BY <1>3 DEF TimeInv

(* An order that was not asleep, or whose sleep is over, moves on.         *)
LEMMA MovedTimely ==
    ASSUME Typed, TimeInv, NEW o \in Orders, order[o].pc \in Running,
           order[o].pc = "asleep" => now >= order[o].wake,
           NEW pc \in {"sleep", "fail?", "draw", "return", "count"}, NEW code,
           pc = "sleep" => order[o].pc = "enter"
    PROVE  Timely(Moved(o, pc, code))
<1>1. Timely(order[o])
    BY DEF TimeInv
<1>2. order[o].wake \in Nat /\ order[o].slept \in Nat /\ now \in Nat /\ order[o].pod \in Pods
    BY OrderTyped DEF OrderRecords, Typed, TypeOK, InPods
<1>3. deadline[order[o].pod] \in Nat
    BY <1>2 DEF Typed, TypeOK
<1>4. Due(order[o]) = now
    BY <1>1, <1>2 DEF Due, Timely
<1>5. /\ Moved(o, pc, code).pc = pc /\ Moved(o, pc, code).pod = order[o].pod
      /\ Moved(o, pc, code).slept = order[o].slept
    BY DEF Moved
<1>6. pc # "asleep" /\ pc # "cut" /\ pc # "enter"
    OBVIOUS
<1>7. QED
    BY <1>1, <1>2, <1>3, <1>4, <1>5, <1>6 DEF Timely, Due, ShutdownSec

LEMMA SleepingTimely ==
    ASSUME Typed, TimeInv, NEW o \in Orders, order[o].pc = "sleep", NEW sec \in Nat
    PROVE  Timely(Sleeping(o, sec))
<1>1. Timely(order[o]) /\ order[o].pc \in Running
    BY DEF TimeInv, Running
<1>2. order[o].slept = 0 /\ now \in Nat /\ order[o].pod \in Pods
    BY <1>1 DEF Timely, Typed, TypeOK, InPods
<1>3. deadline[order[o].pod] \in Nat
    BY <1>2 DEF Typed, TypeOK
<1>4. state[order[o].pod] = "draining" => now + ShutdownSec <= deadline[order[o].pod]
    BY <1>1, <1>2, <1>3 DEF Timely, Due, ShutdownSec
<1>5. /\ Sleeping(o, sec).pc = "asleep" /\ Sleeping(o, sec).pod = order[o].pod
      /\ Sleeping(o, sec).slept = sec /\ Sleeping(o, sec).wake = now + sec
    BY DEF Sleeping
<1>6. QED
    BY <1>2, <1>3, <1>4, <1>5 DEF Timely, Due, ShutdownSec

LEMMA EndedTimely ==
    ASSUME NEW pc \in {"answered", "refused"}
    PROVE  Timely(EndedOrder(pc))
BY DEF Timely, EndedOrder, Running

LEMMA OrderTime ==
    ASSUME Typed, TimeInv, NEW o \in Orders, OrderStep(o)
    PROVE  TimeInv'
<1>1. CASE TurnAway(o)
    <2>1. PICK code \in {405, 500} : Becomes(o, Moved(o, "count", code))
        BY <1>1, TurnAwayDoes
    <2>2. order[o].pc = "enter" /\ OnlyOrders
        BY <1>1, TurnAwayDoes
    <2>3. Timely(Moved(o, "count", code))
        BY <2>2, MovedTimely DEF Running
    <2>4. QED
        BY <2>1, <2>2, <2>3, OrderStepTime
<1>2. CASE Accept(o)
    <2>1. PICK pc \in {"sleep", "fail?"} : Becomes(o, Moved(o, pc, order[o].code))
        BY <1>2, AcceptDoes
    <2>2. order[o].pc = "enter" /\ OnlyOrders
        BY <1>2, AcceptDoes
    <2>3. Timely(Moved(o, pc, order[o].code))
        BY <2>2, MovedTimely DEF Running
    <2>4. QED
        BY <2>1, <2>2, <2>3, OrderStepTime
<1>3. CASE Sleep(o)
    <2>1. PICK sec \in Nat : Becomes(o, Sleeping(o, sec))
        BY <1>3, SleepDoes
    <2>2. order[o].pc = "sleep" /\ OnlyOrders
        BY <1>3, SleepDoes
    <2>3. QED
        BY <2>1, <2>2, SleepingTimely, OrderStepTime
<1>4. CASE CheckFailRate(o)
    <2>1. /\ OnlyOrders /\ order[o].pc \in Running
          /\ order[o].pc = "asleep" => now >= order[o].wake
        BY <1>4, CheckFailRateDoes DEF Running
    <2>2. Becomes(o, Moved(o, "draw", order[o].code)) \/ Becomes(o, Moved(o, "return", 201))
        BY <1>4, CheckFailRateDoes DEF Succeeds
    <2>3. Timely(Moved(o, "draw", order[o].code)) /\ Timely(Moved(o, "return", 201))
        BY <2>1, MovedTimely
    <2>4. QED
        BY <2>1, <2>2, <2>3, OrderStepTime
<1>5. CASE Draw(o)
    <2>1. OnlyOrders /\ order[o].pc = "draw" /\ (Fails(o) \/ Succeeds(o))
        BY <1>5, DrawDoes
    <2>2. Becomes(o, Moved(o, "return", 500)) \/ Becomes(o, Moved(o, "return", 201))
        BY <2>1 DEF Fails, Succeeds
    <2>3. Timely(Moved(o, "return", 500)) /\ Timely(Moved(o, "return", 201))
        BY <2>1, MovedTimely DEF Running
    <2>4. QED
        BY <2>1, <2>2, <2>3, OrderStepTime
<1>6. CASE Return(o)
    <2>1. /\ OnlyOrders /\ order[o].pc = "return"
          /\ Becomes(o, Moved(o, "count", order[o].code))
        BY <1>6, ReturnDoes
    <2>2. Timely(Moved(o, "count", order[o].code))
        BY <2>1, MovedTimely DEF Running
    <2>3. QED
        BY <2>1, <2>2, OrderStepTime
<1>7. CASE Count(o)
    <2>1. OnlyOrders /\ Becomes(o, EndedOrder("answered"))
        BY <1>7, CountDoes
    <2>2. QED
        BY <2>1, EndedTimely, OrderStepTime
<1>8. QED
    BY <1>1, <1>2, <1>3, <1>4, <1>5, <1>6, <1>7 DEF OrderStep

LEMMA SendOrderTime ==
    ASSUME Typed, TimeInv, NEW o \in Orders, NEW p \in Pods, SendOrder(o, p)
    PROVE  TimeInv'
<1>1. OnlyOrders
    BY SendOrderDoes
<1>2. state[p] = "up" => Timely(Arriving(p))
    BY DEF Timely, Arriving
<1>3. Timely(EndedOrder("refused"))
    BY EndedTimely
<1>4. (state[p] = "up" /\ Becomes(o, Arriving(p))) \/ Becomes(o, EndedOrder("refused"))
    BY SendOrderDoes
<1>5. QED
    BY <1>1, <1>2, <1>3, <1>4, OrderStepTime

(* Time passes only while every order sleeps on.                           *)
LEMMA TickTime ==
    ASSUME Typed, TimeInv, Tick
    PROVE  TimeInv'
<1>1. now' = now + 1 /\ UNCHANGED <<order, state, deadline>>
    BY DEF Tick, pods
<1>2. ASSUME NEW o \in Orders PROVE Timely(order[o])'
    <2>1. order[o].pc \in Running => order[o].pc = "asleep" /\ order[o].wake > now
        BY DEF Tick
    <2>2. order[o].wake \in Nat /\ order[o].slept \in Nat /\ now \in Nat
        BY OrderTyped DEF OrderRecords, Typed, TypeOK
    <2>3. Timely(order[o])
        BY DEF TimeInv
    <2>4. QED
        BY <1>1, <2>1, <2>2, <2>3 DEF Timely, Due, Running
<1>3. QED
    BY <1>2 DEF TimeInv

LEMMA TerminateTime ==
    ASSUME Typed, TimeInv, NEW p \in Pods, Terminate(p)
    PROVE  TimeInv'
<1>1. /\ UNCHANGED <<order, now>> /\ deadline'[p] = now + ShutdownSec
      /\ \A q \in Pods : q # p => state'[q] = state[q] /\ deadline'[q] = deadline[q]
    BY DEF Terminate, Typed, TypeOK
<1>2. ASSUME NEW o \in Orders PROVE Timely(order[o])'
    <2>1. /\ order[o].wake \in Nat /\ order[o].slept \in Nat /\ now \in Nat
          /\ order[o].pc \in Running => order[o].pod \in Pods
        BY OrderTyped DEF OrderRecords, Typed, TypeOK, InPods
    <2>2. Timely(order[o])
        BY DEF TimeInv
    <2>3. QED
        BY <1>1, <2>1, <2>2 DEF Timely, Due, ShutdownSec
<1>3. QED
    BY <1>2 DEF TimeInv

(* Orders are cut off only at the deadline, and killed pods lose theirs.   *)
LEMMA EndProcessTime ==
    ASSUME Typed, TimeInv, NEW p \in Pods, NEW pc \in {"cut", "lost"},
           EndProcess(p, pc), now' = now,
           pc = "cut" => state[p] = "draining" /\ MayExit(p)
    PROVE  TimeInv'
<1>1. \A q \in Pods : q # p => state'[q] = state[q] /\ deadline'[q] = deadline[q]
    BY DEF EndProcess, Typed, TypeOK
<1>2. ASSUME NEW o \in Orders PROVE Timely(order[o])'
    <2>1. /\ order[o].wake \in Nat /\ order[o].slept \in Nat /\ now \in Nat
          /\ order[o].pc \in Running => order[o].pod \in Pods
        BY OrderTyped DEF OrderRecords, Typed, TypeOK, InPods
    <2>2. Timely(order[o])
        BY DEF TimeInv
    <2>3. CASE o \in Within(p)
        <3>1. order'[o] = Moved(o, pc, order[o].code)
            BY <2>3 DEF EndProcess
        <3>2. order'[o].pc = pc /\ order'[o].slept = order[o].slept
            BY <3>1 DEF Moved
        <3>3. pc = "cut" => order[o].slept >= ShutdownSec
            <4>1. SUFFICES ASSUME pc = "cut" PROVE order[o].slept >= ShutdownSec
                OBVIOUS
            <4>2. now >= deadline[p] /\ state[p] = "draining"
                BY <2>3, <4>1 DEF MayExit
            <4>3. order[o].pod = p /\ order[o].pc \in Running /\ deadline[p] \in Nat
                BY <2>3 DEF Within, Typed, TypeOK
            <4>4. Due(order[o]) \in Nat /\ Due(order[o]) >= now
                BY <2>1, <2>2 DEF Due, Timely
            <4>5. Due(order[o]) + ShutdownSec <= deadline[p] + order[o].slept
                BY <2>2, <4>2, <4>3 DEF Timely
            <4>6. QED
                BY <2>1, <4>2, <4>3, <4>4, <4>5 DEF ShutdownSec
        <3>4. QED
            BY <3>2, <3>3 DEF Timely, Running
    <2>4. CASE o \notin Within(p)
        <3>1. order'[o] = order[o] /\ (order[o].pc \in Running => order[o].pod # p)
            BY <2>4 DEF EndProcess, Within
        <3>2. QED
            BY <1>1, <2>1, <2>2, <3>1 DEF Timely, Due
    <2>5. QED
        BY <2>3, <2>4
<1>3. QED
    BY <1>2 DEF TimeInv

LEMMA TimeInvStep == Typed /\ TimeInv /\ [Next]_vars => TimeInv'
<1> SUFFICES ASSUME Typed, TimeInv, [Next]_vars PROVE TimeInv'
    OBVIOUS
<1>1. ASSUME NEW p \in Pods, Start(p) PROVE TimeInv'
    <2>1. /\ UNCHANGED <<order, now, deadline>> /\ state'[p] = "up"
          /\ \A q \in Pods : q # p => state'[q] = state[q]
        BY <1>1 DEF Start, Typed, TypeOK
    <2>2. \A o \in Orders : order[o].pc \in Running => order[o].pod \in Pods
        BY DEF Typed, InPods
    <2>3. QED
        BY <2>1, <2>2 DEF TimeInv, Timely, Due
<1>2. ASSUME NEW p \in Pods, Probe(p) \/ RemoveEndpoint(p) PROVE TimeInv'
    BY <1>2, TimeInvKept DEF Probe, RemoveEndpoint
<1>3. ASSUME NEW p \in Pods, Exit(p) PROVE TimeInv'
    BY <1>3, EndProcessTime DEF Exit
<1>4. ASSUME NEW p \in Pods, Kill(p) PROVE TimeInv'
    BY <1>4, EndProcessTime DEF Kill
<1>5. ASSUME NEW p \in Pods, NEW c \in Calls, NEW asked \in Asked, SendCall(c, p, asked)
      PROVE  TimeInv'
    BY <1>5, TimeInvKept DEF SendCall, pods
<1>6. ASSUME NEW c \in Calls, SetFault(c) PROVE TimeInv'
    BY <1>6, TimeInvKept DEF SetFault, pods
<1>7. CASE UNCHANGED vars
    BY <1>7, TimeInvKept DEF vars
<1>8. QED
    BY <1>1, <1>2, <1>3, <1>4, <1>5, <1>6, <1>7, TerminateTime, TickTime,
       SendOrderTime, OrderTime
       DEF Next, RequestStep

(* Whatever the load and the latencies, a pod that is told to stop cuts    *)
(* off only orders that slept five seconds or more.                        *)
THEOREM ShortOrdersSurvive == Spec => []ShortOrdersFinish
<1>1. Init => Typed /\ TimeInv
    BY TypedInit, TimeInvInit
<1>2. Typed /\ TimeInv /\ [Next]_vars => (Typed /\ TimeInv)'
    BY TypedStep, TimeInvStep
<1>3. Typed /\ TimeInv => ShortOrdersFinish
    BY DEF TimeInv, Timely, ShortOrdersFinish
<1>4. QED
    BY <1>1, <1>2, <1>3, PTL DEF Spec

-----------------------------------------------------------------------------
(* MetricsAgree: each difference between two counters is the number of     *)
(* orders that passed the first and not yet the second.                    *)

Flying(r, p) == r.pod = p /\ r.pc \in {"sleep", "asleep", "fail?", "draw", "return"}
Pending(r, p, code) == r.pod = p /\ r.pc \in {"return", "count"} /\ r.code = code

NFlying(p) == Cardinality({o \in Orders : Flying(order[o], p)})
NPending(p, code) == Cardinality({o \in Orders : Pending(order[o], p, code)})

(* What metric m shows when f orders are in flight, and of those to be     *)
(* counted c201 were created and c500 failed.                              *)
Balanced(m, f, c201, c500) ==
    /\ m.inFlight = f
    /\ m.created = m.code201 + c201
    /\ m.failed <= m.code500 + c500
    /\ ~Buggy => m.failed = m.code500 + c500

MetricInv ==
    \A p \in Pods : Balanced(metric[p], NFlying(p), NPending(p, 201), NPending(p, 500))

LEMMA NothingCounted ==
    ASSUME NEW p, \A o \in Orders : ~(order[o].pod = p /\ order[o].pc \in Running)
    PROVE  NFlying(p) = 0 /\ NPending(p, 201) = 0 /\ NPending(p, 500) = 0
<1>1. /\ {o \in Orders : Flying(order[o], p)} = {}
      /\ \A code : {o \in Orders : Pending(order[o], p, code)} = {}
    BY DEF Flying, Pending, Running
<1>2. QED
    BY <1>1, FS_EmptySet DEF NFlying, NPending

LEMMA MetricInvImplies == Typed /\ MetricInv => MetricsAgree
<1> SUFFICES ASSUME Typed, MetricInv, NEW p \in Pods, Within(p) = {}
             PROVE  /\ metric[p].inFlight = 0
                    /\ metric[p].created = metric[p].code201
                    /\ metric[p].failed <= metric[p].code500
                    /\ ~Buggy => metric[p].failed = metric[p].code500
    BY DEF MetricsAgree
<1>1. NFlying(p) = 0 /\ NPending(p, 201) = 0 /\ NPending(p, 500) = 0
    BY NothingCounted DEF Within
<1>2. metric[p].code201 \in Nat /\ metric[p].code500 \in Nat
    BY DEF Typed, TypeOK
<1>3. Balanced(metric[p], 0, 0, 0)
    BY <1>1 DEF MetricInv
<1>4. QED
    BY <1>2, <1>3 DEF Balanced

(* No order runs, nothing has been counted.                                *)
LEMMA MetricInvInit == Init => MetricInv
<1> SUFFICES ASSUME Init, NEW p \in Pods
             PROVE  Balanced(metric[p], NFlying(p), NPending(p, 201), NPending(p, 500))
    BY DEF MetricInv
<1>1. NFlying(p) = 0 /\ NPending(p, 201) = 0 /\ NPending(p, 500) = 0
    BY NothingCounted DEF Init, EndedOrder, Running
<1>2. metric[p] = NoMetrics
    BY DEF Init
<1>3. QED
    BY <1>1, <1>2 DEF NoMetrics, Balanced

One(b) == IF b THEN 1 ELSE 0

(* A set to which x may be added, and from which it may be removed.        *)
LEMMA Moving ==
    ASSUME NEW S, NEW T, NEW x, IsFiniteSet(S), IsFiniteSet(T),
           \A y : y # x => (y \in S <=> y \in T)
    PROVE  /\ Cardinality(S) \in Nat /\ Cardinality(T) \in Nat
           /\ Cardinality(T) + One(x \in S) = Cardinality(S) + One(x \in T)
<1>1. Cardinality(S) \in Nat /\ Cardinality(T) \in Nat
    BY FS_CardinalityType
<1>2. CASE x \in S /\ x \notin T
    <2>1. S = T \union {x}
        BY <1>2
    <2>2. Cardinality(S) = Cardinality(T) + 1
        BY <1>2, <2>1, FS_AddElement
    <2>3. QED
        BY <1>1, <1>2, <2>2 DEF One
<1>3. CASE x \notin S /\ x \in T
    <2>1. T = S \union {x}
        BY <1>3
    <2>2. Cardinality(T) = Cardinality(S) + 1
        BY <1>3, <2>1, FS_AddElement
    <2>3. QED
        BY <1>1, <1>3, <2>2 DEF One
<1>4. CASE (x \in S) <=> (x \in T)
    <2>1. S = T
        BY <1>4
    <2>2. QED
        BY <1>1, <2>1
<1>5. QED
    BY <1>2, <1>3, <1>4

LEMMA Counts ==
    ASSUME IsFiniteSet(Orders), NEW o \in Orders, NEW r, Becomes(o, r), NEW p \in Pods
    PROVE  /\ NFlying(p) \in Nat /\ NFlying(p)' \in Nat
           /\ NFlying(p)' + One(Flying(order[o], p)) = NFlying(p) + One(Flying(r, p))
           /\ \A code : /\ NPending(p, code) \in Nat /\ NPending(p, code)' \in Nat
                        /\ NPending(p, code)' + One(Pending(order[o], p, code))
                              = NPending(p, code) + One(Pending(r, p, code))
<1>1. order'[o] = r /\ \A q \in Orders : q # o => order'[q] = order[q]
    BY DEF Becomes
<1>2. /\ NFlying(p) \in Nat /\ NFlying(p)' \in Nat
      /\ NFlying(p)' + One(Flying(order[o], p)) = NFlying(p) + One(Flying(r, p))
    <2> DEFINE S == {q \in Orders : Flying(order[q], p)}
               T == {q \in Orders : Flying(order'[q], p)}
    <2>1. IsFiniteSet(S) /\ IsFiniteSet(T)
        BY FS_Subset
    <2>2. \A q : q # o => (q \in S <=> q \in T)
        BY <1>1
    <2>3. (o \in S <=> Flying(order[o], p)) /\ (o \in T <=> Flying(r, p))
        BY <1>1
    <2>4. NFlying(p) = Cardinality(S) /\ NFlying(p)' = Cardinality(T)
        BY DEF NFlying, Flying
    <2> HIDE DEF S, T
    <2>5. Cardinality(T) + One(o \in S) = Cardinality(S) + One(o \in T)
          /\ Cardinality(S) \in Nat /\ Cardinality(T) \in Nat
        BY <2>1, <2>2, Moving
    <2>6. QED
        BY <2>3, <2>4, <2>5 DEF One
<1>3. ASSUME NEW code
      PROVE  /\ NPending(p, code) \in Nat /\ NPending(p, code)' \in Nat
             /\ NPending(p, code)' + One(Pending(order[o], p, code))
                   = NPending(p, code) + One(Pending(r, p, code))
    <2> DEFINE S == {q \in Orders : Pending(order[q], p, code)}
               T == {q \in Orders : Pending(order'[q], p, code)}
    <2>1. IsFiniteSet(S) /\ IsFiniteSet(T)
        BY FS_Subset
    <2>2. \A q : q # o => (q \in S <=> q \in T)
        BY <1>1
    <2>3. (o \in S <=> Pending(order[o], p, code)) /\ (o \in T <=> Pending(r, p, code))
        BY <1>1
    <2>4. NPending(p, code) = Cardinality(S) /\ NPending(p, code)' = Cardinality(T)
        BY DEF NPending, Pending
    <2> HIDE DEF S, T
    <2>5. Cardinality(T) + One(o \in S) = Cardinality(S) + One(o \in T)
          /\ Cardinality(S) \in Nat /\ Cardinality(T) \in Nat
        BY <2>1, <2>2, Moving
    <2>6. QED
        BY <2>3, <2>4, <2>5 DEF One
<1>4. QED
    BY <1>2, <1>3

(* How metric m becomes n when an order with record r gets record t.       *)
Shift(m, n, r, t, p) ==
    /\ n.inFlight + One(Flying(r, p)) = m.inFlight + One(Flying(t, p))
    /\ n.created + m.code201 + One(Pending(r, p, 201))
          = m.created + n.code201 + One(Pending(t, p, 201))
    /\ n.failed + m.code500 + One(Pending(r, p, 500))
          <= m.failed + n.code500 + One(Pending(t, p, 500))
    /\ ~Buggy => n.failed + m.code500 + One(Pending(r, p, 500))
                    = m.failed + n.code500 + One(Pending(t, p, 500))

Elsewhere(r, p) ==
    \A q \in Pods : q # p => ~Flying(r, q) /\ ~Pending(r, q, 201) /\ ~Pending(r, q, 500)

(* A step of an order that shifts its pod's metrics keeps the balance.     *)
LEMMA Balance ==
    ASSUME IsFiniteSet(Orders), Typed, MetricInv, NEW o \in Orders, NEW p \in Pods, NEW r,
           Becomes(o, r), Elsewhere(order[o], p), Elsewhere(r, p),
           metric' \in [Pods -> Metrics],
           \A q \in Pods : q # p => metric'[q] = metric[q],
           Shift(metric[p], metric'[p], order[o], r, p)
    PROVE  MetricInv'
<1>1. ASSUME NEW q \in Pods
      PROVE  Balanced(metric'[q], NFlying(q)', NPending(q, 201)', NPending(q, 500)')
    <2>1. /\ NFlying(q) \in Nat /\ NFlying(q)' \in Nat
          /\ NPending(q, 201) \in Nat /\ NPending(q, 201)' \in Nat
          /\ NPending(q, 500) \in Nat /\ NPending(q, 500)' \in Nat
          /\ NFlying(q)' + One(Flying(order[o], q)) = NFlying(q) + One(Flying(r, q))
          /\ NPending(q, 201)' + One(Pending(order[o], q, 201))
                = NPending(q, 201) + One(Pending(r, q, 201))
          /\ NPending(q, 500)' + One(Pending(order[o], q, 500))
                = NPending(q, 500) + One(Pending(r, q, 500))
        BY Counts
    <2>2. Balanced(metric[q], NFlying(q), NPending(q, 201), NPending(q, 500))
        BY DEF MetricInv
    <2>3. \A b : One(b) \in {0, 1}
        BY DEF One
    <2>4. metric[q] \in Metrics /\ metric'[q] \in Metrics
        BY OrderTyped
    <2>5. CASE q = p
        <3>1. Shift(metric[q], metric'[q], order[o], r, q)
            BY <2>5
        <3> DEFINE m == metric[q]
                   n == metric'[q]
        <3>2. /\ m.inFlight \in Int /\ m.created \in Nat /\ m.failed \in Nat
              /\ m.code201 \in Nat /\ m.code500 \in Nat
              /\ n.inFlight \in Int /\ n.created \in Nat /\ n.failed \in Nat
              /\ n.code201 \in Nat /\ n.code500 \in Nat
            BY <2>4 DEF Metrics
        <3> HIDE DEF m, n
        <3>3. Shift(m, n, order[o], r, q) /\ Balanced(m, NFlying(q), NPending(q, 201), NPending(q, 500))
            BY <2>2, <3>1 DEF m, n
        <3>4. Balanced(n, NFlying(q)', NPending(q, 201)', NPending(q, 500)')
            BY <2>1, <2>3, <3>2, <3>3 DEF Shift, Balanced
        <3>5. QED
            BY <3>4 DEF n
    <2>6. CASE q # p
        <3>1. /\ NFlying(q)' = NFlying(q) /\ NPending(q, 201)' = NPending(q, 201)
              /\ NPending(q, 500)' = NPending(q, 500)
            BY <2>1, <2>6 DEF Elsewhere, One
        <3>2. metric'[q] = metric[q]
            BY <2>6
        <3>3. QED
            BY <2>2, <3>1, <3>2
    <2>7. QED
        BY <2>5, <2>6
<1>2. QED
    BY <1>1 DEF MetricInv, Balanced

LEMMA TurnAwayMetric ==
    ASSUME IsFiniteSet(Orders), Typed, MetricInv, NEW o \in Orders, TurnAway(o)
    PROVE  MetricInv'
<1>1. PICK code \in {405, 500} : /\ code = 500 => Buggy
                                 /\ Becomes(o, Moved(o, "count", code))
    BY TurnAwayDoes
<1>2. PICK p \in Pods : p = order[o].pod
    BY TurnAwayDoes
<1>3. metric' = metric /\ metric \in [Pods -> Metrics] /\ order[o].pc = "enter"
    BY TurnAwayDoes, OrderTyped
<1> DEFINE r == Moved(o, "count", code)
<1>4. r.pc = "count" /\ r.pod = p /\ r.code = code
    BY <1>2 DEF Moved
<1> HIDE DEF r
<1>5. Elsewhere(order[o], p) /\ Elsewhere(r, p)
    BY <1>2, <1>4 DEF Elsewhere, Flying, Pending
<1>6. /\ ~Flying(order[o], p) /\ ~Pending(order[o], p, 201) /\ ~Pending(order[o], p, 500)
      /\ ~Flying(r, p) /\ ~Pending(r, p, 201) /\ (~Buggy => ~Pending(r, p, 500))
    BY <1>1, <1>3, <1>4 DEF Flying, Pending
<1>7. metric[p] \in Metrics
    BY <1>3
<1>8. Shift(metric[p], metric[p], order[o], r, p)
    BY <1>6, <1>7 DEF Shift, One, Metrics
<1>9. Becomes(o, r)
    BY <1>1 DEF r
<1>10. QED
    BY <1>3, <1>5, <1>8, <1>9, Balance

(* Orders that start, fly or arrive without a counter but inFlight.        *)
LEMMA AcceptMetric ==
    ASSUME IsFiniteSet(Orders), Typed, MetricInv, NEW o \in Orders, Accept(o)
    PROVE  MetricInv'
<1>1. PICK pc \in {"sleep", "fail?"} : Becomes(o, Moved(o, pc, order[o].code))
    BY AcceptDoes
<1>2. PICK p \in Pods : p = order[o].pod
    BY AcceptDoes
<1>3. /\ metric' = [metric EXCEPT ![p].inFlight = @ + 1]
      /\ order[o].pc = "enter" /\ metric' \in [Pods -> Metrics]
      /\ metric \in [Pods -> Metrics]
    BY <1>2, AcceptDoes, OrderTyped
<1> DEFINE r == Moved(o, pc, order[o].code)
<1>4. r.pc \in {"sleep", "fail?"} /\ r.pod = p
    BY <1>2 DEF Moved
<1>5. Becomes(o, r)
    BY <1>1
<1> HIDE DEF r
<1>6. Elsewhere(order[o], p) /\ Elsewhere(r, p)
    BY <1>2, <1>4 DEF Elsewhere, Flying, Pending
<1>7. /\ ~Flying(order[o], p) /\ ~Pending(order[o], p, 201) /\ ~Pending(order[o], p, 500)
      /\ Flying(r, p) /\ ~Pending(r, p, 201) /\ ~Pending(r, p, 500)
    BY <1>3, <1>4 DEF Flying, Pending
<1>8. /\ metric'[p] = [metric[p] EXCEPT !.inFlight = @ + 1]
      /\ \A q \in Pods : q # p => metric'[q] = metric[q]
      /\ metric[p] \in Metrics /\ metric'[p] \in Metrics
    BY <1>3
<1>9. Shift(metric[p], metric'[p], order[o], r, p)
    BY <1>7, <1>8 DEF Shift, One, Metrics
<1>10. metric' \in [Pods -> Metrics]
    BY <1>3
<1>11. QED
    BY <1>5, <1>6, <1>8, <1>9, <1>10, Balance

(* A step between two points of the flight changes no metric.              *)
LEMMA FlyOn ==
    ASSUME IsFiniteSet(Orders), Typed, MetricInv, NEW o \in Orders,
           NEW p \in Pods, NEW r, Becomes(o, r), UNCHANGED metric,
           order[o].pod = p, order[o].pc \in {"sleep", "asleep", "fail?"},
           r.pod = p, r.pc \in {"asleep", "draw"}
    PROVE  MetricInv'
<1>1. Elsewhere(order[o], p) /\ Elsewhere(r, p)
    BY DEF Elsewhere, Flying, Pending
<1>2. /\ Flying(order[o], p) /\ ~Pending(order[o], p, 201) /\ ~Pending(order[o], p, 500)
      /\ Flying(r, p) /\ ~Pending(r, p, 201) /\ ~Pending(r, p, 500)
    BY DEF Flying, Pending
<1>3. metric \in [Pods -> Metrics] /\ metric[p] \in Metrics
    BY OrderTyped
<1>4. Shift(metric[p], metric[p], order[o], r, p)
    BY <1>2, <1>3 DEF Shift, One, Metrics
<1>5. QED
    BY <1>1, <1>3, <1>4, Balance

(* The outcome of an order is counted once, where it is decided.           *)
LEMMA OutcomeMetric ==
    ASSUME IsFiniteSet(Orders), Typed, MetricInv, NEW o \in Orders,
           order[o].pod \in Pods, order[o].pc \in {"asleep", "fail?", "draw"},
           metric' \in [Pods -> Metrics], Succeeds(o) \/ Fails(o)
    PROVE  MetricInv'
<1>1. PICK p \in Pods : p = order[o].pod
    OBVIOUS
<1>2. PICK code \in {201, 500} :
          /\ Becomes(o, Moved(o, "return", code))
          /\ code = 201 => metric' = [metric EXCEPT ![p].created = @ + 1]
          /\ code = 500 => metric' = [metric EXCEPT ![p].failed = @ + 1]
    BY <1>1 DEF Succeeds, Fails
<1> DEFINE r == Moved(o, "return", code)
<1>3. r.pc = "return" /\ r.pod = p /\ r.code = code
    BY <1>1 DEF Moved
<1>4. Becomes(o, r)
    BY <1>2
<1> HIDE DEF r
<1>5. Elsewhere(order[o], p) /\ Elsewhere(r, p)
    BY <1>1, <1>3 DEF Elsewhere, Flying, Pending
<1>6. /\ Flying(order[o], p) /\ ~Pending(order[o], p, 201) /\ ~Pending(order[o], p, 500)
      /\ Flying(r, p)
    BY <1>1, <1>3 DEF Flying, Pending
<1>7. metric \in [Pods -> Metrics]
    BY OrderTyped
<1>8. CASE code = 201
    <2>1. /\ metric'[p] = [metric[p] EXCEPT !.created = @ + 1]
          /\ \A q \in Pods : q # p => metric'[q] = metric[q]
          /\ metric[p] \in Metrics
        BY <1>2, <1>7, <1>8
    <2>2. Pending(r, p, 201) /\ ~Pending(r, p, 500)
        BY <1>3, <1>8 DEF Pending
    <2>3. Shift(metric[p], metric'[p], order[o], r, p)
        BY <1>6, <2>1, <2>2 DEF Shift, One, Metrics
    <2>4. QED
        BY <1>4, <1>5, <2>1, <2>3, Balance
<1>9. CASE code = 500
    <2>1. /\ metric'[p] = [metric[p] EXCEPT !.failed = @ + 1]
          /\ \A q \in Pods : q # p => metric'[q] = metric[q]
          /\ metric[p] \in Metrics
        BY <1>2, <1>7, <1>9
    <2>2. ~Pending(r, p, 201) /\ Pending(r, p, 500)
        BY <1>3, <1>9 DEF Pending
    <2>3. Shift(metric[p], metric'[p], order[o], r, p)
        BY <1>6, <2>1, <2>2 DEF Shift, One, Metrics
    <2>4. QED
        BY <1>4, <1>5, <2>1, <2>3, Balance
<1>10. QED
    BY <1>8, <1>9

LEMMA ReturnMetric ==
    ASSUME IsFiniteSet(Orders), Typed, MetricInv, NEW o \in Orders, Return(o)
    PROVE  MetricInv'
<1>1. PICK p \in Pods : p = order[o].pod
    BY ReturnDoes
<1>2. /\ metric' = [metric EXCEPT ![p].inFlight = @ - 1]
      /\ order[o].pc = "return" /\ metric' \in [Pods -> Metrics]
      /\ metric \in [Pods -> Metrics]
    BY <1>1, ReturnDoes, OrderTyped
<1> DEFINE r == Moved(o, "count", order[o].code)
<1>3. r.pc = "count" /\ r.pod = p /\ r.code = order[o].code
    BY <1>1 DEF Moved
<1>4. Becomes(o, r)
    BY ReturnDoes
<1> HIDE DEF r
<1>5. Elsewhere(order[o], p) /\ Elsewhere(r, p)
    BY <1>1, <1>3 DEF Elsewhere, Flying, Pending
<1>6. /\ Flying(order[o], p) /\ ~Flying(r, p)
      /\ Pending(r, p, 201) <=> Pending(order[o], p, 201)
      /\ Pending(r, p, 500) <=> Pending(order[o], p, 500)
    BY <1>1, <1>2, <1>3 DEF Flying, Pending
<1>7. /\ metric'[p] = [metric[p] EXCEPT !.inFlight = @ - 1]
      /\ \A q \in Pods : q # p => metric'[q] = metric[q]
      /\ metric[p] \in Metrics
    BY <1>2
<1>8. Shift(metric[p], metric'[p], order[o], r, p)
    <2> DEFINE m == metric[p]
               n == metric'[p]
    <2>1. /\ m.inFlight \in Int /\ m.created \in Nat /\ m.failed \in Nat
          /\ m.code201 \in Nat /\ m.code500 \in Nat
          /\ n.inFlight = m.inFlight - 1
          /\ n.created = m.created /\ n.failed = m.failed
          /\ n.code201 = m.code201 /\ n.code500 = m.code500
        BY <1>7 DEF Metrics
    <2> HIDE DEF m, n
    <2>2. Shift(m, n, order[o], r, p)
        BY <1>6, <2>1 DEF Shift, One
    <2>3. QED
        BY <2>2 DEF m, n
<1>9. metric' \in [Pods -> Metrics]
    BY <1>2
<1>10. QED
    BY <1>4, <1>5, <1>7, <1>8, <1>9, Balance

LEMMA CountMetric ==
    ASSUME IsFiniteSet(Orders), Typed, MetricInv, NEW o \in Orders, Count(o)
    PROVE  MetricInv'
<1>1. PICK p \in Pods : p = order[o].pod
    BY CountDoes
<1>2. /\ metric' = [metric EXCEPT ![p] = CodeCounted(@, order[o].code)]
      /\ order[o].pc = "count" /\ metric' \in [Pods -> Metrics]
      /\ metric \in [Pods -> Metrics]
    BY <1>1, CountDoes, OrderTyped
<1> DEFINE r == EndedOrder("answered")
<1>3. r.pc = "answered"
    BY DEF EndedOrder
<1>4. Becomes(o, r)
    BY CountDoes
<1> HIDE DEF r
<1>5. Elsewhere(order[o], p) /\ Elsewhere(r, p)
    BY <1>1, <1>3 DEF Elsewhere, Flying, Pending
<1>6. order[o].code \in {201, 405, 500}
    BY <1>2 DEF Typed, Coded, HasCode
<1>7. /\ ~Flying(order[o], p) /\ ~Flying(r, p)
      /\ Pending(order[o], p, 201) <=> order[o].code = 201
      /\ Pending(order[o], p, 500) <=> order[o].code = 500
      /\ ~Pending(r, p, 201) /\ ~Pending(r, p, 500)
    BY <1>1, <1>2, <1>3 DEF Flying, Pending
<1>8. /\ metric'[p] = CodeCounted(metric[p], order[o].code)
      /\ \A q \in Pods : q # p => metric'[q] = metric[q]
      /\ metric[p] \in Metrics
    BY <1>2
<1>9. Shift(metric[p], metric'[p], order[o], r, p)
    BY <1>6, <1>7, <1>8 DEF Shift, One, Metrics, CodeCounted
<1>10. metric' \in [Pods -> Metrics]
    BY <1>2
<1>11. QED
    BY <1>4, <1>5, <1>8, <1>9, <1>10, Balance

(* An order that arrives, or is refused, has passed no counter yet.        *)
LEMMA SendOrderMetric ==
    ASSUME IsFiniteSet(Orders), Typed, MetricInv, NEW o \in Orders, NEW p \in Pods,
           SendOrder(o, p)
    PROVE  MetricInv'
<1>1. PICK r : Becomes(o, r) /\ r.pc \in {"enter", "refused"}
    <2>1. Arriving(p).pc = "enter" /\ EndedOrder("refused").pc = "refused"
        BY DEF Arriving, EndedOrder
    <2>2. Becomes(o, Arriving(p)) \/ Becomes(o, EndedOrder("refused"))
        BY SendOrderDoes
    <2>3. QED
        BY <2>1, <2>2
<1>2. metric' = metric /\ metric \in [Pods -> Metrics] /\ order[o].pc = "new"
    BY SendOrderDoes, OrderTyped
<1>3. Elsewhere(order[o], p) /\ Elsewhere(r, p)
    BY <1>1, <1>2 DEF Elsewhere, Flying, Pending
<1>4. /\ ~Flying(order[o], p) /\ ~Pending(order[o], p, 201) /\ ~Pending(order[o], p, 500)
      /\ ~Flying(r, p) /\ ~Pending(r, p, 201) /\ ~Pending(r, p, 500)
    BY <1>1, <1>2 DEF Flying, Pending
<1>5. metric[p] \in Metrics
    BY <1>2
<1>6. Shift(metric[p], metric[p], order[o], r, p)
    BY <1>4, <1>5 DEF Shift, One, Metrics
<1>7. QED
    BY <1>1, <1>2, <1>3, <1>6, Balance

LEMMA OrderMetric ==
    ASSUME IsFiniteSet(Orders), Typed, MetricInv, NEW o \in Orders, OrderStep(o)
    PROVE  MetricInv'
<1>1. CASE Sleep(o)
    <2>1. PICK sec \in Nat : Becomes(o, Sleeping(o, sec))
        BY <1>1, SleepDoes
    <2>2. /\ Sleeping(o, sec).pc = "asleep" /\ Sleeping(o, sec).pod = order[o].pod
          /\ order[o].pc = "sleep" /\ order[o].pod \in Pods /\ metric' = metric
        BY <1>1, SleepDoes DEF Sleeping
    <2>3. QED
        BY <2>1, <2>2, FlyOn
<1>2. CASE CheckFailRate(o)
    <2>1. /\ order[o].pod \in Pods /\ order[o].pc \in {"asleep", "fail?"}
          /\ metric' \in [Pods -> Metrics]
          /\ \/ metric' = metric /\ Becomes(o, Moved(o, "draw", order[o].code))
             \/ Succeeds(o)
        BY <1>2, CheckFailRateDoes
    <2>2. CASE metric' = metric /\ Becomes(o, Moved(o, "draw", order[o].code))
        <3>1. /\ Moved(o, "draw", order[o].code).pc = "draw"
              /\ Moved(o, "draw", order[o].code).pod = order[o].pod
            BY DEF Moved
        <3>2. QED
            BY <2>1, <2>2, <3>1, FlyOn
    <2>3. QED
        BY <2>1, <2>2, OutcomeMetric
<1>3. CASE Draw(o)
    <2>1. /\ order[o].pod \in Pods /\ order[o].pc = "draw"
          /\ metric' \in [Pods -> Metrics] /\ (Succeeds(o) \/ Fails(o))
        BY <1>3, DrawDoes
    <2>2. QED
        BY <2>1, OutcomeMetric
<1>4. QED
    BY <1>1, <1>2, <1>3, TurnAwayMetric, AcceptMetric, ReturnMetric, CountMetric
       DEF OrderStep

(* A process ends with its orders and its registry.                        *)
LEMMA EndProcessMetric ==
    ASSUME IsFiniteSet(Orders), Typed, MetricInv, NEW p \in Pods,
           NEW pc \in {"cut", "lost"}, EndProcess(p, pc)
    PROVE  MetricInv'
<1>1. ASSUME NEW o \in Orders
      PROVE  \/ order'[o] = order[o] /\ ~(order[o].pod = p /\ order[o].pc \in Running)
             \/ /\ order[o].pod = p /\ order[o].pc \in Running
                /\ order'[o].pod = p /\ order'[o].pc = pc
    BY DEF EndProcess, Within, Moved
<1>2. pc \notin Running
    BY DEF Running
<1>3. ASSUME NEW q \in Pods
      PROVE  Balanced(metric'[q], NFlying(q)', NPending(q, 201)', NPending(q, 500)')
    <2>1. CASE q = p
        <3>1. \A o \in Orders : ~(order'[o].pod = q /\ order'[o].pc \in Running)
            BY <1>1, <1>2, <2>1
        <3>2. /\ {o \in Orders : Flying(order[o], q)}' = {}
              /\ {o \in Orders : Pending(order[o], q, 201)}' = {}
              /\ {o \in Orders : Pending(order[o], q, 500)}' = {}
            BY <3>1 DEF Flying, Pending, Running
        <3>3. NFlying(q)' = 0 /\ NPending(q, 201)' = 0 /\ NPending(q, 500)' = 0
            BY <3>2, FS_EmptySet DEF NFlying, NPending
        <3>4. metric'[q] = NoMetrics
            BY <2>1 DEF EndProcess, Typed, TypeOK
        <3>5. QED
            BY <3>3, <3>4 DEF NoMetrics, Balanced
    <2>2. CASE q # p
        <3>1. \A o \in Orders : order'[o] = order[o]
                                 \/ (order[o].pod = p /\ order'[o].pod = p)
            BY <1>1
        <3>2. /\ {o \in Orders : Flying(order[o], q)}' = {o \in Orders : Flying(order[o], q)}
              /\ {o \in Orders : Pending(order[o], q, 201)}'
                    = {o \in Orders : Pending(order[o], q, 201)}
              /\ {o \in Orders : Pending(order[o], q, 500)}'
                    = {o \in Orders : Pending(order[o], q, 500)}
            BY <2>2, <3>1 DEF Flying, Pending
        <3>3. /\ NFlying(q)' = NFlying(q) /\ NPending(q, 201)' = NPending(q, 201)
              /\ NPending(q, 500)' = NPending(q, 500)
            BY <3>2 DEF NFlying, NPending
        <3>4. metric'[q] = metric[q]
            BY <2>2 DEF EndProcess, Typed, TypeOK
        <3>5. QED
            BY <3>3, <3>4 DEF MetricInv
    <2>3. QED
        BY <2>1, <2>2
<1>4. QED
    BY <1>3 DEF MetricInv, Balanced

LEMMA MetricInvKept ==
    ASSUME MetricInv, UNCHANGED <<metric, order>>
    PROVE  MetricInv'
<1>1. ASSUME NEW p \in Pods
      PROVE  NFlying(p)' = NFlying(p) /\ NPending(p, 201)' = NPending(p, 201)
             /\ NPending(p, 500)' = NPending(p, 500)
    BY DEF NFlying, NPending, Flying, Pending
<1>2. QED
    BY <1>1 DEF MetricInv, Balanced

LEMMA MetricInvStep ==
    ASSUME IsFiniteSet(Orders)
    PROVE  Typed /\ MetricInv /\ [Next]_vars => MetricInv'
<1> SUFFICES ASSUME Typed, MetricInv, [Next]_vars PROVE MetricInv'
    OBVIOUS
<1>1. ASSUME NEW p \in Pods, Exit(p) \/ Kill(p) PROVE MetricInv'
    BY <1>1, EndProcessMetric DEF Exit, Kill
<1>2. ASSUME NEW p \in Pods, Start(p) \/ Probe(p) \/ Terminate(p) \/ RemoveEndpoint(p)
      PROVE  MetricInv'
    BY <1>2, MetricInvKept DEF Start, Probe, Terminate, RemoveEndpoint
<1>3. ASSUME NEW p \in Pods, NEW c \in Calls, NEW asked \in Asked, SendCall(c, p, asked)
      PROVE  MetricInv'
    BY <1>3, MetricInvKept DEF SendCall
<1>4. ASSUME NEW c \in Calls, SetFault(c) PROVE MetricInv'
    BY <1>4, MetricInvKept DEF SetFault
<1>5. CASE Tick \/ UNCHANGED vars
    BY <1>5, MetricInvKept DEF Tick, vars
<1>6. QED
    BY <1>1, <1>2, <1>3, <1>4, <1>5, SendOrderMetric, OrderMetric DEF Next, RequestStep

(* For any finite number of orders: what the registry of a pod without     *)
(* orders says of those it had agrees.                                     *)
THEOREM MetricsKept == ASSUME IsFiniteSet(Orders) PROVE Spec => []MetricsAgree
<1>1. Init => Typed /\ MetricInv
    BY TypedInit, MetricInvInit
<1>2. Typed /\ MetricInv /\ [Next]_vars => (Typed /\ MetricInv)'
    BY TypedStep, MetricInvStep
<1>3. Typed /\ MetricInv => MetricsAgree
    BY MetricInvImplies
<1>4. QED
    BY <1>1, <1>2, <1>3, PTL DEF Spec

=============================================================================
