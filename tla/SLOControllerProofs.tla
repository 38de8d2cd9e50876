------------------------- MODULE SLOControllerProofs -------------------------
(***************************************************************************)
(* Proofs about SLOController and the rules it derives.                    *)
(***************************************************************************)
EXTENDS SLOController, TLAPS

-----------------------------------------------------------------------------
(* Rules derived from one spec.                                            *)

(* An entry of a list of rules is a rule of the SLO at its position.       *)
LEMMA RecordingEntry ==
    ASSUME NEW s, NEW v
    PROVE  /\ \A k \in DOMAIN v : \A r \in ItemRecordingRules(s, v[k]) :
                 << k, r >> \in buildRecordingRules(s, v)
           /\ \A e \in buildRecordingRules(s, v) :
                 /\ e[1] \in DOMAIN v /\ e[2] \in ItemRecordingRules(s, v[e[1]])
                 /\ e = << e[1], e[2] >>
<1>1. ASSUME NEW k \in DOMAIN v, NEW r \in ItemRecordingRules(s, v[k])
      PROVE  << k, r >> \in buildRecordingRules(s, v)
    <2>1. << k, r >> \in {k} \X ItemRecordingRules(s, v[k])
        OBVIOUS
    <2> QED
        BY <2>1 DEF buildRecordingRules
<1>2. ASSUME NEW e \in buildRecordingRules(s, v)
      PROVE  /\ e[1] \in DOMAIN v /\ e[2] \in ItemRecordingRules(s, v[e[1]])
             /\ e = << e[1], e[2] >>
    <2>1. PICK k \in DOMAIN v : e \in {k} \X ItemRecordingRules(s, v[k])
        BY DEF buildRecordingRules
    <2>2. PICK r \in ItemRecordingRules(s, v[k]) : e = << k, r >>
        BY <2>1
    <2> QED
        BY <2>2
<1> QED
    BY <1>1, <1>2

(* The name that alert expressions use is one that recording rules use.    *)
LEMMA BurnRateRecorded ==
    ASSUME NEW s \in CRs, NEW v, NEW i \in Items(v), HasSLI(i), NEW w \in RecordingWindows
    PROVE  BurnSeries(s, i, w) \in Recorded(s, v)
<1>1. \A r \in ItemRecordingRules(s, i) : r.name \in Recorded(s, v)
    <2>1. PICK k \in DOMAIN v : i = v[k]
        BY DEF Items
    <2> SUFFICES ASSUME NEW r \in ItemRecordingRules(s, i) PROVE r.name \in Recorded(s, v)
        OBVIOUS
    <2>2. << k, r >> \in buildRecordingRules(s, v) /\ << k, r >>[2] = r
        BY <2>1, RecordingEntry
    <2>3. r \in Rules(buildRecordingRules(s, v))
        BY <2>2 DEF Rules
    <2> QED
        BY <2>3 DEF Recorded
<1>2. CASE i.events.on
    <2> DEFINE r == Rule(Series(s, "burn_rate", w), {Series(s, "error_ratio", w)}, "good",
                         allowedErrorRatio(i.objective))
    <2>1. r \in EventRules(s, i, w)
        BY DEF EventRules
    <2>2. r \in ItemRecordingRules(s, i)
        BY <1>2, <2>1 DEF ItemRecordingRules
    <2>3. r.name = BurnSeries(s, i, w)
        BY <1>2 DEF Rule, BurnSeries
    <2>4. QED
        BY <1>1, <2>2, <2>3
<1>3. CASE ~i.events.on
    <2> DEFINE r == Rule(NamedSeries(s, "burn_rate_", i, w),
                         {NamedSeries(s, "error_ratio_", i, w)}, "good",
                         allowedErrorRatio(i.objective))
    <2>1. i.raw.on
        BY <1>3 DEF HasSLI
    <2>2. r \in RawRules(s, i, w)
        BY DEF RawRules
    <2>3. r \in ItemRecordingRules(s, i)
        BY <2>1, <2>2 DEF ItemRecordingRules
    <2>4. r.name = BurnSeries(s, i, w)
        BY <1>3 DEF Rule, BurnSeries
    <2>5. QED
        BY <1>1, <2>3, <2>4
<1>4. QED
    BY <1>2, <1>3

(* Every series an alert of the spec reads is recorded by its rules.       *)
LEMMA AlertsReadRecorded ==
    ASSUME NEW s \in CRs, NEW v, \A i \in Items(v) : HasSLI(i) /\ WindowsRecorded(i)
    PROVE  \A a \in Rules(buildAlertRules(s, v)) : a.reads \subseteq Recorded(s, v)
<1> SUFFICES ASSUME NEW i \in Items(v), NEW a \in ItemAlertRules(s, i)
             PROVE  a.reads \subseteq Recorded(s, v)
    <2>1. ASSUME NEW e \in buildAlertRules(s, v)
          PROVE  \E i \in Items(v) : e[2] \in ItemAlertRules(s, i)
        <3>1. PICK k \in DOMAIN v : e \in {k} \X ItemAlertRules(s, v[k])
            BY DEF buildAlertRules
        <3> QED
            BY <3>1 DEF Items
    <2> QED
        BY <2>1 DEF Rules
<1>1. HasSLI(i) /\ WindowsRecorded(i)
    OBVIOUS
<1>2. \A w \in RecordingWindows : BurnSeries(s, i, w) \in Recorded(s, v)
    BY <1>1, BurnRateRecorded
<1>3. CASE a \in PageRules(s, i)
    <2>1. i.page.on
        BY <1>3 DEF PageRules
    <2>2. nonEmptyWindows(i.page.windows, {"5m", "1h"}) \subseteq RecordingWindows
        BY <1>1, <2>1 DEF WindowsRecorded, nonEmptyWindows, RecordingWindows
    <2>3. a.reads = {BurnSeries(s, i, w) : w \in nonEmptyWindows(i.page.windows, {"5m", "1h"})}
        BY <1>3 DEF PageRules, AlertRule
    <2>4. QED
        BY <1>2, <2>2, <2>3
<1>4. CASE a \in TicketRules(s, i)
    <2>1. i.ticket.on
        BY <1>4 DEF TicketRules
    <2>2. nonEmptyWindows(i.ticket.windows, {"30m", "6h"}) \subseteq RecordingWindows
        BY <1>1, <2>1 DEF WindowsRecorded, nonEmptyWindows, RecordingWindows
    <2>3. a.reads = {BurnSeries(s, i, w) : w \in nonEmptyWindows(i.ticket.windows, {"30m", "6h"})}
        BY <1>4 DEF TicketRules, AlertRule
    <2>4. QED
        BY <1>2, <2>2, <2>3
<1>5. CASE a \in BudgetRules(s, i)
    <2>1. i.events.on /\ a.reads = {Series(s, "burn_rate", "1d")}
        BY <1>5 DEF BudgetRules, AlertRule
    <2>2. BurnSeries(s, i, "1d") = Series(s, "burn_rate", "1d")
        BY <2>1 DEF BurnSeries
    <2>3. QED
        BY <1>2, <2>1, <2>2 DEF RecordingWindows
<1>6. QED
    BY <1>3, <1>4, <1>5 DEF ItemAlertRules

(* A recording rule is of one of three forms, told apart by its name.      *)
LEMMA RecordingForms ==
    ASSUME NEW s, NEW i, NEW r \in ItemRecordingRules(s, i)
    PROVE  \/ i.events.on /\ \E w \in RecordingWindows : r \in EventRules(s, i, w)
           \/ i.raw.on /\ \E w \in RecordingWindows : r \in RawRules(s, i, w)
           \/ r = LatencyRule(s)
    BY DEF ItemRecordingRules

(* What is so of the rules of each SLO is so of those of the spec.         *)
LEMMA RulesOfItems ==
    ASSUME NEW s, NEW v, NEW r \in Rules(buildRecordingRules(s, v))
    PROVE  \E i \in Items(v) : r \in ItemRecordingRules(s, i)
<1>1. PICK e \in buildRecordingRules(s, v) : r = e[2]
    BY DEF Rules
<1> QED
    BY <1>1, RecordingEntry DEF Items

(* An admitted objective below 100 percent allows some errors.             *)
LEMMA DivisorsPositive ==
    ASSUME NEW s \in CRs, NEW v, validateSLO(v), \A i \in Items(v) : i.objective # 1000
    PROVE  \A r \in Rules(buildRecordingRules(s, v)) : r.divisor # 0
<1> SUFFICES ASSUME NEW r \in Rules(buildRecordingRules(s, v)) PROVE r.divisor # 0
    OBVIOUS
<1>1. PICK i \in Items(v) :
        \/ \E w \in RecordingWindows : r \in EventRules(s, i, w) \cup RawRules(s, i, w)
        \/ r = LatencyRule(s)
    BY RulesOfItems, RecordingForms
<1>2. allowedErrorRatio(i.objective) # 0 /\ Undivided # 0
    <2>1. ValidItem(i)
        BY DEF validateSLO
    <2>2. i.objective \in 0..1000
        BY <2>1, Zenon DEF ValidItem
    <2>3. i.objective # 1000
        OBVIOUS
    <2>4. QED
        BY <2>2, <2>3 DEF allowedErrorRatio, Undivided
<1>3. \A w : \A x \in EventRules(s, i, w) : x.divisor # 0
    BY <1>2 DEF EventRules, Rule
<1>4. \A w : \A x \in RawRules(s, i, w) : x.divisor # 0
    BY <1>2 DEF RawRules, Rule
<1>5. LatencyRule(s).divisor # 0
    BY <1>2 DEF LatencyRule, Rule
<1>6. QED
    BY <1>1, <1>3, <1>4, <1>5

(* Rules that record one series are one rule, of one SLO, unless they are  *)
(* the rule that all latency SLOs share.                                   *)
LEMMA SeriesRecordedOnce ==
    ASSUME NEW s \in CRs, NEW v, Distinct(v)
    PROVE  \A e, f \in buildRecordingRules(s, v) : e[2].name = f[2].name =>
               e = f \/ (e[2] = LatencyRule(s) /\ f[2] = LatencyRule(s))
<1> SUFFICES ASSUME NEW e \in buildRecordingRules(s, v), NEW f \in buildRecordingRules(s, v),
                    e[2].name = f[2].name
             PROVE  e = f \/ (e[2] = LatencyRule(s) /\ f[2] = LatencyRule(s))
    OBVIOUS
<1> DEFINE r == e[2]  q == f[2]
           k == e[1]  l == f[1]
           i == v[k]  j == v[l]
<1>0. /\ k \in DOMAIN v /\ r \in ItemRecordingRules(s, i) /\ e = << k, r >>
      /\ l \in DOMAIN v /\ q \in ItemRecordingRules(s, j) /\ f = << l, q >>
      /\ r.name = q.name
    BY RecordingEntry
<1> HIDE DEF r, q, k, l
<1> SUFFICES (r = q /\ k = l) \/ (r = LatencyRule(s) /\ q = LatencyRule(s))
    BY <1>0 DEF r, q
<1> DEFINE Kinds == [events |-> {"request_rate", "error_rate", "error_ratio", "burn_rate"},
                     raw    |-> {"error_ratio_", "burn_rate_"}]
<1>1. \A m, w : \A x \in EventRules(s, m, w) : x.name[2] \in Kinds.events /\ x.name[4] = w
    <2> SUFFICES ASSUME NEW m, NEW w, NEW x \in EventRules(s, m, w)
                 PROVE  x.name[2] \in Kinds.events /\ x.name[4] = w
        OBVIOUS
    <2>1. PICK kind \in Kinds.events : x.name = Series(s, kind, w)
        BY DEF EventRules, Rule
    <2>2. Series(s, kind, w)[2] = kind /\ Series(s, kind, w)[4] = w
        BY DEF Series
    <2>3. QED
        BY <2>1, <2>2
<1>2. \A m, w : \A x \in RawRules(s, m, w) :
        x.name[2] \in Kinds.raw /\ x.name[3] = sanitize(m.name) /\ x.name[4] = w
    BY DEF RawRules, Rule, NamedSeries
<1>3. LatencyRule(s).name[2] = "latency_p99_5m"
    BY DEF LatencyRule, Rule, Series
<1>4. \/ i.events.on /\ \E w \in RecordingWindows : r \in EventRules(s, i, w)
      \/ i.raw.on /\ \E w \in RecordingWindows : r \in RawRules(s, i, w)
      \/ r = LatencyRule(s)
    BY <1>0, RecordingForms
<1>5. \/ j.events.on /\ \E w \in RecordingWindows : q \in EventRules(s, j, w)
      \/ j.raw.on /\ \E w \in RecordingWindows : q \in RawRules(s, j, w)
      \/ q = LatencyRule(s)
    BY <1>0, RecordingForms
<1>6. CASE r = LatencyRule(s)
    BY <1>0, <1>1, <1>2, <1>3, <1>5, <1>6
<1>7. ASSUME NEW w \in RecordingWindows, i.events.on, r \in EventRules(s, i, w)
      PROVE  r = q /\ k = l
    <2>1. PICK u \in RecordingWindows : j.events.on /\ q \in EventRules(s, j, u)
        BY <1>0, <1>1, <1>2, <1>3, <1>5, <1>7
    <2>2. k = l /\ u = w
        BY <1>0, <1>1, <1>7, <2>1 DEF Distinct
    <2>3. QED
        <3>1. /\ r \in EventRules(s, i, w) /\ q \in EventRules(s, i, w)
              /\ r.name[2] = q.name[2]
            BY <1>0, <1>7, <2>1, <2>2
        <3>2. \A x \in EventRules(s, i, w) :
                 \/ x.name[2] = "request_rate" /\ x = Rule(Series(s, "request_rate", w), {}, renderQuery(i.events.total), Undivided)
                 \/ x.name[2] = "error_rate" /\ x = Rule(Series(s, "error_rate", w), {}, renderQuery(i.events.error), Undivided)
                 \/ /\ x.name[2] = "error_ratio"
                    /\ x = Rule(Series(s, "error_ratio", w),
                                {Series(s, "error_rate", w), Series(s, "request_rate", w)}, "good", Undivided)
                 \/ /\ x.name[2] = "burn_rate"
                    /\ x = Rule(Series(s, "burn_rate", w), {Series(s, "error_ratio", w)}, "good",
                                allowedErrorRatio(i.objective))
            <4>1. \A kind, reads, query, divisor :
                     Rule(Series(s, kind, w), reads, query, divisor).name[2] = kind
                BY DEF Rule, Series
            <4>2. QED
                BY <4>1 DEF EventRules
        <3>3. QED
            BY <2>2, <3>1, <3>2
<1>8. ASSUME NEW w \in RecordingWindows, i.raw.on, r \in RawRules(s, i, w)
      PROVE  r = q /\ k = l
    <2>1. PICK u \in RecordingWindows : j.raw.on /\ q \in RawRules(s, j, u)
        BY <1>0, <1>1, <1>2, <1>3, <1>5, <1>8
    <2>2. k = l /\ u = w
        BY <1>0, <1>2, <1>8, <2>1 DEF Distinct
    <2>3. QED
        BY <1>0, <1>8, <2>1, <2>2 DEF RawRules, Rule, NamedSeries
<1>9. QED
    BY <1>4, <1>6, <1>7, <1>8

(* No rule of an admitted spec whose queries parse has an empty expression.*)
LEMMA ExpressionsRendered ==
    ASSUME NEW s \in CRs, NEW v, validateSLO(v), \A i \in Items(v) : Parses(i)
    PROVE  \A r \in Rules(buildRecordingRules(s, v)) : r.query # "empty"
<1> SUFFICES ASSUME NEW i \in Items(v), NEW r \in ItemRecordingRules(s, i)
             PROVE  r.query # "empty"
    BY RulesOfItems
<1>1. ValidItem(i) /\ Parses(i)
    BY DEF validateSLO
<1>2. ASSUME NEW w \in RecordingWindows, i.events.on, r \in EventRules(s, i, w)
      PROVE  r.query # "empty"
    <2>1. renderQuery(i.events.error) # "empty" /\ renderQuery(i.events.total) # "empty"
        BY <1>1, <1>2 DEF ValidItem, Parses, renderQuery
    <2>2. QED
        BY <1>2, <2>1 DEF EventRules, Rule
<1>3. ASSUME NEW w \in RecordingWindows, i.raw.on, r \in RawRules(s, i, w)
      PROVE  r.query # "empty"
    <2>1. renderQuery(i.raw.ratio) # "empty"
        BY <1>1, <1>3 DEF ValidItem, Parses, renderQuery, HasWindow
    <2>2. QED
        BY <1>3, <2>1 DEF RawRules, Rule
<1>4. CASE r = LatencyRule(s)
    BY <1>4 DEF LatencyRule, Rule
<1>5. QED
    BY <1>2, <1>3, <1>4 DEF ItemRecordingRules

-----------------------------------------------------------------------------
(* Type correctness.                                                       *)

LEMMA AgingTyped ==
    ASSUME TypeOK
    PROVE  /\ \A s \in CRs : AgePR(s) => prSeen' \in [Ops -> [CRs -> Marks]]
           /\ AgeCM => cmSeen' \in [Ops -> Marks]
<1>1. \A mark \in Marks : Aged(mark) \in Marks
    BY DEF Aged, Marks
<1>2. ASSUME NEW s \in CRs, AgePR(s) PROVE prSeen' \in [Ops -> [CRs -> Marks]]
    <2>1. \A o \in Ops : prSeen[o] \in [CRs -> Marks]
        BY DEF TypeOK
    <2>2. \A o \in Ops : [prSeen[o] EXCEPT ![s] = Aged(@)] \in [CRs -> Marks]
        BY <1>1, <2>1
    <2>3. QED
        BY <1>2, <2>2 DEF AgePR
<1>3. ASSUME AgeCM PROVE cmSeen' \in [Ops -> Marks]
    BY <1>1, <1>3 DEF AgeCM, TypeOK
<1>4. QED
    BY <1>2, <1>3

LEMMA TypeInit == Init => TypeOK
<1> SUFFICES ASSUME Init PROVE TypeOK
    OBVIOUS
<1>1. edits \in 0..MaxEdits /\ crashes \in 0..MaxCrashes
    BY BoundsAssumption DEF Init
<1>2. /\ proc \in [Ops -> {"down", "starting", "running"}]
      /\ prSeen \in [Ops -> [CRs -> Marks]]
      /\ cmSeen \in [Ops -> Marks]
    BY DEF Init, Marks
<1>3. /\ cr \in [CRs -> Objects \cup {None}]
      /\ pr \in [CRs -> PrometheusRules \cup {None}]
      /\ crSeen \in [Ops -> [CRs -> Objects \cup {None}]]
      /\ work \in [Ops -> Works \cup {None}]
    BY DEF Init
<1>4. /\ crNews \in [Ops -> SUBSET CRs]
      /\ queue \in [Ops -> SUBSET CRs]
      /\ cm \in (CRs \X Specs) \cup {None, Handwritten}
      /\ crd \in BOOLEAN /\ prWritable \in BOOLEAN
    BY DEF Init
<1>5. /\ versions \in SUBSET [cr : CRs, gen : 1..MaxEdits, spec : Specs]
      /\ reached \in [CRs -> 0..MaxEdits]
    BY BoundsAssumption DEF Init
<1>6. QED
    BY <1>1, <1>2, <1>3, <1>4, <1>5 DEF TypeOK

(* One step per action, and under it the variables the action assigns.     *)
LEMMA TypeStep == TypeOK /\ [Next]_vars => TypeOK'
<1> SUFFICES ASSUME TypeOK, [Next]_vars PROVE TypeOK'
    OBVIOUS
<1> USE DEF TypeOK, history
<1>1. ASSUME NEW s \in CRs, NEW v \in Specs, Apply(s, v) PROVE TypeOK'
    <2>1. edits \in 0..MaxEdits /\ edits' \in 0..MaxEdits /\ edits + 1 \in 1..MaxEdits
        BY <1>1, BoundsAssumption DEF Apply
    <2>2. [uid |-> edits, gen |-> edits + 1, spec |-> v] \in Objects
        BY <2>1 DEF Objects
    <2>3. cr[s] # None => [uid |-> cr[s].uid, gen |-> edits + 1, spec |-> v] \in Objects
        BY <2>1 DEF Objects
    <2>4. cr' \in [CRs -> Objects \cup {None}]
        <3>1. CASE cr[s] = None
            BY <1>1, <2>2, <3>1 DEF Apply
        <3>2. CASE cr[s] # None
            BY <1>1, <2>3, <3>2 DEF Apply
        <3>3. QED
            BY <3>1, <3>2
    <2>5. crNews' \in [Ops -> SUBSET CRs]
        BY <1>1 DEF Apply, Announce
    <2>6. versions' \in SUBSET [cr : CRs, gen : 1..MaxEdits, spec : Specs]
        BY <1>1, <2>1 DEF Apply
    <2>7. QED
        BY <1>1, <2>1, <2>4, <2>5, <2>6 DEF Apply
<1>2. ASSUME NEW s \in CRs, Delete(s) PROVE TypeOK'
    <2>1. edits' \in 0..MaxEdits
        BY <1>2, BoundsAssumption DEF Delete
    <2>2. crNews' \in [Ops -> SUBSET CRs]
        BY <1>2 DEF Delete, Announce
    <2>3. QED
        BY <1>2, <2>1, <2>2 DEF Delete
<1>3. ASSUME NEW s \in CRs, Collect(s) PROVE TypeOK'
    <2>1. prSeen' \in [Ops -> [CRs -> Marks]]
        BY <1>3, AgingTyped DEF Collect
    <2>2. QED
        BY <1>3, <2>1 DEF Collect
<1>4. CASE HandWrite
    <2>1. edits' \in 0..MaxEdits
        BY <1>4, BoundsAssumption DEF HandWrite
    <2>2. cmSeen' \in [Ops -> Marks]
        BY <1>4, AgingTyped DEF HandWrite
    <2>3. QED
        BY <1>4, <2>1, <2>2 DEF HandWrite
<1>5. CASE InstallCRD
    BY <1>5 DEF InstallCRD, caches
<1>6. ASSUME NEW o \in Ops, StartProcess(o) PROVE TypeOK'
    BY <1>6 DEF StartProcess, api, caches
<1>7. ASSUME NEW o \in Ops, SyncCaches(o) PROVE TypeOK'
    <2>1. \A x : Mark(x) \in Marks
        BY DEF Mark, Marks
    <2>2. prSeen' \in [Ops -> [CRs -> Marks]] /\ cmSeen' \in [Ops -> Marks]
        BY <1>7, <2>1 DEF SyncCaches
    <2>3. crSeen' \in [Ops -> [CRs -> Objects \cup {None}]] /\ crNews' \in [Ops -> SUBSET CRs]
        BY <1>7 DEF SyncCaches
    <2>4. proc' \in [Ops -> {"down", "starting", "running"}] /\ queue' \in [Ops -> SUBSET CRs]
        BY <1>7 DEF SyncCaches
    <2>5. QED
        BY <1>7, <2>2, <2>3, <2>4 DEF SyncCaches, api
<1>8. ASSUME NEW o \in Ops, SyncTimeout(o) PROVE TypeOK'
    BY <1>8 DEF SyncTimeout, api, caches
<1>9. ASSUME NEW o \in Ops, Crash(o) PROVE TypeOK'
    <2>1. crashes' \in 0..MaxCrashes
        BY <1>9, BoundsAssumption DEF Crash
    <2>2. QED
        BY <1>9, <2>1 DEF Crash, api, caches
<1>10. ASSUME NEW o \in Ops, DeliverCM(o) PROVE TypeOK'
    BY <1>10 DEF DeliverCM, Mark, Marks, api
<1>11. ASSUME NEW o \in Ops, NEW s \in CRs, DeliverCR(o, s) PROVE TypeOK'
    BY <1>11 DEF DeliverCR, api
<1>12. ASSUME NEW o \in Ops, NEW s \in CRs, DeliverPR(o, s) PROVE TypeOK'
    BY <1>12 DEF DeliverPR, Mark, Marks, api
<1>13. ASSUME NEW o \in Ops, Resync(o) PROVE TypeOK'
    BY <1>13 DEF Resync, api, caches
<1>14. ASSUME NEW o \in Ops, NEW s \in CRs, Begin(o, s) PROVE TypeOK'
    <2>1. crSeen[o][s] # None =>
            [cr |-> s, uid |-> crSeen[o][s].uid, gen |-> crSeen[o][s].gen,
             spec |-> crSeen[o][s].spec, stage |-> "pr"] \in Works
        BY DEF Objects, Works
    <2>2. work' \in [Ops -> Works \cup {None}]
        BY <1>14, <2>1 DEF Begin
    <2>3. QED
        BY <1>14, <2>2 DEF Begin, api, caches
<1>15. ASSUME NEW o \in Ops, Reconcile(o) PROVE TypeOK'
    <2>1. ASSUME NEW stage \in {"pr", "cm", "status"}, GoTo(o, stage), work[o] # None
          PROVE  work' \in [Ops -> Works \cup {None}]
        <3>1. [work[o] EXCEPT !.stage = stage] \in Works
            BY <2>1 DEF Works
        <3>2. QED
            BY <2>1, <3>1 DEF GoTo
    <2>2. CASE WritePR(o)
        <3>1. work[o] # None
            BY <2>2 DEF WritePR, At
        <3>2. work[o].cr \in CRs /\ Upserted(work[o]) \in PrometheusRules
            <4>1. work[o] \in Works
                BY <3>1
            <4>2. work[o].cr \in CRs /\ work[o].uid \in 0..MaxEdits /\ work[o].spec \in Specs
                BY <4>1 DEF Works
            <4>3. pr[work[o].cr] \in PrometheusRules \cup {None}
                BY <4>2
            <4>4. CASE pr[work[o].cr] = None
                BY <4>2, <4>4 DEF Upserted, PrometheusRules
            <4>5. ASSUME NEW p \in PrometheusRules, NEW v \in Specs
                  PROVE  [p EXCEPT !.spec = v] \in PrometheusRules
                BY DEF PrometheusRules
            <4>6. QED
                BY <4>2, <4>3, <4>4, <4>5 DEF Upserted
        <3>3. pr' \in [CRs -> PrometheusRules \cup {None}]
            BY <2>2, <3>2 DEF WritePR
        <3>4. prSeen' \in [Ops -> [CRs -> Marks]]
            BY <2>2, <3>2, AgingTyped DEF WritePR
        <3>5. work' \in [Ops -> Works \cup {None}]
            BY <2>1, <2>2, <3>1 DEF WritePR
        <3>6. QED
            BY <2>2, <3>3, <3>4, <3>5 DEF WritePR
    <2>3. CASE FailPR(o)
        BY <2>1, <2>3 DEF FailPR, AfterPRError, At, api, caches
    <2>4. CASE WriteCM(o)
        <3>1. work[o] # None
            BY <2>4 DEF WriteCM, At
        <3>2. cm' \in CRs \X Specs
            BY <2>4, <3>1 DEF WriteCM, Written, Works
        <3>3. cmSeen' \in [Ops -> Marks]
            BY <2>4, AgingTyped DEF WriteCM
        <3>4. work' \in [Ops -> Works \cup {None}]
            BY <2>1, <2>4, <3>1 DEF WriteCM
        <3>5. work[o].cr \in CRs /\ work[o].gen \in 0..MaxEdits
            BY <3>1, BoundsAssumption DEF Works
        <3>6. reached' \in [CRs -> 0..MaxEdits]
            BY <2>4, <3>5 DEF WriteCM
        <3>7. QED
            BY <2>4, <3>2, <3>3, <3>4, <3>6 DEF WriteCM
    <2>5. CASE FailCM(o)
        BY <2>1, <2>5 DEF FailCM, At, api, caches
    <2>6. CASE PatchStatus(o)
        <3>1. crNews' \in [Ops -> SUBSET CRs]
            BY <2>6 DEF PatchStatus, At, Announce, Works
        <3>2. work' \in [Ops -> Works \cup {None}]
            BY <2>6 DEF PatchStatus
        <3>3. QED
            BY <2>6, <3>1, <3>2 DEF PatchStatus, api
    <2>7. QED
        BY <1>15, <2>2, <2>3, <2>4, <2>5, <2>6 DEF Reconcile
<1>16. CASE UNCHANGED vars
    BY <1>16 DEF vars
<1>17. QED
    BY <1>1, <1>2, <1>3, <1>4, <1>5, <1>6, <1>7, <1>8, <1>9, <1>10, <1>11, <1>12, <1>13,
       <1>14, <1>15, <1>16 DEF Next, Deliver

(* Type correctness of the operator and of what it writes.                 *)
THEOREM OperatorTypeCorrect == Spec => []TypeOK
    BY TypeInit, TypeStep, PTL DEF Spec

-----------------------------------------------------------------------------
(* Only rules of admitted specs reach Prometheus.                          *)

(* The strengthening of RulesSound: a spec passes from the API server      *)
(* through a cache and a Reconcile to the ConfigMap, and is admitted in    *)
(* each of these places.                                                   *)
Admitted ==
    Webhook =>
        /\ \A s \in CRs : cr[s] # None => validateSLO(cr[s].spec)
        /\ \A o \in Ops, s \in CRs : crSeen[o][s] # None => validateSLO(crSeen[o][s].spec)
        /\ \A o \in Ops : work[o] # None => validateSLO(work[o].spec)
        /\ \A s \in CRs, v \in Specs : cm = << s, v >> => validateSLO(v)

IInv == TypeOK /\ Admitted

(* Steps that change none of the four places.                              *)
LEMMA AdmittedFrame ==
    Admitted /\ UNCHANGED << cr, crSeen, work, cm >> => Admitted'
    BY DEF Admitted

LEMMA AdmittedStep == IInv /\ [Next]_vars => Admitted'
<1> SUFFICES ASSUME TypeOK, Admitted, [Next]_vars PROVE Admitted'
    BY DEF IInv
<1>1. ASSUME NEW s \in CRs, NEW v \in Specs, Apply(s, v) PROVE Admitted'
    <2>1. Webhook => validateSLO(v)
        BY <1>1 DEF Apply
    <2>2. cr'[s].spec = v /\ \A t \in CRs \ {s} : cr'[t] = cr[t]
        BY <1>1 DEF Apply, TypeOK, Objects
    <2>3. UNCHANGED << crSeen, work, cm >>
        BY <1>1 DEF Apply
    <2>4. QED
        BY <2>1, <2>2, <2>3 DEF Admitted
<1>2. ASSUME NEW s \in CRs, Delete(s) PROVE Admitted'
    <2>1. cr'[s] = None /\ \A t \in CRs \ {s} : cr'[t] = cr[t]
        BY <1>2 DEF Delete, TypeOK
    <2>2. UNCHANGED << crSeen, work, cm >>
        BY <1>2 DEF Delete
    <2>3. QED
        BY <2>1, <2>2 DEF Admitted
<1>3. ASSUME NEW s \in CRs, Collect(s) PROVE Admitted'
    BY <1>3, AdmittedFrame DEF Collect
<1>4. CASE HandWrite
    <2>1. \A s \in CRs, v \in Specs : cm' # << s, v >>
        BY <1>4, ConstantsAssumption DEF HandWrite
    <2>2. UNCHANGED << cr, crSeen, work >>
        BY <1>4 DEF HandWrite
    <2>3. QED
        BY <2>1, <2>2 DEF Admitted
<1>5. CASE InstallCRD
    BY <1>5, AdmittedFrame DEF InstallCRD, caches
<1>6. ASSUME NEW o \in Ops, StartProcess(o) \/ SyncTimeout(o) \/ Resync(o) PROVE Admitted'
    BY <1>6, AdmittedFrame DEF StartProcess, SyncTimeout, Resync, api, caches
<1>7. ASSUME NEW o \in Ops, SyncCaches(o) PROVE Admitted'
    <2>1. UNCHANGED << cr, work, cm >>
        BY <1>7 DEF SyncCaches, api
    <2>2. crSeen'[o] = cr /\ \A q \in Ops \ {o} : crSeen'[q] = crSeen[q]
        BY <1>7 DEF SyncCaches, TypeOK
    <2>3. QED
        BY <2>1, <2>2 DEF Admitted
<1>8. ASSUME NEW o \in Ops, Crash(o) PROVE Admitted'
    <2>1. UNCHANGED << cr, crSeen, cm >>
        BY <1>8 DEF Crash, api, caches
    <2>2. work'[o] = None /\ \A q \in Ops \ {o} : work'[q] = work[q]
        BY <1>8 DEF Crash, TypeOK
    <2>3. QED
        BY <2>1, <2>2 DEF Admitted
<1>9. ASSUME NEW o \in Ops, DeliverCM(o) \/ \E s \in CRs : DeliverPR(o, s) PROVE Admitted'
    BY <1>9, AdmittedFrame DEF DeliverCM, DeliverPR, api
<1>10. ASSUME NEW o \in Ops, NEW s \in CRs, DeliverCR(o, s) PROVE Admitted'
    <2>1. UNCHANGED << cr, work, cm >>
        BY <1>10 DEF DeliverCR, api
    <2>2. \A q \in Ops, t \in CRs : crSeen'[q][t] \in {crSeen[q][t], cr[t]}
        BY <1>10 DEF DeliverCR, TypeOK
    <2>3. QED
        BY <2>1, <2>2 DEF Admitted
<1>11. ASSUME NEW o \in Ops, NEW s \in CRs, Begin(o, s) PROVE Admitted'
    <2>1. UNCHANGED << cr, crSeen, cm >>
        BY <1>11 DEF Begin, api, caches
    <2>2. \A q \in Ops \ {o} : work'[q] = work[q]
        BY <1>11 DEF Begin, TypeOK
    <2>3. work'[o] # None => crSeen[o][s] # None /\ work'[o].spec = crSeen[o][s].spec
        BY <1>11 DEF Begin, TypeOK
    <2>4. QED
        BY <2>1, <2>2, <2>3 DEF Admitted
<1>12. ASSUME NEW o \in Ops, Reconcile(o) PROVE Admitted'
    <2>1. work[o] # None /\ UNCHANGED << cr, crSeen >>
        BY <1>12 DEF Reconcile, WritePR, FailPR, WriteCM, FailCM, PatchStatus, At, api, caches
    <2>2. \A q \in Ops \ {o} : work'[q] = work[q]
        BY <1>12 DEF Reconcile, WritePR, FailPR, AfterPRError, WriteCM, FailCM, PatchStatus,
                     GoTo, TypeOK
    <2>3. work'[o] # None => work'[o].spec = work[o].spec
        <3>1. CASE PatchStatus(o)
            BY <3>1 DEF PatchStatus, TypeOK
        <3>2. ASSUME NEW stage, GoTo(o, stage) PROVE work'[o].spec = work[o].spec
            BY <2>1, <3>2 DEF GoTo, TypeOK, Works
        <3>3. QED
            BY <1>12, <3>1, <3>2 DEF Reconcile, WritePR, FailPR, AfterPRError, WriteCM, FailCM
    <2>4. cm' = cm \/ cm' = << work[o].cr, work[o].spec >>
        BY <1>12 DEF Reconcile, WritePR, FailPR, WriteCM, FailCM, PatchStatus, Written, api
    <2>5. Webhook => validateSLO(work[o].spec)
        BY <2>1 DEF Admitted
    <2>6. Webhook => \A s \in CRs, v \in Specs : cm' = << s, v >> => validateSLO(v)
        BY <2>4, <2>5 DEF Admitted
    <2>7. Webhook => \A q \in Ops : work'[q] # None => validateSLO(work'[q].spec)
        BY <2>2, <2>3, <2>5 DEF Admitted
    <2>8. QED
        BY <2>1, <2>6, <2>7 DEF Admitted
<1>13. CASE UNCHANGED vars
    BY <1>13, AdmittedFrame DEF vars
<1>14. QED
    BY <1>1, <1>2, <1>3, <1>4, <1>5, <1>6, <1>7, <1>8, <1>9, <1>10, <1>11, <1>12, <1>13
    DEF Next, Deliver

LEMMA AdmittedIsSound == IInv => RulesSound
<1> SUFFICES ASSUME IInv, Webhook, NEW s \in CRs, NEW v \in Specs, cm = << s, v >>
             PROVE  /\ (\A i \in Items(v) : WindowsRecorded(i)) =>
                          \A a \in Rules(buildAlertRules(s, v)) : a.reads \subseteq Recorded(s, v)
                    /\ (\A i \in Items(v) : Parses(i)) =>
                          \A r \in Rules(buildRecordingRules(s, v)) : r.query # "empty"
                    /\ (\A i \in Items(v) : i.objective # 1000) =>
                          \A r \in Rules(buildRecordingRules(s, v)) : r.divisor # 0
                    /\ Distinct(v) =>
                          \A e, f \in buildRecordingRules(s, v) : e[2].name = f[2].name =>
                              e = f \/ (e[2] = LatencyRule(s) /\ f[2] = LatencyRule(s))
    BY DEF RulesSound
<1>1. validateSLO(v)
    BY DEF IInv, Admitted
<1>2. ASSUME NEW i \in Items(v) PROVE HasSLI(i)
    <2>1. ValidItem(i)
        BY <1>1 DEF validateSLO
    <2>2. QED
        BY <2>1 DEF ValidItem, HasSLI
<1>3. (\A i \in Items(v) : WindowsRecorded(i)) =>
          \A a \in Rules(buildAlertRules(s, v)) : a.reads \subseteq Recorded(s, v)
    BY <1>2, AlertsReadRecorded
<1>4. (\A i \in Items(v) : Parses(i)) =>
          \A r \in Rules(buildRecordingRules(s, v)) : r.query # "empty"
    BY <1>1, ExpressionsRendered
<1>5. (\A i \in Items(v) : i.objective # 1000) =>
          \A r \in Rules(buildRecordingRules(s, v)) : r.divisor # 0
    BY <1>1, DivisorsPositive
<1>6. Distinct(v) =>
          \A e, f \in buildRecordingRules(s, v) : e[2].name = f[2].name =>
              e = f \/ (e[2] = LatencyRule(s) /\ f[2] = LatencyRule(s))
    BY SeriesRecordedOnce
<1>7. QED
    BY <1>3, <1>4, <1>5, <1>6

(* Whatever specs are submitted, and however many operators write: with    *)
(* the webhook on, the alerts in the ConfigMap read only recorded series,  *)
(* none of its expressions is empty or divides by nothing, and none of its *)
(* series is recorded by two SLOs, except latency_p99_5m, which every      *)
(* latency SLO records by the same expression.                             *)
THEOREM RulesStaySound == Spec => []RulesSound
<1>1. Init => IInv
    <2>1. ASSUME Init PROVE Admitted
        <3>1. \A s \in CRs, v \in Specs : cm # << s, v >>
            BY <2>1, ConstantsAssumption DEF Init
        <3>2. QED
            BY <2>1, <3>1 DEF Init, Admitted
    <2>2. QED
        BY <2>1, TypeInit DEF IInv
<1>2. IInv /\ [Next]_vars => IInv'
    BY TypeStep, AdmittedStep DEF IInv
<1>3. QED
    BY <1>1, <1>2, AdmittedIsSound, PTL DEF Spec

-----------------------------------------------------------------------------
(* The operator implements RulePublication.                                *)

Version(s, x) == [cr |-> s, gen |-> x.gen, spec |-> x.spec]

(* Wherever a spec is on its way, it is one of a submitted version, and    *)
(* the API server has the latest of each resource.                         *)
Traced ==
    /\ \A x \in versions : x.gen <= edits
    /\ \A s \in CRs : reached[s] <= edits
    /\ \A s \in CRs : cr[s] # None =>
          /\ Version(s, cr[s]) \in versions
          /\ reached[s] <= cr[s].gen
          /\ \A x \in versions : x.cr = s => x.gen <= cr[s].gen
    /\ \A o \in Ops, s \in CRs : crSeen[o][s] # None => Version(s, crSeen[o][s]) \in versions
    /\ \A o \in Ops : work[o] # None => Version(work[o].cr, work[o]) \in versions

(* What one operator works on is not older than what it published, and     *)
(* what its cache shows is not older than either.                          *)
Forward(o) ==
    /\ \A s \in CRs : crSeen[o][s] # None => reached[s] <= crSeen[o][s].gen
    /\ work[o] # None =>
          /\ reached[work[o].cr] <= work[o].gen
          /\ crSeen[o][work[o].cr] # None => work[o].gen <= crSeen[o][work[o].cr].gen

Alone == \A o, q \in Ops : o = q

HInv == Traced /\ (Alone => \A o \in Ops : Forward(o))

LEMMA HistoryFrame ==
    ASSUME HInv, edits' = edits, UNCHANGED << cr, crSeen, work, history >>
    PROVE  HInv'
BY DEF HInv, Traced, Forward, Alone, Version, history

LEMMA HistoryStep == TypeOK /\ HInv /\ [Next]_vars => HInv'
<1> SUFFICES ASSUME TypeOK, HInv, [Next]_vars PROVE HInv'
    OBVIOUS
<1> USE DEF TypeOK
<1>0. /\ edits \in 0..MaxEdits
      /\ \A s \in CRs : reached[s] \in 0..MaxEdits
      /\ \A s \in CRs : cr[s] # None => cr[s].gen \in 1..MaxEdits
      /\ \A o \in Ops, s \in CRs : crSeen[o][s] # None => crSeen[o][s].gen \in 1..MaxEdits
      /\ \A o \in Ops : work[o] # None =>
            work[o].cr \in CRs /\ work[o].gen \in 1..MaxEdits
      /\ \A x \in versions : x.cr \in CRs /\ x.gen \in 1..MaxEdits
    BY DEF Objects, Works
<1>1. ASSUME NEW s \in CRs, NEW v \in Specs, Apply(s, v) PROVE HInv'
    <2> DEFINE x == [cr |-> s, gen |-> edits + 1, spec |-> v]
    <2>1. edits' = edits + 1 /\ versions' = versions \cup {x}
          /\ UNCHANGED << crSeen, work, reached >>
        BY <1>1 DEF Apply
    <2>2. edits \in Nat
        BY <1>0, BoundsAssumption
    <2>3. cr'[s] # None /\ cr'[s].gen = edits + 1 /\ cr'[s].spec = v
        <3>1. cr'[s] \in [uid : Nat, gen : Nat, spec : Specs]
            BY <1>1, <2>2, BoundsAssumption DEF Apply, Objects
        <3>2. cr'[s].gen = edits + 1 /\ cr'[s].spec = v
            BY <1>1 DEF Apply
        <3>3. QED
            BY <3>1, <3>2, ConstantsAssumption
    <2>4. \A t \in CRs \ {s} : cr'[t] = cr[t]
        BY <1>1 DEF Apply
    <2>5. Traced'
        <3>1. /\ \A y \in versions' : y.gen <= edits'
              /\ \A t \in CRs : reached'[t] <= edits'
            BY <1>0, <2>1, <2>2 DEF HInv, Traced
        <3>2. ASSUME NEW t \in CRs, cr'[t] # None
              PROVE  /\ Version(t, cr'[t]) \in versions'
                     /\ reached'[t] <= cr'[t].gen
                     /\ \A y \in versions' : y.cr = t => y.gen <= cr'[t].gen
            <4>1. CASE t = s
                BY <4>1, <1>0, <2>1, <2>2, <2>3, <3>1 DEF Version
            <4>2. CASE t # s
                BY <4>2, <3>2, <2>1, <2>4 DEF HInv, Traced
            <4>3. QED
                BY <4>1, <4>2
        <3>3. QED
            BY <2>1, <3>1, <3>2 DEF HInv, Traced, Version
    <2>6. QED
        BY <2>1, <2>5 DEF HInv, Forward, Alone
<1>2. ASSUME NEW s \in CRs, Delete(s) PROVE HInv'
    <2>1. edits' = edits + 1 /\ UNCHANGED << crSeen, work, versions, reached >>
        BY <1>2 DEF Delete, history
    <2>2. cr'[s] = None /\ \A t \in CRs \ {s} : cr'[t] = cr[t]
        BY <1>2 DEF Delete
    <2>3. QED
        BY <1>0, <2>1, <2>2 DEF HInv, Traced, Forward, Alone, Version
<1>3. ASSUME NEW s \in CRs, Collect(s) PROVE HInv'
    BY <1>3, HistoryFrame DEF Collect
<1>4. CASE HandWrite
    <2>1. edits' = edits + 1 /\ UNCHANGED << cr, crSeen, work, versions, reached >>
        BY <1>4 DEF HandWrite, history
    <2>2. QED
        BY <1>0, <2>1 DEF HInv, Traced, Forward, Alone, Version
<1>5. CASE InstallCRD
    BY <1>5, HistoryFrame DEF InstallCRD, caches
<1>6. ASSUME NEW o \in Ops, StartProcess(o) \/ SyncTimeout(o) \/ Resync(o) PROVE HInv'
    BY <1>6, HistoryFrame DEF StartProcess, SyncTimeout, Resync, api, caches
<1>7. ASSUME NEW o \in Ops, SyncCaches(o) PROVE HInv'
    <2>1. UNCHANGED << cr, work, edits, versions, reached >>
        BY <1>7 DEF SyncCaches, api, history
    <2>2. crSeen'[o] = cr /\ \A q \in Ops \ {o} : crSeen'[q] = crSeen[q]
        BY <1>7 DEF SyncCaches
    <2>3. Traced'
        BY <2>1, <2>2 DEF HInv, Traced, Version
    <2>4. ASSUME Alone PROVE Forward(o)'
        BY <1>0, <2>1, <2>2, <2>4 DEF HInv, Traced, Forward, Version
    <2>5. QED
        BY <2>3, <2>4 DEF HInv, Alone
<1>8. ASSUME NEW o \in Ops, Crash(o) PROVE HInv'
    <2>1. UNCHANGED << cr, crSeen, edits, versions, reached >>
        BY <1>8 DEF Crash, api, caches, history
    <2>2. work'[o] = None /\ \A q \in Ops \ {o} : work'[q] = work[q]
        BY <1>8 DEF Crash
    <2>3. QED
        BY <2>1, <2>2 DEF HInv, Traced, Forward, Alone, Version
<1>9. ASSUME NEW o \in Ops, DeliverCM(o) \/ \E s \in CRs : DeliverPR(o, s) PROVE HInv'
    BY <1>9, HistoryFrame DEF DeliverCM, DeliverPR, api
<1>10. ASSUME NEW o \in Ops, NEW s \in CRs, DeliverCR(o, s) PROVE HInv'
    <2>1. UNCHANGED << cr, work, edits, versions, reached >>
        BY <1>10 DEF DeliverCR, api, history
    <2>2. /\ crSeen'[o][s] = cr[s] /\ \A t \in CRs \ {s} : crSeen'[o][t] = crSeen[o][t]
          /\ \A q \in Ops \ {o} : crSeen'[q] = crSeen[q]
        BY <1>10 DEF DeliverCR
    <2>3. \A q \in Ops, t \in CRs : crSeen'[q][t] = crSeen[q][t] \/ crSeen'[q][t] = cr[t]
        BY <2>2
    <2>4. Traced'
        BY <2>1, <2>3 DEF HInv, Traced, Version
    <2>5. ASSUME Alone PROVE Forward(o)'
        <3>1. Forward(o)
            BY <2>5 DEF HInv
        <3>2. ASSUME NEW t \in CRs, crSeen'[o][t] # None
              PROVE  reached[t] <= crSeen'[o][t].gen
            <4>1. CASE t = s
                BY <2>2, <3>2, <4>1 DEF HInv, Traced
            <4>2. CASE t # s
                BY <2>2, <3>1, <3>2, <4>2 DEF Forward
            <4>3. QED
                BY <4>1, <4>2
        <3>3. ASSUME work[o] # None, crSeen'[o][work[o].cr] # None
              PROVE  work[o].gen <= crSeen'[o][work[o].cr].gen
            <4>1. work[o].cr \in CRs
                BY <1>0, <3>3
            <4>2. CASE work[o].cr = s
                <5>1. Version(s, work[o]) \in versions /\ cr[s] # None
                    BY <2>2, <3>3, <4>2 DEF HInv, Traced
                <5>2. Version(s, work[o]).gen <= cr[s].gen
                    BY <5>1 DEF HInv, Traced, Version
                <5>3. QED
                    BY <2>2, <4>2, <5>2 DEF Version
            <4>3. CASE work[o].cr # s
                BY <2>2, <3>1, <3>3, <4>1, <4>3 DEF Forward
            <4>4. QED
                BY <4>2, <4>3
        <3>4. QED
            BY <2>1, <3>1, <3>2, <3>3 DEF Forward
    <2>6. QED
        BY <2>4, <2>5 DEF HInv, Alone
<1>11. ASSUME NEW o \in Ops, NEW s \in CRs, Begin(o, s) PROVE HInv'
    <2>1. UNCHANGED << cr, crSeen, edits, versions, reached >>
        BY <1>11 DEF Begin, api, caches, history
    <2>2. \A q \in Ops \ {o} : work'[q] = work[q]
        BY <1>11 DEF Begin
    <2>3. work'[o] # None =>
            /\ crSeen[o][s] # None /\ work'[o].cr = s
            /\ work'[o].gen = crSeen[o][s].gen /\ work'[o].spec = crSeen[o][s].spec
        BY <1>11 DEF Begin
    <2>4. Traced'
        BY <2>1, <2>2, <2>3 DEF HInv, Traced, Version
    <2>5. ASSUME Alone PROVE Forward(o)'
        BY <1>0, <2>1, <2>3, <2>5 DEF HInv, Forward
    <2>6. QED
        BY <2>4, <2>5 DEF HInv, Alone
<1>12. ASSUME NEW o \in Ops, Reconcile(o) PROVE HInv'
    <2>1. work[o] # None /\ UNCHANGED << cr, crSeen, edits, versions >>
        BY <1>12 DEF Reconcile, WritePR, FailPR, WriteCM, FailCM, PatchStatus, At, api, caches,
                     history
    <2>2. \A q \in Ops \ {o} : work'[q] = work[q]
        BY <1>12 DEF Reconcile, WritePR, FailPR, AfterPRError, WriteCM, FailCM, PatchStatus, GoTo
    <2>3. work'[o] # None =>
            /\ work'[o].cr = work[o].cr
            /\ work'[o].gen = work[o].gen /\ work'[o].spec = work[o].spec
        <3>1. CASE PatchStatus(o)
            BY <3>1 DEF PatchStatus
        <3>2. ASSUME NEW stage, GoTo(o, stage)
              PROVE  /\ work'[o].cr = work[o].cr
                     /\ work'[o].gen = work[o].gen /\ work'[o].spec = work[o].spec
            BY <2>1, <3>2 DEF GoTo, Works
        <3>3. QED
            BY <1>12, <3>1, <3>2 DEF Reconcile, WritePR, FailPR, AfterPRError, WriteCM, FailCM
    <2>4. \A t \in CRs : reached'[t] = reached[t] \/ (t = work[o].cr /\ reached'[t] = work[o].gen)
        BY <1>12 DEF Reconcile, WritePR, FailPR, WriteCM, FailCM, PatchStatus, history
    <2>5. Version(work[o].cr, work[o]) \in versions
        BY <2>1 DEF HInv, Traced
    <2>6. /\ work[o].gen <= edits
          /\ cr[work[o].cr] # None => work[o].gen <= cr[work[o].cr].gen
        BY <1>0, <2>1, <2>5 DEF HInv, Traced, Version
    <2>7. Traced'
        <3>1. \A q \in Ops : work'[q] # None => Version(work'[q].cr, work'[q]) \in versions
            BY <2>2, <2>3, <2>5 DEF HInv, Traced, Version
        <3>2. \A t \in CRs : reached'[t] <= edits /\ (cr[t] # None => reached'[t] <= cr[t].gen)
            BY <2>4, <2>6 DEF HInv, Traced
        <3>3. QED
            BY <2>1, <3>1, <3>2 DEF HInv, Traced, Version
    <2>8. ASSUME Alone PROVE Forward(o)'
        <3>1. Forward(o)
            BY <2>8 DEF HInv
        <3>2. /\ work[o].cr \in CRs
              /\ reached[work[o].cr] <= work[o].gen /\ work[o].gen <= work[o].gen
              /\ crSeen[o][work[o].cr] # None => work[o].gen <= crSeen[o][work[o].cr].gen
            BY <1>0, <2>1, <3>1 DEF Forward
        <3>3. ASSUME NEW t \in CRs, crSeen[o][t] # None PROVE reached'[t] <= crSeen[o][t].gen
            <4>1. CASE t = work[o].cr
                BY <1>0, <2>4, <3>1, <3>2, <3>3, <4>1 DEF Forward
            <4>2. CASE t # work[o].cr
                BY <2>4, <3>1, <3>3, <4>2 DEF Forward
            <4>3. QED
                BY <4>1, <4>2
        <3>4. reached'[work[o].cr] <= work[o].gen
            BY <2>4, <3>2
        <3>5. QED
            BY <2>1, <2>3, <3>2, <3>3, <3>4 DEF Forward
    <2>9. QED
        BY <2>7, <2>8 DEF HInv, Alone
<1>13. CASE UNCHANGED vars
    BY <1>13, HistoryFrame DEF vars, history
<1>14. QED
    BY <1>1, <1>2, <1>3, <1>4, <1>5, <1>6, <1>7, <1>8, <1>9, <1>10, <1>11, <1>12, <1>13
    DEF Next, Deliver

LEMMA HistoryInit == Init => HInv
<1> SUFFICES ASSUME Init PROVE HInv
    OBVIOUS
<1>1. Traced
    BY DEF Init, Traced
<1>2. \A o \in Ops : Forward(o)
    BY DEF Init, Forward
<1>3. QED
    BY <1>1, <1>2 DEF HInv

(* Every step of the operator is a step of RulePublication or none.        *)
LEMMA StepPublishes ==
    TypeOK /\ HInv /\ [Next]_vars => [Publication!Next]_(Publication!publication)
<1> SUFFICES ASSUME TypeOK, HInv, [Next]_vars
             PROVE  Publication!Next \/ UNCHANGED << versions, reached, cm >>
    BY DEF Publication!publication
<1> USE DEF TypeOK
<1>1. ASSUME NEW s \in CRs, NEW v \in Specs, Apply(s, v) PROVE Publication!Next
    <2> DEFINE x == [cr |-> s, gen |-> edits + 1, spec |-> v]
    <2>1. edits + 1 \in 1..MaxEdits
        BY <1>1, BoundsAssumption DEF Apply
    <2>2. x \in Publication!Versions
        BY <2>1 DEF Publication!Versions
    <2>3. \A y \in versions : y.gen < edits + 1
        BY BoundsAssumption DEF HInv, Traced
    <2>4. Publication!Submit(x)
        BY <1>1, <2>3 DEF Apply, Publication!Submit
    <2>5. QED
        BY <2>2, <2>4 DEF Publication!Next
<1>2. ASSUME NEW o \in Ops, WriteCM(o) PROVE Publication!Next
    <2> DEFINE x == Version(work[o].cr, work[o])
    <2>1. work[o] # None
        BY <1>2 DEF WriteCM, At
    <2>2. x \in versions /\ x \in Publication!Versions
        BY <2>1 DEF HInv, Traced, Publication!Versions
    <2>3. Alone => reached[x.cr] <= x.gen
        BY <2>1 DEF HInv, Forward, Version
    <2>4. Publication!Publish(x)
        BY <1>2, <2>2, <2>3 DEF WriteCM, Written, Publication!Publish, Version, Alone
    <2>5. QED
        BY <2>2, <2>4 DEF Publication!Next
<1>3. CASE HandWrite
    BY <1>3 DEF HandWrite, history, Publication!Next, Publication!Overwrite
<1>4. ASSUME NEW s \in CRs, Delete(s) \/ Collect(s)
      PROVE  UNCHANGED << versions, reached, cm >>
    BY <1>4 DEF Delete, Collect, history
<1>5. CASE InstallCRD
    BY <1>5 DEF InstallCRD, history
<1>6. ASSUME NEW o \in Ops,
             StartProcess(o) \/ SyncCaches(o) \/ SyncTimeout(o) \/ Crash(o) \/ Resync(o)
      PROVE  UNCHANGED << versions, reached, cm >>
    BY <1>6 DEF StartProcess, SyncCaches, SyncTimeout, Crash, Resync, api, history
<1>7. ASSUME NEW o \in Ops,
             Deliver(o) \/ \E s \in CRs : Begin(o, s)
      PROVE  UNCHANGED << versions, reached, cm >>
    BY <1>7 DEF Deliver, DeliverCM, DeliverCR, DeliverPR, Begin, api, history
<1>8. ASSUME NEW o \in Ops, WritePR(o) \/ FailPR(o) \/ FailCM(o) \/ PatchStatus(o)
      PROVE  UNCHANGED << versions, reached, cm >>
    BY <1>8 DEF WritePR, FailPR, FailCM, PatchStatus, api, history
<1>9. CASE UNCHANGED vars
    BY <1>9 DEF vars
<1>10. QED
    BY <1>1, <1>2, <1>3, <1>4, <1>5, <1>6, <1>7, <1>8, <1>9 DEF Next, Reconcile

(* The rules Prometheus loads are of a submitted version, and one operator *)
(* alone never takes a resource back to an older version, for any number   *)
(* of resources, specs, edits, crashes and stale caches.                   *)
THEOREM OperatorPublishes == Spec => RulesPublished
<1>1. Init => Publication!Init
    BY DEF Init, Publication!Init
<1>2. TypeOK /\ HInv /\ [Next]_vars => [Publication!Next]_(Publication!publication)
    BY StepPublishes
<1>3. Init => TypeOK /\ HInv
    BY TypeInit, HistoryInit
<1>4. TypeOK /\ HInv /\ [Next]_vars => TypeOK' /\ HInv'
    BY TypeStep, HistoryStep
<1>5. QED
    BY <1>1, <1>2, <1>3, <1>4, PTL DEF Spec, RulesPublished, Publication!Spec
=============================================================================
