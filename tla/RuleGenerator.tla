---------------------------- MODULE RuleGenerator ----------------------------
(***************************************************************************)
(* What the SLO operator derives from the spec of an SLO resource          *)
(* (operator/internal/controller/rule_generator.go) and what its webhook   *)
(* admits (operator/api/v1/slo_webhook.go).                                *)
(*                                                                         *)
(* Names of series are tuples of their parts; an expression is the set of  *)
(* recorded series it reads, with the query it is rendered from and what   *)
(* it divides by.  A spec is the list of its SLOs.  The list of rules that *)
(* is derived from it is the set of pairs << position of the SLO, rule >>: *)
(* the rules of one SLO differ from each other, and their order is left    *)
(* out.  Objectives (in percent) and burn thresholds are in tenths, Nil    *)
(* standing for a missing one.                                             *)
(***************************************************************************)
EXTENDS Integers, Sequences

(* A query as the code tells queries apart: well formed, empty, with a     *)
(* status= label, without {{.window}}, or with {{.window}} but not a       *)
(* template that parses.                                                   *)
Queries == {"good", "empty", "status", "fixed", "broken"}
hasStatusLabel(q) == q = "status"
HasWindow(q) == q \in {"good", "status", "broken"}

(* renderQuery, whose error the callers drop.                              *)
renderQuery(q) == IF q = "broken" THEN "empty" ELSE q

Nil == -1
EventsSLI == [on : BOOLEAN, error : Queries, total : Queries]
RawSLI == [on : BOOLEAN, ratio : Queries, histogram : BOOLEAN]
AlertTier == [on : BOOLEAN, disable : BOOLEAN, burnThreshold : Int, windows : SUBSET STRING]

(* The name of an SLO is << what sanitize makes of it, its spelling >>.    *)
sanitize(name) == name[1]

SLOItem == [name : STRING \X STRING, objective : Int, events : EventsSLI, raw : RawSLI,
            alerting : STRING, page : AlertTier, ticket : AlertTier]

RecordingWindows == {"5m", "30m", "1h", "6h", "1d"}
DefaultPageBurnThreshold == 144
DefaultTicketBurnThreshold == 60
BudgetBurnThreshold == 10

-----------------------------------------------------------------------------
(* validateSLO.                                                            *)

ValidItem(i) ==
    /\ i.name[2] # ""
    /\ i.objective \in 0..1000
    /\ i.events.on \/ i.raw.on
    /\ i.events.on =>
          /\ i.events.error # "empty" /\ i.events.total # "empty"
          /\ ~hasStatusLabel(i.events.error) /\ ~hasStatusLabel(i.events.total)
          /\ HasWindow(i.events.error)
    /\ i.raw.on => HasWindow(i.raw.ratio)
    /\ i.page.on /\ i.page.burnThreshold # Nil => i.page.burnThreshold > 0

Items(spec) == {spec[k] : k \in DOMAIN spec}

validateSLO(spec) == \A i \in Items(spec) : ValidItem(i)

-----------------------------------------------------------------------------
(* Recording rules.                                                        *)

(* Thousandths; rules that divide by nothing divide by one.                *)
allowedErrorRatio(objective) == 1000 - objective
Undivided == 1000

Series(svc, kind, w) == << svc, kind, "", w >>
NamedSeries(svc, kind, i, w) == << svc, kind, sanitize(i.name), w >>

Rule(name, reads, query, divisor) ==
    [name |-> name, reads |-> reads, query |-> query, divisor |-> divisor]

EventRules(svc, i, w) ==
    {Rule(Series(svc, "request_rate", w), {}, renderQuery(i.events.total), Undivided),
     Rule(Series(svc, "error_rate", w), {}, renderQuery(i.events.error), Undivided),
     Rule(Series(svc, "error_ratio", w),
          {Series(svc, "error_rate", w), Series(svc, "request_rate", w)}, "good", Undivided),
     Rule(Series(svc, "burn_rate", w), {Series(svc, "error_ratio", w)}, "good",
          allowedErrorRatio(i.objective))}

RawRules(svc, i, w) ==
    {Rule(NamedSeries(svc, "error_ratio_", i, w), {}, renderQuery(i.raw.ratio), Undivided),
     Rule(NamedSeries(svc, "burn_rate_", i, w), {NamedSeries(svc, "error_ratio_", i, w)}, "good",
          allowedErrorRatio(i.objective))}

LatencyRule(svc) == Rule(Series(svc, "latency_p99_5m", ""), {}, "good", Undivided)

ItemRecordingRules(svc, i) ==
    (UNION {EventRules(svc, i, w) : w \in {x \in RecordingWindows : i.events.on}})
    \cup (UNION {RawRules(svc, i, w) : w \in {x \in RecordingWindows : i.raw.on}})
    \cup {r \in {LatencyRule(svc)} : i.raw.on /\ i.raw.histogram}

buildRecordingRules(svc, spec) ==
    UNION {{k} \X ItemRecordingRules(svc, spec[k]) : k \in DOMAIN spec}

-----------------------------------------------------------------------------
(* Alert rules.                                                            *)

(* Mutant of BurnSeries: the name of a raw SLO is forgotten.               *)
BurnSeriesUnnamed(svc, i, w) == Series(svc, "burn_rate", w)

(* The burn rate an alert of i reads, as buildMultiWindowBurnExpr names it.*)
BurnSeries(svc, i, w) ==
    IF i.events.on THEN Series(svc, "burn_rate", w) ELSE NamedSeries(svc, "burn_rate_", i, w)

nonEmptyWindows(ws, def) == IF ws # {} THEN ws ELSE def

defaultFloat(p, def) == IF p # Nil THEN p ELSE def

AlertRule(name, reads, threshold) ==
    [name |-> name, reads |-> reads, threshold |-> threshold]

PageRules(svc, i) ==
    {AlertRule(i.alerting \o "Page",
               {BurnSeries(svc, i, w) : w \in nonEmptyWindows(i.page.windows, {"5m", "1h"})},
               defaultFloat(i.page.burnThreshold, DefaultPageBurnThreshold)) :
        t \in {x \in {i.page} : x.on /\ ~x.disable}}

TicketRules(svc, i) ==
    {AlertRule(i.alerting \o "Ticket",
               {BurnSeries(svc, i, w) : w \in nonEmptyWindows(i.ticket.windows, {"30m", "6h"})},
               defaultFloat(i.ticket.burnThreshold, DefaultTicketBurnThreshold)) :
        t \in {x \in {i.ticket} : x.on /\ ~x.disable}}

BudgetRules(svc, i) ==
    {r \in {AlertRule("OrdersvcErrorBudgetExhausting",
                      {Series(svc, "burn_rate", "1d")}, BudgetBurnThreshold)} : i.events.on}

ItemAlertRules(svc, i) == PageRules(svc, i) \cup TicketRules(svc, i) \cup BudgetRules(svc, i)

buildAlertRules(svc, spec) ==
    UNION {{k} \X ItemAlertRules(svc, spec[k]) : k \in DOMAIN spec}

-----------------------------------------------------------------------------
(* What the rules of a spec should satisfy.                                *)

(* The rules of a list.                                                    *)
Rules(list) == {e[2] : e \in list}

Recorded(svc, spec) == {r.name : r \in Rules(buildRecordingRules(svc, spec))}

(* The windows of the tiers are among those that are recorded.             *)
WindowsRecorded(i) ==
    \A t \in {i.page, i.ticket} : t.on => t.windows \subseteq RecordingWindows

(* One SLO at most counts events, and the others have names of their own.  *)
Distinct(spec) ==
    \A j, k \in DOMAIN spec : j # k =>
        /\ ~(spec[j].events.on /\ spec[k].events.on)
        /\ spec[j].raw.on /\ spec[k].raw.on =>
              sanitize(spec[j].name) # sanitize(spec[k].name)

HasSLI(i) == i.events.on \/ i.raw.on
=============================================================================
