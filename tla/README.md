# TLA+ development of the SRE platform

The repository is a demonstration SRE platform around one **order service**, whose faults
are injected through an endpoint of its own. Two more Go programs hold the platform's
logic: the **remediator**, which receives Alertmanager's notifications and repairs what it
can, and the **SLO operator**, which turns SLO resources into Prometheus rules. Between
Prometheus and the remediator stands Alertmanager, with a configuration of the repository's own.
This directory models all of these, checks the models with TLC, and proves their main safety
properties with TLAPS.

To repeat it: `tlc -config Remediator_races.cfg MCRemediator` (likewise for the other
configurations, see "Runs"), `tlapm RemediatorProofs.tla` (likewise the other modules whose
names end in `Proofs`).

## Inventory

| component | state | operations | interacts with |
|---|---|---|---|
| Webhook pipeline (`remediator/internal/handler`, `triage`) | event store (mutex, map by event ID), events shared by pointer | `/webhook`: BurnRates, Triage, then a goroutine: Loki, LLM, rule engine, log; `/events` reads | Alertmanager (calls it), Prometheus, Loki, LLM, executor |
| Rule engine (`remediator/internal/remediate`: `rules.go`, `cooldown.go`) | cooldown map (mutex) | Match, Evaluate with its guards, InCooldown, Mark | called by the pipeline, calls the executor |
| Error-budget policy (`budget_policy.go`) | `lastFrozen`, in memory | check every minute: freeze above 1, thaw below 0.5 | Prometheus, `spec.pause` of the Rollout |
| Executors (`k8s/client.go`, `handler.go` 152-185) | none; the cluster's | FaultReset, ScaleUp, RolloutUndo, PauseRollout, WritePostmortemDraft | order service, API server |
| Rule generator (`operator/.../rule_generator.go`) | none | recording rules, alert rules | called by the controller |
| Admission webhook (`operator/api/v1/slo_webhook.go`) | none | validateSLO on create and update | API server (calls it); off in the shipped deployment |
| SLO controller (`operator/.../slo_controller.go`, `operator/cmd/main.go`) | watch caches, work queue | Reconcile: PrometheusRule, ConfigMap, status | API server; Prometheus loads the ConfigMap |
| Order service (`app/internal/handler`, `app/internal/metrics`, `app/cmd/server`) | failRate, latencyMs, the gauges that show them, counters of orders | `/order`, `/admin/fault`, `/readyz`, graceful shutdown | Service and kubelet, HPA, Prometheus |
| Alertmanager's configuration (`observability/alertmanager`) | groups, notification log (in Alertmanager) | grouping, routes, inhibition, intervals, `send_resolved` | Prometheus, remediator, Feishu |
| Canary, chaos, backup, reports, IaC | declarations and sequential scripts | | |

Where the difficulty lies, and what makes each component correct:

- *Pipeline.* `go h.processEvent(event)` after the reply means that notifications of one
  incident are processed concurrently, on *Event* objects that inherit one another's
  fields, including a slice header that shares its backing array. Correct means: no action
  is taken that the guards forbid; the same rule does not act twice on an event within its
  cooldown; decisions are not lost; a log never shows another event's action; a resolved
  event stays resolved; every request settles.
- *Policy.* State in memory describes an object that outlives the pod. Correct means: the
  release is frozen while the budget burns and thaws afterwards, through restarts, refused
  patches and patches applied but reported as failed.
- *Operator.* It writes from caches that lag, drops its errors, and may die between two
  writes. Correct means: both objects end up with the rules of the resource, and the rules
  are well formed: an alert reads only series the same rules record.
- *Alerts.* A group of alerts is one event to the remediator, named by its first alert; what
  repeats a notification (a lost reply, a recurrence, `repeat_interval`) meets cooldowns kept per
  event in the memory of each pod. Correct means: an incident is not acted on twice at short notice, and one
  that lasts is not forgotten.
- *Status.* The patch is computed from a cached copy and sent without its version. Correct means:
  the status ends up with the rules of the spec, and a failure that lasts is shown.
- *Order service.* Handlers share two unsynchronised fields, write metrics at several points
  of an order, and are cut off when a shutdown's patience ends; readiness depends on the
  injected rate, and the way to change the rate leads through the Service that readiness
  closes. Correct means: metrics agree with one another and with the faults in force, a
  shutdown loses no ordinary order, the Service follows the rate.

`PROJECT.json` lists every hazard at its line, with the properties about it.

## Modules

| module | models | its state and actions in the code |
|---|---|---|
| `RemediateRules` | `rules.go`: Rules, Match, the double confirmation | pure operators; burn rates in tenths, `NaN` as -1, which no threshold accepts, as in Go |
| `Remediator` | `handler.go`, `triage.go`, `cooldown.go`, `Evaluate` | see below |
| `MCRemediator` | instances of `Remediator` | payload sets, bounds, symmetry |
| `Remediation` | what the pipeline promises of its actions | abstract: the `stage` of each notification, its `rate` and `answer`, the `marks` of this process; no store, no log, no map of cooldowns |
| `RemediateRulesProofs`, `RemediatorProofs`, `RemediatorDecisionProofs` | theorems about these; the last one about decisions that stay, events that were replaced, and the refinement of `Remediation` | |
| `AlertFlow` | `alertmanager.yaml` and the pipeline behind it: webhook, goroutines, cooldowns | EXTENDS `RemediateRules`; see below |
| `MCAlertFlow`, `AlertFlowProofs` | instances, theorems | |
| `BudgetPolicy` | `budget_policy.go`, `PauseRollout`, `Query` | `phase`, `want`, `lastFrozen` of each pod; `paused` is `spec.pause`; `Check` is a tick of the timer, `Patched` and `PatchFailed` the two returns of PauseRollout |
| `MCBudgetPolicy`, `BudgetPolicyProofs` | instances, theorems | |
| `RuleGenerator` | `rule_generator.go`, `windows.go`, `validateSLO` | pure operators from a spec to lists of rules |
| `SLOController` | `slo_controller.go`, `operator/cmd/main.go`, the webhook in front of the API server | EXTENDS `RuleGenerator`; see below |
| `RulePublication` | what steps 3 and 4 of `slo_controller.go` promise of the rules Prometheus loads | abstract: `versions` submitted, the version `reached` for each resource, the `rules` |
| `MCSLOController`, `SLOControllerProofs` | instances, theorems; the refinement of `RulePublication` | |
| `SLOStatus` | step 4 of Reconcile: conditions, rule names, the merge patch | EXTENDS `RuleGenerator`; see below |
| `SLOStatusHistory` | `SLOStatus` with a record of what reconciles did | EXTENDS `SLOStatus`; `done` is history for `QuotesWhatHappened` |
| `MCSLOStatus`, `MCSLOStatusHistory`, `SLOStatusProofs` | instances, theorems about both | |
| `OrderService` | `app/internal/handler/handler.go`, `app/cmd/server/main.go`, `app/internal/metrics/metrics.go` | see below |
| `MCOrderService`, `OrderServiceProofs` | an instance, theorems | |

`Remediator` uses the rule table of `RemediateRules` in its guards and implements `Remediation`
(its specification is a property of `restart`); `SLOController` uses
`RuleGenerator` both for what the webhook admits and for what the ConfigMap means, and
implements `RulePublication` (`INSTANCE ... WITH`, its specification is a property of
`converge`); `SLOStatus` uses `RuleGenerator` for what the status lists. `AlertFlow` composes
Prometheus, Alertmanager and the remediator with the rule table. The
remediator and the operator meet in the names of alerts: see the run `names`.

### Remediator

A *delivery* is one webhook request. It makes at most one *Event*, one log entry and one
backing array, so the delivery itself names all three. The actions are the points at which
goroutines can meet:

| action | code |
|---|---|
| `Refuse`, `Receive` | `handleWebhook` up to Triage: errors, BurnRates |
| `TriageGet`, `TriagePut` | `Triage`: `store.Get` and the inheritance; `store.Upsert`, the reply and the `go` statement |
| `Infer` | Loki, `Infer`, the assignment (nil included) and the Upsert after it |
| `Check`, `Mark`, `Act` | `Evaluate`: its guards in their order; `Cooldown.Mark`; the executor's call |
| `AppendLog`, `SaveLog` | `append` to `event.Remediations`, and the last Upsert |
| `GeneratePostmortem` | the resolved branch: LLM draft, ConfigMap |
| `Restart`, `Fault`, `Advance` | the process starts anew; it dies of an access behind an array; time passes |

Slices are modelled by what Go does: a header of three words (array, length, capacity), arrays with
a capacity that doubles, `append` in place when the header has room. The unlocked copy of a header in
`Triage` is a data race with the owner's `append`; `HeaderReads` lets it find each word as it was
before the append or as it is after. Go trusts a header and compares neither its length nor its
capacity with the array, so a mixed one leads behind it: a range there (`ReadsBehind`) finds
entries of another log or what makes no sense (`None`), an append there (`WritesBehind`) writes over a
cell of any array, or over none that matters here, and either may end the process (`Fault`), as
an access through a nil array always does. A Go pointer is one word, read whole: a header
read with the new length keeps an array of the same event.

What lies behind an array is any event's. `hist[d].stray` remembers such an access, and
`LogsTellTheirEvent` and `SerialDecisionsKept` speak of the time before the first one (`~Stray`):
mixed headers that stay within their arrays, arrays that are shared and appended to by several
goroutines, and logs copied from them are all in it. The other properties of the module hold after such an
access as well, provided it corrupts logs only: what else lies in the memory of the process is not
modelled.

`hist` records, for properties only, what a delivery inherited, which marks its check could
see, when it marked, with whom it overlapped, and which decisions were settled before its Triage.

Left out: tiers and budget texts (no decision reads them), prompts, metrics, a build
without an LLM client (main always makes one), and the content of drafts beyond the log
entries they are written from.

### AlertFlow

| action | code |
|---|---|
| `Raise`, `Clear` | an evaluation of Prometheus finds alerts that begin, or cease, to fire |
| `Flush` | Alertmanager flushes a group (`group_wait`, `group_interval`): muted alerts are passed over (`inhibit_rules`), and the rest is sent when `NeedsUpdate` says so (new alerts, resolved ones with `send_resolved`, `repeat_interval`) and a route leads to the remediator |
| `Answered` | `handleWebhook` of one of the pods that run: a firing event goes to a goroutine (`tasks`); then the reply, after which Alertmanager logs the notification and drops the alerts it told as resolved |
| `Unanswered` | the same, but the reply is lost, so the notification will be sent again |
| `Check`, `MarkAndAct` | a goroutine of `processEvent` in `Evaluate`: the cooldown and the other guards; the mark and the action. Between the two, and before, others may run |
| `Tick` | a `group_interval` passes: cooldowns and the log grow older, what could not be sent is given up |
| `StartProcess`, `StopPod` | a process of the remediator starts without marks: in a container that is restarted, or in a new pod that a rolling update puts beside the old one, which it then stops; while both run either may take a notification. The goroutines of a process that ends are gone (`Abandoned`) |

Alertmanager is not in the repository. Its actions are modelled from the configuration it is
given and are marked external in the map; groups, routes and inhibition rules are those of the
configuration. The unit of time is the `group_interval` of 300 s: within a unit nothing has a
distance, and a mark lives `cooldown / 300` units and may, in its last one, count or not
(a notification need not come at the same instant of its unit). `nflog` entries do not expire
(Alertmanager keeps them 120 h), Alertmanager does not restart, and the dry-run switch is off.
The reply does not wait for the goroutine (`handler.go:88`), so a notification that comes again after a
lost reply may run beside the first, and both may pass the cooldown before either marks it:
`OncePerInterval` excepts that overlap, which is `CooldownHolds` at the level of alerts, and claims
that there is no other way for one process to act twice. A goroutine lives at most 60 seconds
(`handler.go:101`), so it ends before the unit after its own does; one that is `late`, left from the unit
before, may still act, and is not counted. `Goroutines` bounds how many work at once; what they
share besides the cooldown is the matter of `Remediator`. A goroutine reads neither its LLM answer nor its burn rate
from another. `pod[p].spent` (what process `p` did in this unit), `acted`, `lost` and `twice` are history for
`OncePerInterval`, `decided` for `DecidedAgain`.

What the module shows of the configuration besides its properties: an alert that resolves while it is muted is never notified as resolved; and when the
first alert of a group changes, firing and resolved notifications name different events.

### SLOController

| action | code |
|---|---|
| `Apply`, `Delete` | kubectl through the validating webhook |
| `HandWrite` | `bootstrap-ksce.sh` applies the hand-written rules again |
| `StartProcess`, `SyncCaches`, `SyncTimeout`, `Crash` | `main`, and the manager's start |
| `DeliverCR`, `DeliverPR`, `DeliverCM`, `Resync` | watches set up by `SetupWithManager`; `For` and `Owns` decide what is queued |
| `Begin` | the worker takes a name; `Get` of the resource, from the cache |
| `WritePR`/`FailPR`, `WriteCM`/`FailCM` | the two upserts, done or refused |
| `PatchStatus` | the status patch, of which only its effect on the queue is kept (its content: `SLOStatus`) |
| `InstallCRD`, `Collect` | the PrometheusRule CRD appears; garbage collection by owner UID |

controller-runtime and the API server are not in the repository; their actions are modelled
from how the operator uses them and are marked external in the map: reads from caches,
optimistic locking, one worker, a queue without duplicates, and a manager that gives up when
a watched kind is not served. A cached PrometheusRule or ConfigMap is kept only as *absent*,
*current* or *old*, since only that decides whether a write is accepted. A resource declares one
service, that of its name; the PrometheusRule is therefore named by its resource. `versions` and
`reached` are history: the versions submitted, and the one whose rules were written last.
Rules are a list, as in the code: a set of pairs of the position of their SLO and the rule, so that two
SLOs that record one series are two entries. A recording rule carries its name, what it reads, the query it
renders and what it divides by. `RulesSound` says that no series is recorded twice, with the exception that
the code makes: `latency_p99_5m`, appended for every latency SLO by the same expression.

### SLOStatus

| action | code |
|---|---|
| `Apply`, `Delete`, `Toggle` | users change the resource; what the operator can write changes |
| `Deliver`, `Resync`, `Restart` | the watch, which may be several versions behind; the queue; a new process |
| `WriteRules` | Reconcile up to both writes, from the cached copy; each succeeds or fails |
| `PatchStatus` | the conditions and rule names of that copy, as a merge patch: a field that did not change against the copy is left out, a list that changed is sent as a whole, and nothing checks the version |
| `FailPatch` | the patch fails, or its resource is gone; the error is dropped |

The names in the status (they follow from the service) and the times are left out. A condition has its
reason and its message: the fixed words, and what they quote, an error or the counts of rules.
TLC shows what the patch costs: for a while the status may list rules that were never written
with no failure shown, when a patch from an old copy replaces the list of conditions, or leaves
it out; the next Reconcile heals it. Conditions are never set back to False. What can be relied on is stated with
`SLOStatusHistory`, which records what Reconciles did (`QuotesWhatHappened`): the rules listed are those
that one of them derived, and what a condition quotes is an error that one of them met in writing that
object, or the counts of rules it did write. The words around the quotation can be false, see below.

### OrderService

| action | code |
|---|---|
| `Start`, `Terminate`, `Exit`, `Kill` | `main`: fields and gauges from the environment; SIGTERM; the end of `Shutdown`, when nothing is left or after five seconds; a process that is killed |
| `Probe` | the kubelet's readiness probe against `readyz` (rate above 0.9 is not ready), two refusals in a row |
| `SendOrder`, `SendCall`, `RemoveEndpoint` | the Service: any of its endpoints; a pod that is shutting down refuses connections (`Shutdown` closes the listener at once) |
| `TurnAway`, `Accept`, `Sleep`, `CheckFailRate`, `Draw`, `Return`, `Count` | one order: wrong method or a buggy build's 500; `OrdersInFlight.Inc`; `time.Sleep`, on a second reading of `latencyMs`; `failRate > 0`; the draw, on a second reading of `failRate`; the deferred `Dec`; `instrument`, which counts the status |
| `SetFault` | `setFault`, a field or a gauge at a time, in its order; a parameter left out or out of range is skipped |
| `Tick` | a second passes |

Rates are in percent, latencies in seconds. A second is long against a step of the code:
time passes only while every request sleeps and no process is about to exit. The random
draw is a choice: it may fail when the rate is above 0 and succeed when it is below 1.
Metrics live in the process and end with it. `overlapped` remembers, for a property only,
that two calls met in this life of the pod. Reads and writes of the two fields are taken
to be whole (they are words on the build's 64-bit targets). Counted are orders only; the
latency histogram, other paths and tracing are left out.

## Runs

| run | configuration | instance | shows |
|---|---|---|---|
| races | `Remediator_races` | 3 notifications of an incident, firing or resolved, and of the end of its recurrence; clock 0 or 300 s; burn 0 or 14.4; no LLM answer; symmetry; 2.0 million states | `TypeOK`, `CooldownUnlessOverlapped`, `SerialDecisionsKept`, `ReplacedUnlessOverlapped`, `LogsTellTheirEvent` |
| restart | `Remediator_restart` | 2 notifications of an incident or a drill, clock 0 or 300 s, three burn levels, LLM confirms or fails, one restart; 0.4 million states | `ActionsJustified`, `RequestsSettle`, `DecidesAsPromised` |
| cooldown | `Remediator_cooldown` | 2 deliveries | violated: `CooldownHolds` |
| rollout | `AlertFlow_rollout` | two pages of one group; two rounds of alerts; two goroutines at a time; a `repeat_interval` of 2 units; burn 14.4 (rule R-A1); two pods, one process after the first (a restart or a rolling update); symmetry; 0.6 million states | `TypeOK`, `OncePerInterval` |
| alerts | `AlertFlow_alerts` | a page and the ticket it mutes; two rounds; burn 30 (rule R-B1); one pod, one goroutine at a time, one restart; 0.3 million states | `DecidedAgain` |
| handover | `BudgetPolicy_handover` | 2 pods, one after the other or both at once, 5 burn values, one lost answer; deadlock checked | `TypeOK`, `FreezeRemembered`, `FreezeFollowsUnlessLost`, `OwnFreezeThaws` |
| thaw | `BudgetPolicy_thaw` | the same, no lost answer | violated: `ThawFollows` |
| converge | `SLOController_converge` | one resource, one operator, three specs (one that the webhook refuses), 3 edits, 1 crash, every combination of CRD and write permission; deadlock checked; 63 thousand states | `TypeOK`, `RulesSound`, `ConfigMapFollows`, `PrometheusRuleFollows`, `RulesPublished` |
| status | `SLOStatus_status` | `SLOStatusHistory` with one resource, two specs, two events (edits, deletions, restarts, changes of what can be written), a watch one version behind; 87 thousand states | `TypeOK`, `QuotesWhatHappened`, `StatusFollows`, `FailureReported` |
| orders | `OrderService_orders` | one pod, two orders, two calls (rate 0.95 and 5 s; rate 0 and no latency; nothing asked), started with 4 s, one stop or kill, requests arrive in the first second; 0.6 million states | `TypeOK`, `MetricsAgree`, `GaugesShowFaults`, `ShortOrdersFinish`, `ReadinessFollows` |
| fallback, names | `SLOController_*` | one resource, the shipped spec | violated: `ConfigMapFallback`, `ShippedRules` |

Why the bounds are enough. The races need two deliveries; a third one lets a delivery inherit
from one that was itself overwritten, and brings slices to arrays of capacity 1, 2 and 4;
a recurrence supplies a second event under the same group key (its resolution alone, which reads
and drafts a log but appends to none; two events that both append are in the proofs). What longer logs add (headers of
any length that share arrays with room to spare) is the proofs' part. The clock needs two values: within
and after a cooldown of 300 s (R-A1). Burn levels are one per row of the table that behaves
differently: none, a safe row, the dangerous row. Two pods show a hand-over and an
overlap (the shipped Deployment surges to two pods in a rolling update); a third would meet the
same states as the second. While two are up, one may thaw what both
have frozen; `FreezeRemembered` and `FreezeFollowsUnlessLost` except that case, which `bothFroze`
remembers and which is listed as a hazard.
Three edits allow create, change and
delete, or delete and re-create. Pods of the order service share nothing and meet nowhere,
so one pod suffices; two calls are what it takes for a gauge and its field to part, and
a second order is in flight while the first is counted. The latencies 4 and 5 lie on both
sides of the shutdown's five seconds, 0 skips the sleep, and five seconds after the last arrival
every order has woken up. For `rollout`, two members of a group are what it takes for its first one, and so its event, to
change; a second round is a recurrence; two goroutines are a notification and its repetition (inhibition is in
`alerts`).
`repeat_interval` is 2 units instead of 48: R-A1's mark (one unit) has gone by then in both, and
that a mark may outlast it is covered by the theorem, which holds for every interval. In `alerts` the
rule's mark lasts two units, as long as the `repeat_interval`, so that a repeated notification can meet it.
Neither run has the burn rate of the rollback, whose refusals by the LLM are in `restart` and in the proofs: with it
both exceed five minutes. A status
patch meets one change behind its back: two events make the second one (an edit after a write
was forbidden, a deletion and a creation). The watch is one version behind there; the copy in the
worker's hands may be older still, and what a longer lag adds to safety is in the proof.
`Buggy` is FALSE in the run (a buggy build answers 500 without
counting a failed order); the proofs cover both. What holds for more of everything is the proofs' part.

Deadlock is not checked in the runs of `Remediator`, whose deliveries are finite: the model
stops when all are served, and `RequestsSettle` says that none is stuck before. The same
goes for `orders` and for the violation runs; `alerts`, `rollout` and `status` may
stop when nothing more happens, and liveness says in which states.

### What the violations say

1. `CooldownHolds`: `InCooldown` and `Mark` are separate critical sections, so two goroutines
   act within one cooldown (`cooldown.go:1` says otherwise). What does hold, and is proved, is
   `CooldownUnlessOverlapped`.
2. `ThawFollows`: `lastFrozen` dies with the pod, so its successor never thaws
   (`budget_policy.go:4` and `:8`). `OwnFreezeThaws` is what holds.
3. `ConfigMapFallback`: without the PrometheusRule CRD the manager does not start, so the
   ConfigMap that should be the fallback is never written (`slo_controller.go:4-5`).
   `ConfigMapFollows` is the promise once the CRD exists.
4. `ShippedRules`: the latency alert is generated as `OrdersvcHighLatencyTicket`, the manifest
   (`slo-cr-ordersvc.yaml:4`) and the remediator's rule R-C1 call it
   `OrdersvcHighLatencyP99Ticket`; and `latency_p99_5m`, which the manifest promises (line 3) and
   `slo-report.py:39` reads, is recorded only for queries with `histogram_quantile`, which the
   shipped one has not.

Known besides, without a run of their own:

- A firing delivery still waiting for the LLM stores its old event over the resolved one that
  replaced it (`handler.go:114`; `triage.go:5` has no way from resolved to firing). Nothing but such
  an overlap brings a replaced event back: `ReplacedUnlessOverlapped`.
- Of two decisions taken at the same time for one event one is lost, because both append to copies
  of the same log (`triage.go:167` says that an existing event's entries are kept).
  `SerialDecisionsKept` says when a decision is safe.
- Conditions are set to True and never to False, so after a failure and a later success (or the
  reverse) the status claims both (`slo_controller.go:89`; `slo_types.go:87`).
- Every error in writing the PrometheusRule is reported as `CRDMissing`, "PrometheusRule CRD not
  installed" (`slo_controller.go:92`): a conflict, or RBAC. An operator that gets to report it has found
  the CRD, since without it the manager does not start (`ConfigMapFallback`). The error
  quoted after these words is the one that occurred: `QuotesWhatHappened`.
- A spec with two latency SLOs records `latency_p99_5m` twice, by the same expression
  (`rule_generator.go:106`); `RulesSound` excepts it.
- A header read while its owner appends can lead behind its array (`triage.go:170`, `handler.go:119`):
  the process may end, or a log may show what is not its own. `LogsTellTheirEvent` is what holds
  before.
- All SLO resources write the one ConfigMap as a whole, so of two the one that was reconciled last
  has its rules loaded (`slo_controller.go:78`, against lines 4-5). `RulesPublished` is what holds for
  any number.
- The routes for pages and tickets have `continue`, but no later route matches, and the root's
  receiver is used only when none does, so neither reaches people through Feishu
  (`alertmanager.yaml:27`).
- The drill alert that Prometheus ships (`prometheus.yaml:152`) has no `slo` label and inhibits no
  page of an SLO (`alertmanager.yaml:5`). The remediator's own guard looks at the first alert of a
  notification, which in that case is the page.

## Fairness

- `Remediator`: weak fairness of each goroutine's next step. Every call has a timeout (5 to 60
  seconds) and no lock is held across a call. Nothing makes notifications arrive, time pass or
  the process restart.
- `BudgetPolicy`: the ticker fires for ever, so a pod that stays up gets the true rate again and
  again (strong fairness, since answers without data may come between) and kubectl succeeds again
  and again. Nothing starts a pod or moves the rate.
- `SLOController`: the kubelet restarts the pod, watches deliver, the resync timer fires, the
  worker takes every queued name, the garbage collector runs (weak fairness, strong for
  taking one name among several); a write that is possible again and again is at some time not
  refused (strong fairness per operator and resource). Nothing installs the CRD.
- `SLOStatus`: watches deliver, the resync timer fires, the worker goes on (weak fairness), and a
  patch that is sent again and again is not refused for ever (strong fairness). Nothing makes
  users act or a part writable.
- `AlertFlow`: time passes, a pod is always up, and groups are flushed (weak fairness); a webhook that is sent again
  and again is answered in the end (strong fairness, since each attempt may be given up).
  Nothing makes alerts fire or resolve.
- `OrderService`: the kubelet starts pods and probes them, endpoints of stopping pods are
  removed, `main` returns from `Shutdown`, goroutines run and time passes (weak fairness).
  Nothing sends requests, stops or kills.

## Proofs

TLAPS proves the following for every value of the constants that the named assumptions
allow; the assumptions say only that sets hold values of the right kind, and TLC
evaluates them in the runs.

| theorem | module | says |
|---|---|---|
| `MatchTakesHighest` | `RemediateRulesProofs` | Match returns the matching row of highest threshold |
| `TypeCorrect` | `RemediatorProofs` | `[]TypeOK` |
| `EveryActionJustified` | `RemediatorProofs` | `[]ActionsJustified` |
| `CooldownKept` | `RemediatorProofs` | `[]CooldownUnlessOverlapped` |
| `SerialDecisionsStay` | `RemediatorDecisionProofs` | `[]SerialDecisionsKept` |
| `LogsStayTrue` | `RemediatorDecisionProofs` | `[]LogsTellTheirEvent` |
| `ReplacedStays` | `RemediatorDecisionProofs` | `[]ReplacedUnlessOverlapped` |
| `DecisionsAsPromised` | `RemediatorDecisionProofs` | `Remediator` implements `Remediation` |
| `FlowTypeCorrect` | `AlertFlowProofs` | `[]TypeOK` |
| `ActsOncePerInterval` | `AlertFlowProofs` | `[]OncePerInterval`, for any alerts, groups, burn rates, intervals, goroutines and pods |
| `TypeCorrect` | `BudgetPolicyProofs` | `[]TypeOK` |
| `FreezeIsRemembered` | `BudgetPolicyProofs` | `[]FreezeRemembered`, for any pods, any number of them up at once |
| `OperatorTypeCorrect` | `SLOControllerProofs` | `[]TypeOK` |
| `RulesStaySound` | `SLOControllerProofs` | `[]RulesSound`, any number of resources and operators |
| `OperatorPublishes` | `SLOControllerProofs` | `SLOController` implements `RulePublication`, any number of resources and operators |
| `StatusTypeCorrect` | `SLOStatusProofs` | `[]TypeOK` |
| `StatusQuotes` | `SLOStatusProofs` | `[]QuotesWhatHappened` |
| `TypeCorrect` | `OrderServiceProofs` | `[]TypeOK` |
| `GaugesFollow` | `OrderServiceProofs` | `[]GaugesShowFaults` |
| `ShortOrdersSurvive` | `OrderServiceProofs` | `[]ShortOrdersFinish`, whatever the load and the latencies |
| `MetricsKept` | `OrderServiceProofs` | `[]MetricsAgree`, for finitely many orders, buggy builds included |

*Remediator.* `IInv` is the conjunction of `TypeOK`, `Fresh` (an array not yet allocated is named by
nobody), `OwnEvent`, `Progress` (what a goroutine's position says about its log, its mark
and its life), `Guarded` (a delivery on its way to an action passed every guard), `CooldownMap`
(an entry of `last` is no older than any mark of this life, and a delivery about to mark lies a
cooldown after every mark its check could see) and the cooldown property. `OwnEvent` has two parts.
Stored pointers and the arrays that headers name stay within one event always, whatever lengths and
capacities were read with them (`OwnPointers`). Every cell of an array, and every draft, does so until
an access goes behind an array (`OwnEntries`). The cells beyond a header's length are included, although
`LogsTellTheirEvent` does not look at them, because an append makes another header's cells of them.

*SerialDecisionsKept* and *LogsTellTheirEvent.* `SInv` follows a decision `d` that was taken alone
(`SettledAlone`): its entry stands in cell `Position(d)`, in the array of the stored event and of every
*heir* (`Heir`: a delivery of the event that is at work, or one that had its Triage when `d` was
settled), and within the length of their headers (`Inherited`). While an heir's append can be read
half written, one cell less must do (`Holds`), because the reader may find the old length. So
whatever is read, the cell is inherited; and an append writes the cell behind its header's length, which is
after `d`'s. `SettledBefore` says that what was settled at a delivery's Triage is so still, which makes
`Inherited` a statement about inherited logs. `OwnCell` is the beginning: between its append and its
last Upsert `d` has its own entry, because nobody else is there (`Alone`). All of it but
`Alone`, `OnlyResolved` and `SettledBefore` holds until an access goes behind an array. A delivery of
another event never touches the array (`OwnEvent`).

*ReplacedUnlessOverlapped.* Only a delivery between its Triage and its last Upsert writes to the
store. `RInv` says that whoever is found in the store has written there (`StoredByOwner`), so that,
unless it overlapped, it is past its last Upsert when it is found, and that it is not in the store
once the delivery that found it has stored its own event.

*DecidesAsPromised.* The refinement maps the state of a goroutine to a stage and forgets the store,
the logs and the arrays; every step maps to one of `Remediation` or to a stutter. The two differ in
what forbids an action: the code looks at `last`, which keeps one time for each rule and event,
the abstract module at every mark of this process. They agree because the last mark is the
latest one (`CooldownMap`) and is one that a delivery of this process made (`LastIsMark`), and because
the rule that a delivery marks is the one its check matched (`RuleKept`). That the answer is the
delivery's own, not the inherited one, is `Guarded`.

*AlertFlow.* `GroupInv` speaks of the goroutines that work on events of the current unit (`OnTime`). While
there is one for a group, or once a rule was `spent` on it, the group stays flushed until the unit ends
(`Flushed`), so the only notification that can follow is the one on its wire, again. Its event is the one
that all of these goroutines work on (`WorkOn`), and the one whose mark the process has set, which outlasts the
unit (`SpentOn`; `Rules` has no cooldown below 300 s): a check that comes after the mark fails. A new
process has neither marks nor `spent` nor goroutines. For all processes together (`AloneOn`): a group
without a lost reply has one goroutine at most, nothing on its wire beside it, and no action before it.
For the types, the first alert of a
notification must exist: a non-empty set of paths has a least element, which follows from the
well-founded order of the naturals without an induction of our own (`LeastOf`).

*BudgetPolicy.* `FreezeRemembered` is inductive together with three facts: a pod that has not
started remembers nothing (`NewForgets`), a pod thaws only what it remembers to have frozen
(`ThawsOwn`), and if two pods remember a freeze, `bothFroze` says so (`TwoRecorded`).

*SLOController.* `RulesSound` follows from `Admitted`: whatever the API server, a cache, a running
Reconcile or the ConfigMap holds was admitted by the webhook; and from two lemmas about the
generator: alerts read only recorded series, expressions of queries that parse are not empty,
objectives below 100 leave a divisor, and of two entries of the list that record one series the names tell
that they are the same entry, or both are `latency_p99_5m`. `OperatorPublishes` rests on `Traced` (a spec on its way anywhere is
one of a submitted version, and the API server has the latest of each resource) and, for a
single operator, on `Forward` (what it works on is not older than what it published, and its
cache is not older than either); every step then maps to a step of `RulePublication` or to a
stutter.

*SLOStatus.* A patch mixes fields of two versions; the types hold because each field comes whole
from one of them. `QuotesWhatHappened` is inductive together with the same statement about every copy of
a status on its way (`HInv`): in the watch, in the worker's hands, and in the patch, which is
computed against an old copy and merged into a newer one. A list that is sent as a whole holds what
its copy held and what this Reconcile did; a field that is left out keeps what was true before.

*OrderService.* `FaultInv` says which gauges may differ from their fields while the only call of a
pod is between the two assignments. `TimeInv` says that a sleeping order's wake-up lies no
later than its sleep after now, and that an order in a draining pod is due within its sleep of
the moment of SIGTERM, so that one cut off at the deadline has slept five seconds.
`MetricInv` equates each difference between two counters with the number of orders that
passed the first and not yet the second; `Balance` is the step lemma: an order's change of
record and its pod's change of metrics must match.

Every safety property that a passing run checks is proved. Only model-checked are the properties
that need fairness (`RequestsSettle`, `FreezeFollowsUnlessLost`, `OwnFreezeThaws`, `ConfigMapFollows`,
`PrometheusRuleFollows`, `StatusFollows`, `FailureReported`, `DecidedAgain`, `ReadinessFollows`),
which are out of this prover's reach. `DecidesAsPromised` and `RulesPublished` carry no fairness,
and neither do their abstract specifications.

## Not modelled

- Of SLO resources: labels, annotations, durations; in the status the names and times.
- In passing runs, two SLO resources (both write the one ConfigMap) and two operators
  overlapping in a rolling update (no leader election): `SLOController` allows both, the proofs
  cover them, and `RulePublication` says what remains true, but a run of the size of `converge`
  with either exceeds five minutes.
- Restarts of Alertmanager, silences, Feishu.
- What the executors do beyond success or failure: `fault_reset` reaches one pod of several, on
  a port the Service does not have; `ScaleUp` may scale down under an HPA. `spec.pause` and
  `status.abort` are taken to have the effect the code intends; the Rollout CRD is not here (Argo
  Rollouts reads `spec.paused` and takes status through a subresource).
- Requests lost between SIGTERM and the removal of the endpoint: `OrderService` has them as
  "refused" (the pod has no preStop hook), but no property counts them; the manifest's promise
  of releases without downtime (`ordersvc.yaml:43`) is about rolling updates, which are not modelled.
- Canary analysis (Argo Rollouts, not in the repository) and retrieval of runbooks for prompts
  (text that no decision reads but through the LLM's answer). Scripts, IaC and dashboards are sequential or declarative; generated code and metrics carry no logic.

## Plan

1. (done) `RemediateRules`, `Remediator`: the concurrent pipeline, with proofs.
2. (done) `BudgetPolicy`: memory against cluster, with proofs.
3. (done) `RuleGenerator`, `SLOController`: the operator, with proofs.
4. (done) `OrderService`: orders, fault injection, readiness and shutdown, with proofs.
5. (done) `RulePublication`: the abstract operator, refined by `SLOController`, with proof.
6. (done) `SerialDecisionsKept` proved.
7. (done) `AlertFlow`: grouping, inhibition, repetition and the remediator behind them, with a proof.
8. (done) `SLOStatus`, `SLOStatusHistory`: the status patch, with proofs of its types and of what
   it tells.
9. (done) `Remediation`, refined by `Remediator`, with proof; several remediator pods in `AlertFlow`
   and `BudgetPolicy`, with proofs.
10. `ClosedLoop`: several pods with the interface of `OrderService`, the rule table and the
   cooldown composed: when injections stop, do resets and scaling bring the burn rate down?
   With the HPA's bounds for `ScaleUp`. What to expect: a reset reaches one ready pod, and
   at a burn rate of 50 `Match` picks the rollback row, so the reset of R-A1 never runs.
11. The sections a postmortem draft must have.
