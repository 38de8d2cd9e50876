---------------------------- MODULE SLOController ----------------------------
(***************************************************************************)
(* The SLO operator (operator/internal/controller/slo_controller.go,       *)
(* operator/cmd/main.go, operator/api/v1/slo_webhook.go) between the       *)
(* Kubernetes API server and the ConfigMap that Prometheus loads.          *)
(*                                                                         *)
(* The manager of controller-runtime is modelled from how the operator     *)
(* uses it: reads go to caches that watches fill later, one worker takes   *)
(* names from a queue without duplicates, and a write is refused when the  *)
(* object is not the one the cache showed (resourceVersion, AlreadyExists).*)
(* Reconcile returns no error, so a failed write is tried again only when  *)
(* something else queues the name.                                         *)
(*                                                                         *)
(* A resource declares one service, that of its name; a PrometheusRule is  *)
(* therefore named by its resource.  Status fields are left out: of the    *)
(* status patch only its effect on the queue is kept.                      *)
(***************************************************************************)
EXTENDS RuleGenerator, FiniteSets

CONSTANTS
    CRs,            \* names of SLO resources
    Ops,            \* operator pods
    Specs,          \* specs users may submit
    None,           \* no object
    Handwritten,    \* the ConfigMap of observability/prometheus/prometheus.yaml
    Webhook,        \* ENABLE_WEBHOOK
    MaxEdits,       \* bound on what users change
    MaxCrashes      \* bound on exits of running operators

ASSUME ConstantsAssumption ==
    /\ Specs \subseteq Seq(SLOItem)
    /\ Webhook \in BOOLEAN
    /\ None \notin CRs \X Specs /\ Handwritten \notin CRs \X Specs
    /\ None \notin [uid : Nat, spec : Specs]
    /\ None \notin [uid : Nat, gen : Nat, spec : Specs]
    /\ None \notin [cr : CRs, uid : Nat, gen : Nat, spec : Specs, stage : {"pr", "cm", "status"}]
ASSUME BoundsAssumption == MaxEdits \in Nat /\ MaxCrashes \in Nat

VARIABLES
    cr,         \* SLO resources in the API server
    pr,         \* PrometheusRules, by resource
    cm,         \* the data of observability/prometheus-rules
    crd,        \* whether the PrometheusRule CRD is installed
    prWritable, \* whether PrometheusRules can be written at all
    proc,       \* each operator: down, waiting for its caches, running
    crSeen,     \* its cached resources
    crNews,     \* resources whose latest change its watch has not delivered
    prSeen,     \* its cached PrometheusRules: absent, the current one, an old one
    cmSeen,     \* its cached ConfigMap, likewise
    queue,      \* its work queue
    work,       \* the Reconcile it is running
    edits, crashes,
    versions,   \* history: the versions of resources submitted so far
    reached     \* history: the version of a resource written to cm last

api == << cr, pr, cm, crd, prWritable >>
caches == << crSeen, crNews, prSeen, cmSeen >>
history == << versions, reached >>
vars == << cr, pr, cm, crd, prWritable, proc, crSeen, crNews, prSeen, cmSeen,
           queue, work, edits, crashes, versions, reached >>

Marks == {"absent", "current", "old"}
Mark(object) == IF object = None THEN "absent" ELSE "current"
Aged(mark) == IF mark = "current" THEN "old" ELSE mark

Init ==
    /\ cr = [s \in CRs |-> None]
    /\ pr = [s \in CRs |-> None]
    /\ cm \in {None, Handwritten}
    /\ crd \in BOOLEAN
    /\ prWritable \in BOOLEAN
    /\ proc = [o \in Ops |-> "down"]
    /\ crSeen = [o \in Ops |-> [s \in CRs |-> None]]
    /\ crNews = [o \in Ops |-> {}]
    /\ prSeen = [o \in Ops |-> [s \in CRs |-> "absent"]]
    /\ cmSeen = [o \in Ops |-> "absent"]
    /\ queue = [o \in Ops |-> {}]
    /\ work = [o \in Ops |-> None]
    /\ edits = 0
    /\ crashes = 0
    /\ versions = {}
    /\ reached = [s \in CRs |-> 0]

Running(o) == proc[o] = "running"

(* Watches of every operator still have to deliver a change of s.          *)
Announce(s) == crNews' = [o \in Ops |-> crNews[o] \cup {s}]

(* A PrometheusRule, the ConfigMap has changed: cached copies are old.     *)
AgePR(s) == prSeen' = [o \in Ops |-> [prSeen[o] EXCEPT ![s] = Aged(@)]]
AgeCM == cmSeen' = [o \in Ops |-> Aged(cmSeen[o])]

-----------------------------------------------------------------------------
(* Users and the API server.                                               *)

(* kubectl apply of a resource, through the validating webhook.  Versions  *)
(* are numbered by the edit that made them.                                *)
Apply(s, v) ==
    /\ edits < MaxEdits
    /\ Webhook => validateSLO(v)
    /\ IF cr[s] = None
       THEN cr' = [cr EXCEPT ![s] = [uid |-> edits, gen |-> edits + 1, spec |-> v]]
       ELSE /\ cr[s].spec # v
            /\ cr' = [cr EXCEPT ![s] = [uid |-> cr[s].uid, gen |-> edits + 1, spec |-> v]]
    /\ edits' = edits + 1
    /\ versions' = versions \cup {[cr |-> s, gen |-> edits + 1, spec |-> v]}
    /\ Announce(s)
    /\ UNCHANGED << pr, cm, crd, prWritable, proc, crSeen, prSeen, cmSeen,
                    queue, work, crashes, reached >>

(* kubectl delete; nothing holds the resource back.                        *)
Delete(s) ==
    /\ cr[s] # None /\ edits < MaxEdits
    /\ cr' = [cr EXCEPT ![s] = None]
    /\ edits' = edits + 1
    /\ Announce(s)
    /\ UNCHANGED << pr, cm, crd, prWritable, proc, crSeen, prSeen, cmSeen,
                    queue, work, crashes, history >>

(* bootstrap-ksce.sh applies the handwritten rules once more.              *)
HandWrite ==
    /\ cm # Handwritten /\ edits < MaxEdits
    /\ cm' = Handwritten
    /\ edits' = edits + 1
    /\ AgeCM
    /\ UNCHANGED << cr, pr, crd, prWritable, proc, crSeen, crNews, prSeen,
                    queue, work, crashes, history >>

InstallCRD ==
    /\ ~crd /\ crd' = TRUE
    /\ UNCHANGED << cr, pr, cm, prWritable, proc, caches, queue, work, edits, crashes, history >>

(* The garbage collector deletes a PrometheusRule whose owner, by UID, is  *)
(* gone (SetControllerReference at its creation).                          *)
Collect(s) ==
    /\ pr[s] # None
    /\ cr[s] # None => cr[s].uid # pr[s].uid
    /\ pr' = [pr EXCEPT ![s] = None]
    /\ AgePR(s)
    /\ UNCHANGED << cr, cm, crd, prWritable, proc, crSeen, crNews, cmSeen,
                    queue, work, edits, crashes, history >>

-----------------------------------------------------------------------------
(* The manager.                                                            *)

StartProcess(o) ==
    /\ proc[o] = "down"
    /\ proc' = [proc EXCEPT ![o] = "starting"]
    /\ UNCHANGED << api, caches, queue, work, edits, crashes, history >>

(* The caches are filled and the first list queues every resource.         *)
SyncCaches(o) ==
    /\ proc[o] = "starting" /\ crd
    /\ proc' = [proc EXCEPT ![o] = "running"]
    /\ crSeen' = [crSeen EXCEPT ![o] = cr]
    /\ crNews' = [crNews EXCEPT ![o] = {}]
    /\ prSeen' = [prSeen EXCEPT ![o] = [s \in CRs |-> Mark(pr[s])]]
    /\ cmSeen' = [cmSeen EXCEPT ![o] = Mark(cm)]
    /\ queue' = [queue EXCEPT ![o] = {s \in CRs : cr[s] # None \/ pr[s] # None}]
    /\ UNCHANGED << api, work, edits, crashes, history >>

(* Owns(PrometheusRule) waits for a kind the API server does not serve:    *)
(* after CacheSyncTimeout Start returns an error and main exits.           *)
SyncTimeout(o) ==
    /\ proc[o] = "starting" /\ ~crd
    /\ proc' = [proc EXCEPT ![o] = "down"]
    /\ UNCHANGED << api, caches, queue, work, edits, crashes, history >>

(* The pod is killed, at any point of a Reconcile.                         *)
Crash(o) ==
    /\ Running(o) /\ crashes < MaxCrashes
    /\ proc' = [proc EXCEPT ![o] = "down"]
    /\ queue' = [queue EXCEPT ![o] = {}]
    /\ work' = [work EXCEPT ![o] = None]
    /\ crashes' = crashes + 1
    /\ UNCHANGED << api, caches, edits, history >>

(* For(&v1.SLO{}): a watch event refreshes the cache and queues the name.  *)
DeliverCR(o, s) ==
    /\ Running(o) /\ s \in crNews[o]
    /\ crSeen' = [crSeen EXCEPT ![o][s] = cr[s]]
    /\ crNews' = [crNews EXCEPT ![o] = @ \ {s}]
    /\ queue' = [queue EXCEPT ![o] = @ \cup {s}]
    /\ UNCHANGED << api, proc, prSeen, cmSeen, work, edits, crashes, history >>

(* Owns(PrometheusRule): the owner's name is queued.                       *)
DeliverPR(o, s) ==
    /\ Running(o) /\ prSeen[o][s] # Mark(pr[s])
    /\ prSeen' = [prSeen EXCEPT ![o][s] = Mark(pr[s])]
    /\ queue' = [queue EXCEPT ![o] = @ \cup {s}]
    /\ UNCHANGED << api, proc, crSeen, crNews, cmSeen, work, edits, crashes, history >>

(* Owns(ConfigMap): the ConfigMap is in another namespace and has no       *)
(* owner, so nothing is queued.                                            *)
DeliverCM(o) ==
    /\ Running(o) /\ cmSeen[o] # Mark(cm)
    /\ cmSeen' = [cmSeen EXCEPT ![o] = Mark(cm)]
    /\ UNCHANGED << api, proc, crSeen, crNews, prSeen, queue, work, edits, crashes, history >>

(* The informers' periodic resync queues every cached resource.            *)
Resync(o) ==
    /\ Running(o)
    /\ queue' = [queue EXCEPT ![o] = @ \cup {s \in CRs : crSeen[o][s] # None}]
    /\ UNCHANGED << api, proc, caches, work, edits, crashes, history >>

-----------------------------------------------------------------------------
(* Reconcile.                                                              *)

GoTo(o, stage) == work' = [work EXCEPT ![o].stage = stage]

(* Get of the resource, from the cache; not found ends the Reconcile.      *)
Begin(o, s) ==
    /\ Running(o) /\ work[o] = None /\ s \in queue[o]
    /\ queue' = [queue EXCEPT ![o] = @ \ {s}]
    /\ work' = [work EXCEPT ![o] =
                  IF crSeen[o][s] = None THEN None
                  ELSE [cr |-> s, uid |-> crSeen[o][s].uid, gen |-> crSeen[o][s].gen,
                        spec |-> crSeen[o][s].spec, stage |-> "pr"]]
    /\ UNCHANGED << api, proc, caches, edits, crashes, history >>

At(o, stage) == Running(o) /\ work[o] # None /\ work[o].stage = stage

(* A write goes through when the object is as the cache shows it.          *)
Accepted(mark, object) ==
    \/ mark = "absent" /\ object = None
    \/ mark = "current"

(* Mutant of Upserted: an existing PrometheusRule is left as it is.        *)
CreatedOnly(w) == IF pr[w.cr] = None THEN [uid |-> w.uid, spec |-> w.spec] ELSE pr[w.cr]

(* The PrometheusRule written for w; an update keeps the owner it finds.   *)
Upserted(w) ==
    IF pr[w.cr] = None THEN [uid |-> w.uid, spec |-> w.spec]
                       ELSE [pr[w.cr] EXCEPT !.spec = w.spec]

(* upsertPrometheusRule.                                                   *)
WritePR(o) ==
    LET w == work[o] IN
    /\ At(o, "pr") /\ prWritable
    /\ Accepted(prSeen[o][w.cr], pr[w.cr])
    /\ pr' = [pr EXCEPT ![w.cr] = Upserted(w)]
    /\ IF pr' = pr THEN UNCHANGED prSeen ELSE AgePR(w.cr)
    /\ GoTo(o, "cm")
    /\ UNCHANGED << cr, cm, crd, prWritable, proc, crSeen, crNews, cmSeen,
                    queue, edits, crashes, history >>

(* Mutant of AfterPRError: the error ends the Reconcile.                   *)
StopOnPRError(o) == work' = [work EXCEPT ![o] = None]

(* prErr is noted and blocks nothing.                                      *)
AfterPRError(o) == GoTo(o, "cm")

(* A conflict, an object that exists already, a write refused.             *)
FailPR(o) ==
    /\ At(o, "pr")
    /\ AfterPRError(o)
    /\ UNCHANGED << api, proc, caches, queue, edits, crashes, history >>

(* Mutant of Written: no SLO makes it into the rules.                      *)
WrittenEmpty(o) == << work[o].cr, << >> >>

(* What upsertConfigMap leaves in the data of the ConfigMap.               *)
Written(o) == << work[o].cr, work[o].spec >>

(* upsertConfigMap replaces the data whoever wrote them.                   *)
WriteCM(o) ==
    /\ At(o, "cm")
    /\ Accepted(cmSeen[o], cm)
    /\ cm' = Written(o)
    /\ IF cm' = cm THEN UNCHANGED cmSeen ELSE AgeCM
    /\ reached' = [reached EXCEPT ![work[o].cr] = work[o].gen]
    /\ GoTo(o, "status")
    /\ UNCHANGED << cr, pr, crd, prWritable, proc, crSeen, crNews, prSeen,
                    queue, edits, crashes, versions >>

FailCM(o) ==
    /\ At(o, "cm")
    /\ GoTo(o, "status")
    /\ UNCHANGED << api, proc, caches, queue, edits, crashes, history >>

(* Status().Patch, its error dropped.  It changes the resource, and so     *)
(* queues it again, unless LastReconcileAt falls in the second it already  *)
(* shows.                                                                  *)
PatchStatus(o) ==
    /\ At(o, "status")
    /\ work' = [work EXCEPT ![o] = None]
    /\ \/ UNCHANGED crNews
       \/ cr[work[o].cr] # None /\ Announce(work[o].cr)
    /\ UNCHANGED << api, proc, crSeen, prSeen, cmSeen, queue, edits, crashes, history >>

Reconcile(o) == WritePR(o) \/ FailPR(o) \/ WriteCM(o) \/ FailCM(o) \/ PatchStatus(o)

Deliver(o) == DeliverCM(o) \/ \E s \in CRs : DeliverCR(o, s) \/ DeliverPR(o, s)

Next ==
    \/ \E s \in CRs : Delete(s) \/ Collect(s) \/ \E v \in Specs : Apply(s, v)
    \/ HandWrite \/ InstallCRD
    \/ \E o \in Ops :
          \/ StartProcess(o) \/ SyncCaches(o) \/ SyncTimeout(o) \/ Crash(o)
          \/ Deliver(o) \/ Resync(o)
          \/ \E s \in CRs : Begin(o, s)
          \/ Reconcile(o)

(* The kubelet restarts the pod, watches deliver, the resync timer fires   *)
(* (every 10 hours by default), the worker takes every queued name in      *)
(* turn, the garbage collector runs, and a write that is possible again    *)
(* and again is not refused for ever.  Nothing installs the CRD.           *)
Fairness ==
    /\ \A s \in CRs : WF_vars(Collect(s))
    /\ \A o \in Ops :
          /\ WF_vars(StartProcess(o)) /\ WF_vars(SyncCaches(o)) /\ WF_vars(SyncTimeout(o))
          /\ WF_vars(DeliverCM(o)) /\ WF_vars(Resync(o))
          /\ \A s \in CRs : WF_vars(DeliverCR(o, s)) /\ WF_vars(DeliverPR(o, s))
          /\ \A s \in CRs : SF_vars(Begin(o, s))
          /\ WF_vars(Reconcile(o))
          /\ \A s \in CRs :
                /\ SF_vars(WritePR(o) /\ work[o].cr = s)
                /\ SF_vars(WriteCM(o) /\ work[o].cr = s)

Spec == Init /\ [][Next]_vars /\ Fairness

-----------------------------------------------------------------------------
(* Properties.                                                             *)

Objects == [uid : 0..MaxEdits, gen : 1..MaxEdits, spec : Specs]
PrometheusRules == [uid : 0..MaxEdits, spec : Specs]
Works == [cr : CRs, uid : 0..MaxEdits, gen : 1..MaxEdits, spec : Specs,
          stage : {"pr", "cm", "status"}]

(* The type invariant.                                                     *)
TypeOK ==
    /\ cr \in [CRs -> Objects \cup {None}]
    /\ pr \in [CRs -> PrometheusRules \cup {None}]
    /\ cm \in (CRs \X Specs) \cup {None, Handwritten}
    /\ crd \in BOOLEAN
    /\ prWritable \in BOOLEAN
    /\ proc \in [Ops -> {"down", "starting", "running"}]
    /\ crSeen \in [Ops -> [CRs -> Objects \cup {None}]]
    /\ crNews \in [Ops -> SUBSET CRs]
    /\ prSeen \in [Ops -> [CRs -> Marks]]
    /\ cmSeen \in [Ops -> Marks]
    /\ queue \in [Ops -> SUBSET CRs]
    /\ work \in [Ops -> Works \cup {None}]
    /\ edits \in 0..MaxEdits
    /\ crashes \in 0..MaxCrashes
    /\ versions \in SUBSET [cr : CRs, gen : 1..MaxEdits, spec : Specs]
    /\ reached \in [CRs -> 0..MaxEdits]

Parses(i) == "broken" \notin {i.events.error, i.events.total, i.raw.ratio}

(* Rules derived from specs that the webhook admitted: an alert reads only *)
(* series that the rules record, as long as its windows are among the five *)
(* that are recorded; no rule has an empty expression, with which          *)
(* Prometheus would refuse the whole file, as long as the queries parse;   *)
(* none divides by nothing, unless an objective is 100 percent; and no     *)
(* series is recorded by two rules, unless two SLOs count events or have   *)
(* names that sanitize makes equal, with one exception: latency_p99_5m is  *)
(* recorded once for every latency SLO (lines 104 to 112 of                *)
(* rule_generator.go), each time by the same expression.                   *)
RulesSound ==
    Webhook =>
        \A s \in CRs, v \in Specs : cm = << s, v >> =>
            /\ (\A i \in Items(v) : WindowsRecorded(i)) =>
                  \A a \in Rules(buildAlertRules(s, v)) : a.reads \subseteq Recorded(s, v)
            /\ (\A i \in Items(v) : Parses(i)) =>
                  \A r \in Rules(buildRecordingRules(s, v)) : r.query # "empty"
            /\ (\A i \in Items(v) : i.objective # 1000) =>
                  \A r \in Rules(buildRecordingRules(s, v)) : r.divisor # 0
            /\ Distinct(v) =>
                  \A e, f \in buildRecordingRules(s, v) : e[2].name = f[2].name =>
                      \/ e = f
                      \/ e[2] = LatencyRule(s) /\ f[2] = LatencyRule(s)

Only(s, v) == cr[s] # None /\ cr[s].spec = v /\ \A t \in CRs \ {s} : cr[t] = None

(* When one resource remains and keeps its spec, Prometheus ends up with   *)
(* its rules, once the PrometheusRule CRD is installed: whatever was       *)
(* refused, lost in a crash, read from an old cache or written by hand     *)
(* before, and whether or not PrometheusRules can be written (step 3 of    *)
(* Reconcile runs after any outcome of step 2).                            *)
ConfigMapFollows ==
    \A s \in CRs, v \in Specs : <>[](Only(s, v) /\ crd) => <>[](cm = << s, v >>)

(* The PrometheusRule follows its resource through updates, deletion and   *)
(* creation under the same name, where PrometheusRules can be written.     *)
PrometheusRuleFollows ==
    \A s \in CRs :
        /\ \A v \in Specs :
              <>[](cr[s] # None /\ cr[s].spec = v /\ crd /\ prWritable)
              => <>[](cr[s] # None /\ pr[s] = [uid |-> cr[s].uid, spec |-> v])
        /\ <>[](cr[s] = None) => <>[](pr[s] = None)

(* What the operator promises of the rules Prometheus loads: they are of a *)
(* version that was submitted, and one operator alone never goes back to   *)
(* an older version of a resource, although it writes from a cache, after  *)
(* other writes and after crashes.  Two operators may (main.go, line 40).  *)
Publication == INSTANCE RulePublication WITH
    Resources <- CRs, Numbers <- 1..MaxEdits, rules <- cm,
    Serial <- \A o, q \in Ops : o = q

RulesPublished == Publication!Spec

-----------------------------------------------------------------------------
(* What comments of the code say and the code does not keep.               *)

(* slo_controller.go, line 5: the PrometheusRule CRD may be missing, and   *)
(* the ConfigMap makes sure that Prometheus loads the rules all the same.  *)
ConfigMapFallback ==
    \A s \in CRs, v \in Specs : <>[]Only(s, v) => <>[](cm = << s, v >>)
=============================================================================
