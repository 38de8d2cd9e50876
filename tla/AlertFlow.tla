------------------------------ MODULE AlertFlow ------------------------------
(***************************************************************************)
(* The way of an alert: Prometheus raises it, Alertmanager groups, mutes   *)
(* and notifies (observability/alertmanager/alertmanager.yaml), and the    *)
(* remediator takes each notification for an event and acts on it, again   *)
(* and again while the alert lasts, in a process whose events and marks    *)
(* are its own (triage.go, rules.go, cooldown.go).  A rolling update of    *)
(* the Deployment (remediator.yaml, with no strategy of its own) starts    *)
(* the new pod before it stops the old one, and the Service sends a        *)
(* notification to either.                                                 *)
(*                                                                         *)
(* Alertmanager is modelled from the configuration given to it.  One unit  *)
(* of time is a group_interval of 300 seconds, in which a group that       *)
(* existed at its beginning is flushed once, and a new one (group_wait)    *)
(* may be.  What happens within a unit has no distance; a notification of  *)
(* the next unit comes 300 seconds later.                                  *)
(*                                                                         *)
(* handleWebhook replies as soon as it has started a goroutine, which      *)
(* spends up to a minute on Loki and the LLM before the rules see the      *)
(* event: it may still be at work when the next unit begins, but not when  *)
(* that ends.  Remediator models what else the goroutines of a process     *)
(* share.                                                                  *)
(***************************************************************************)
EXTENDS RemediateRules, FiniteSets

CONSTANTS
    Alerts,         \* the alerts Prometheus may raise
    None,           \* nothing
    Pods,           \* pods of the remediator, in turn or at once
    Goroutines,     \* those that may be at work at once, on firing events
    RepeatInterval, \* repeat_interval, in units
    BurnLevels,     \* values of burn5m
    Verdicts,       \* values Infer may return
    MaxRaises,      \* bound on the times alerts begin to fire
    MaxRestarts     \* bound on processes after the first

Alert == [name : STRING, slo : STRING, severity : STRING, chaos : BOOLEAN, path : Nat]

ASSUME AlertsAssumption == Alerts \subseteq Alert
ASSUME NoneAssumption == None \notin [firing : BOOLEAN, starts : Nat]
ASSUME InputsAssumption == BurnLevels \subseteq Int /\ Verdicts \subseteq LLMResults
ASSUME BoundsAssumption ==
    RepeatInterval \in Nat \ {0} /\ MaxRaises \in Nat /\ MaxRestarts \in Nat

VARIABLES
    held,       \* the alerts Alertmanager holds, firing or resolved
    turn,       \* each group in this unit: new or empty, to be flushed, flushed
    nflog,      \* what was last notified of a group, and how long ago
    wire,       \* the notification being sent: its alerts as they were
    up, pod,    \* the pods that run, and the process of each
    tasks,      \* the event each goroutine works on
    raises, restarts,
    decided,    \* history: groups decided on in this unit, outside cooldown
    acted,      \* history: the rules that acted on events of this unit
    lost,       \* history: groups with a lost reply in this unit
    twice       \* history: a rule was taken again when it should not have been

history == << acted, lost, twice >>
vars == << held, turn, nflog, wire, up, pod, tasks, raises, restarts, decided, history >>

-----------------------------------------------------------------------------
(* alertmanager.yaml.                                                      *)

(* group_by.  The alerts of a group differ in their path.                  *)
GroupOf(a) == << a.name, a.slo, a.severity >>
Groups == {GroupOf(a) : a \in Alerts}
Severity(g) == g[3]

Routes ==
    << [severity |-> "info",   receiver |-> "null-receiver",      continue |-> FALSE],
       [severity |-> "page",   receiver |-> "remediator-webhook", continue |-> TRUE],
       [severity |-> "ticket", receiver |-> "remediator-webhook", continue |-> TRUE] >>

(* Where a group is notified: the routes that match, up to the first       *)
(* without `continue`; the root's receiver when none does.                 *)
Receivers(g) ==
    LET matching == {i \in DOMAIN Routes : Routes[i].severity = Severity(g)}
        taken == {i \in matching : \A j \in matching : j < i => Routes[j].continue}
    IN  IF taken = {} THEN {"feishu-webhook"} ELSE {Routes[i].receiver : i \in taken}

Watched == {g \in Groups : "remediator-webhook" \in Receivers(g)}

(* inhibit_rules.                                                          *)
Inhibits(b, a) ==
    /\ b.slo = a.slo
    /\ \/ b.severity = "page" /\ a.severity = "ticket"
       \/ b.chaos /\ a.severity = "page"

-----------------------------------------------------------------------------
Holding(g) == {a \in Alerts : GroupOf(a) = g /\ held[a] # None}
Firing(a) == held[a] # None /\ held[a].firing
FiringIn(g) == {a \in Holding(g) : held[a].firing}
Muted(a) == \E b \in Alerts : Firing(b) /\ Inhibits(b, a)

(* eventID: group key and startsAt of the first alert.  Alerts have the    *)
(* number of the evaluation that raised them for their startsAt.           *)
Ids == Groups \X (1..MaxRaises)
First(n) == CHOOSE a \in DOMAIN n : \A b \in DOMAIN n : a.path <= b.path
eventID(g, n) == << g, n[First(n)].starts >>

(* A new process of the remediator has no marks.  History: the rules that  *)
(* acted in it on events of this unit.                                     *)
NewProcess == [marks |-> << >>, spent |-> {}]

Init ==
    /\ held = [a \in Alerts |-> None]
    /\ turn = [g \in Groups |-> "new"]
    /\ nflog = [g \in Groups |-> None]
    /\ wire = [g \in Groups |-> None]
    /\ pod = [p \in Pods |-> NewProcess] /\ \E p \in Pods : up = {p}
    /\ tasks = [i \in Goroutines |-> None]
    /\ raises = 0 /\ restarts = 0
    /\ decided = {} /\ acted = {} /\ lost = {} /\ twice = FALSE

-----------------------------------------------------------------------------
(* Prometheus.                                                             *)

(* An evaluation finds alerts that did not fire before.                    *)
Raise(as) ==
    /\ raises < MaxRaises /\ as # {} /\ \A a \in as : ~Firing(a)
    /\ raises' = raises + 1
    /\ held' = [a \in Alerts |-> IF a \in as THEN [firing |-> TRUE, starts |-> raises + 1]
                                             ELSE held[a]]
    /\ UNCHANGED << turn, nflog, wire, up, pod, tasks, restarts, decided, history >>

Clear(a) ==
    /\ Firing(a)
    /\ held' = [held EXCEPT ![a].firing = FALSE]
    /\ UNCHANGED << turn, nflog, wire, up, pod, tasks, raises, restarts, decided, history >>

-----------------------------------------------------------------------------
(* Alertmanager.                                                           *)

(* Mutant of Repeats: a firing group is notified once.                     *)
NeverRepeats(entry) == FALSE

(* repeat_interval.                                                        *)
Repeats(entry) == entry.age = RepeatInterval

(* Whether a group with these alerts is notified, with send_resolved.      *)
NeedsUpdate(entry, firing, resolved) ==
    IF entry = None THEN firing # {}
    ELSE \/ ~(firing \subseteq entry.firing)
         \/ firing = {} /\ entry.firing # {}
         \/ firing # {} /\ ~(resolved \subseteq entry.resolved)
         \/ firing # {} /\ Repeats(entry)

(* Resolved alerts leave their group once it was flushed.                  *)
Drop(as) == held' = [a \in Alerts |-> IF a \in as THEN None ELSE held[a]]
Turned(g) == turn' = [turn EXCEPT ![g] = IF Holding(g)' = {} THEN "new" ELSE "done"]

(* The flush of a group: muted alerts are passed over, and what is left is *)
(* sent when it is news.                                                   *)
Flush(g) ==
    /\ turn[g] \in {"new", "due"} /\ Holding(g) # {}
    /\ LET as == {a \in Holding(g) : ~Muted(a)}
           firing == as \cap FiringIn(g)
       IN  IF g \in Watched /\ NeedsUpdate(nflog[g], firing, as \ firing)
           THEN /\ wire' = [wire EXCEPT ![g] = [a \in as |-> held[a]]]
                /\ UNCHANGED held
           ELSE /\ Drop(Holding(g) \ FiringIn(g))
                /\ UNCHANGED wire
    /\ Turned(g)
    /\ UNCHANGED << nflog, up, pod, tasks, raises, restarts, decided, history >>

(* The reply arrives: the notification is logged (an entry without firing  *)
(* alerts tells as much as none), and the resolved alerts it told of leave *)
(* the group, unless they fire anew.                                       *)
Acknowledge(g, n) ==
    LET firing == {a \in DOMAIN n : n[a].firing}
        resolved == DOMAIN n \ firing
    IN  /\ wire' = [wire EXCEPT ![g] = None]
        /\ nflog' = [nflog EXCEPT ![g] =
                       IF firing = {} THEN None
                       ELSE [firing |-> firing, resolved |-> resolved, age |-> 0]]
        /\ Drop({a \in resolved : held[a] = n[a]})
        /\ Turned(g)

(* Marks a unit later: those whose cooldown is over are as good as none.   *)
Older(marks) ==
    LET left == {k \in DOMAIN marks : marks[k] > 0}
    IN  [k \in left |-> marks[k] - 1]

(* A group_interval passes.  Sending that did not succeed is given up, and *)
(* what goroutines still work on is of the unit before.                    *)
Tick ==
    /\ \A g \in Groups : turn[g] # "due"
    /\ \A i \in Goroutines : tasks[i] # None => ~tasks[i].late
    /\ turn' = [g \in Groups |-> IF Holding(g) = {} THEN "new" ELSE "due"]
    /\ wire' = [g \in Groups |-> None]
    /\ nflog' = [g \in Groups |->
                   IF nflog[g] = None \/ nflog[g].age = RepeatInterval THEN nflog[g]
                   ELSE [nflog[g] EXCEPT !.age = @ + 1]]
    /\ pod' = [p \in Pods |-> [marks |-> Older(pod[p].marks), spent |-> {}]]
    /\ tasks' = [i \in Goroutines |->
                   IF tasks[i] = None THEN None ELSE [tasks[i] EXCEPT !.late = TRUE]]
    /\ decided' = {} /\ acted' = {} /\ lost' = {}
    /\ UNCHANGED << held, up, raises, restarts, twice >>

-----------------------------------------------------------------------------
(* The remediator.                                                         *)

StatusOf(n) == IF \E a \in DOMAIN n : n[a].firing THEN "firing" ELSE "resolved"

(* InCooldown: a mark holds the units left of its cooldown; in the last    *)
(* one it may go either way.                                               *)
InCooldown(process, k) ==
    IF k \notin DOMAIN process.marks THEN {FALSE}
    ELSE IF process.marks[k] = 0 THEN BOOLEAN ELSE {TRUE}

(* Mutant of Mark: minutes are taken for units of time.                    *)
MarkMinutes(marks, k) ==
    [j \in DOMAIN marks \cup {k} |->
        IF j = k THEN Rules[k[2]].cooldown \div 60 ELSE marks[j]]

(* Mutant of Mark: nothing is marked.                                      *)
MarkNothing(marks, k) == marks

Mark(marks, k) ==
    [j \in DOMAIN marks \cup {k} |->
        IF j = k THEN Rules[k[2]].cooldown \div 300 ELSE marks[j]]

(* handleWebhook and Triage in pod p: a goroutine gets the event with the  *)
(* rule that its burn rate calls for.  A resolved event, or one of a drill,*)
(* comes to nothing.                                                       *)
handleWebhook(p, g, n) ==
    IF StatusOf(n) = "resolved" \/ First(n).chaos
    THEN UNCHANGED tasks
    ELSE \E i \in Goroutines, burn \in BurnLevels :
            /\ tasks[i] = None
            /\ tasks' = [tasks EXCEPT ![i] =
                           [pod |-> p, id |-> eventID(g, n), rule |-> Match(g[1], burn),
                            stage |-> "check", late |-> FALSE]]

(* No rule, or a dangerous one that the LLM does not confirm.              *)
Refused(r, verdict) ==
    r = NoRule \/ (Rules[r].dangerous /\ ~ConfirmsRollback(verdict))

(* Evaluate, up to the mark: the event is decided on.                      *)
Check(i) ==
    /\ tasks[i] # None /\ tasks[i].stage = "check"
    /\ LET t == tasks[i]
           g == t.id[1]
       IN  \E verdict \in Verdicts, cooling \in InCooldown(pod[t.pod], << t.id, t.rule >>) :
              /\ decided' = IF cooling THEN decided ELSE decided \cup {g}
              /\ tasks' = [tasks EXCEPT ![i] = IF cooling \/ Refused(t.rule, verdict) THEN None
                                                ELSE [t EXCEPT !.stage = "mark"]]
              /\ twice' = (twice \/ (~cooling /\ ~t.late
                                        /\ << g, t.rule >> \in pod[t.pod].spent))
    /\ UNCHANGED << held, turn, nflog, wire, up, pod, raises, restarts, acted, lost >>

(* Evaluate, from the mark on, which the action follows.                   *)
MarkAndAct(i) ==
    /\ tasks[i] # None /\ tasks[i].stage = "mark"
    /\ LET t == tasks[i]
           g == t.id[1]
           spending == IF t.late THEN {} ELSE {<< g, t.rule >>}
       IN  /\ pod' = [pod EXCEPT ![t.pod] =
                         [marks |-> Mark(@.marks, << t.id, t.rule >>),
                          spent |-> @.spent \cup spending]]
           /\ acted' = acted \cup spending
           /\ twice' = (twice \/ (g \notin lost /\ spending \cap acted # {}))
    /\ tasks' = [tasks EXCEPT ![i] = None]
    /\ UNCHANGED << held, turn, nflog, wire, up, raises, restarts, decided, lost >>

(* A pod takes the request and Alertmanager has its reply.                 *)
Answered(g) ==
    /\ wire[g] # None
    /\ \E p \in up : handleWebhook(p, g, wire[g])
    /\ Acknowledge(g, wire[g])
    /\ UNCHANGED << up, pod, raises, restarts, decided, history >>

(* The reply is lost: Alertmanager will send the notification again.       *)
Unanswered(g) ==
    /\ wire[g] # None
    /\ \E p \in up : handleWebhook(p, g, wire[g])
    /\ lost' = lost \cup {g}
    /\ UNCHANGED << held, turn, nflog, wire, up, pod, raises, restarts, decided, acted, twice >>

(* The goroutines of pod p are gone.                                       *)
Abandoned(p) ==
    tasks' = [i \in Goroutines |->
                IF tasks[i] # None /\ tasks[i].pod = p THEN None ELSE tasks[i]]

(* A new process in pod p, with no marks: of a new pod, which a rolling    *)
(* update starts beside the old one, or of a container that is restarted.  *)
StartProcess(p) ==
    /\ restarts < MaxRestarts /\ restarts' = restarts + 1
    /\ up' = up \cup {p}
    /\ pod' = [pod EXCEPT ![p] = NewProcess] /\ Abandoned(p)
    /\ UNCHANGED << held, turn, nflog, wire, raises, decided, history >>

(* A rolling update stops a pod when another runs.                         *)
StopPod(p) ==
    /\ p \in up /\ up # {p}
    /\ up' = up \ {p}
    /\ pod' = [pod EXCEPT ![p] = NewProcess] /\ Abandoned(p)
    /\ UNCHANGED << held, turn, nflog, wire, raises, restarts, decided, history >>

Next ==
    \/ \E as \in SUBSET Alerts : Raise(as)
    \/ \E a \in Alerts : Clear(a)
    \/ \E g \in Groups : Flush(g) \/ Answered(g) \/ Unanswered(g)
    \/ \E i \in Goroutines : Check(i) \/ MarkAndAct(i)
    \/ Tick
    \/ \E p \in Pods : StartProcess(p) \/ StopPod(p)

(* Time passes, goroutines run (Loki and the LLM have timeouts), in each   *)
(* unit the groups are flushed, and a webhook that is sent again and again *)
(* is answered in the end.                                                 *)
Fairness ==
    /\ WF_vars(Tick)
    /\ \A i \in Goroutines : WF_vars(Check(i) \/ MarkAndAct(i))
    /\ \A g \in Groups : WF_vars(Flush(g)) /\ SF_vars(Answered(g))

Spec == Init /\ [][Next]_vars /\ Fairness

-----------------------------------------------------------------------------
(* Properties.                                                             *)

HeldAlerts == [firing : BOOLEAN, starts : 1..MaxRaises]
Tasks == [pod : Pods, id : Ids, rule : RuleIndexes \cup {NoRule},
          stage : {"check", "mark"}, late : BOOLEAN]

(* The type invariant.                                                     *)
TypeOK ==
    /\ held \in [Alerts -> HeldAlerts \cup {None}]
    /\ turn \in [Groups -> {"new", "due", "done"}]
    /\ \A g \in Groups :
          /\ nflog[g] # None => nflog[g] \in [firing : SUBSET Alerts, resolved : SUBSET Alerts,
                                              age : 0..RepeatInterval]
          /\ wire[g] # None => /\ DOMAIN wire[g] \subseteq Holding(g)
                               /\ \A a \in DOMAIN wire[g] : wire[g][a] \in HeldAlerts
    /\ up \subseteq Pods /\ up # {} /\ DOMAIN pod = Pods
    /\ \A p \in Pods :
          /\ DOMAIN pod[p].marks \subseteq Ids \X RuleIndexes
          /\ \A k \in DOMAIN pod[p].marks :
                pod[p].marks[k] \in 0..Rules[k[2]].cooldown \div 300
          /\ pod[p].spent \subseteq acted
    /\ tasks \in [Goroutines -> Tasks \cup {None}]
    /\ raises \in 0..MaxRaises /\ restarts \in 0..MaxRestarts
    /\ decided \subseteq Groups /\ lost \subseteq Groups
    /\ acted \subseteq Groups \X RuleIndexes /\ twice \in BOOLEAN

(* Within a group_interval, a process that has marked a rule for a group   *)
(* of alerts does not take it again for that group, although a recurrence, *)
(* or an alert that comes first in the group, gives the event another ID   *)
(* and with it a cooldown of its own, and although a notification whose    *)
(* reply is lost comes again: unless the goroutine of the second event has *)
(* passed the cooldown before the first marked it.  And for a group none   *)
(* of whose replies is lost the rule acts once, whatever becomes of the    *)
(* pods, which know nothing of one another's marks (remediator.yaml).      *)
(* Events of the interval before, still at work, are not counted.          *)
OncePerInterval ==
    ~twice

(* As long as an alert fires that nothing mutes, its group is decided on   *)
(* again and again, outside the cooldown: a failed action, a lost reply or *)
(* a goroutine lost with its process is not the last word, because the     *)
(* notification is repeated and every cooldown ends.                       *)
DecidedAgain ==
    \A g \in Watched :
        <>[](\E a \in FiringIn(g) : ~Muted(a)) => []<>(g \in decided)
=============================================================================
