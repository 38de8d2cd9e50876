------------------------------ MODULE SLOStatus ------------------------------
(***************************************************************************)
(* The status of an SLO resource: what step 4 of Reconcile (operator/      *)
(* internal/controller/slo_controller.go) tells about the rules it derived *)
(* and wrote.  SLOController models the steps before it, and the queues    *)
(* and conflicts that decide whether a write is accepted; here a write     *)
(* succeeds or fails, and the resource has its status.                     *)
(*                                                                         *)
(* The patch is computed against the copy that Reconcile read from the     *)
(* cache, which may be an older version of the resource, or of one that    *)
(* was deleted and created again: a merge patch without a resourceVersion, *)
(* which leaves out what did not change against that copy.  It is applied  *)
(* to the resource as it is, and its error is dropped.                     *)
(*                                                                         *)
(* One resource and one operator.  The names in the status, which follow   *)
(* from the service, and the times of transitions are left out.            *)
(***************************************************************************)
EXTENDS RuleGenerator, FiniteSets

CONSTANTS
    Service,        \* the service that the resource declares
    Specs,          \* specs users may submit
    Errors,         \* messages of failed writes
    None,           \* no object, no rules
    MaxEvents,      \* bound on edits, on changes of what can be written, on restarts
    MaxLag          \* bound on the versions its watch is behind

ASSUME SpecsAssumption == Specs \subseteq Seq(SLOItem)
ASSUME BoundsAssumption ==
    MaxEvents \in Nat /\ MaxLag \in Nat \ {0}

VARIABLES
    obj,        \* the resource in the API server
    stream,     \* its versions that the watch has still to deliver
    seen,       \* the cached copy
    queued,     \* whether the resource is in the work queue
    work,       \* the Reconcile that is running
    writable,   \* which of PrometheusRule and ConfigMap can be written
    events

operator == << seen, queued, work >>
vars == << obj, stream, seen, queued, work, writable, events >>

-----------------------------------------------------------------------------
(* collectRuleNames: recorded series and alerts, one entry for each rule.  *)
collectRuleNames(list) == {<< e[1], e[2].name >> : e \in list}
RuleNames ==
    [v \in Specs |-> << collectRuleNames(buildRecordingRules(Service, v)),
                        collectRuleNames(buildAlertRules(Service, v)) >>]

(* "%d recording + %d alert rules".                                        *)
RuleCounts ==
    [v \in Specs |-> << Cardinality(buildRecordingRules(Service, v)),
                        Cardinality(buildAlertRules(Service, v)) >>]

Parts == {"pr", "cm"}
Ok == "ok"

(* The condition that tells that a part was not written.                   *)
Failed(part) == IF part = "pr" THEN "PrometheusRuleSyncFailed" ELSE "ConfigMapSyncFailed"

(* A condition, always of status True: its reason, and its message, which  *)
(* puts an error or the counts of rules into words.                        *)
Condition(reason, words, of) == [reason |-> reason, message |-> << words, of >>]

(* The conditions of a resource are a function from their types.           *)
NoConditions == [t \in {} |-> None]
SetStatusCondition(conds, type, condition) ==
    [t \in DOMAIN conds \cup {type} |-> IF t = type THEN condition ELSE conds[t]]

(* A resource as it is created: without a status.                          *)
Created(v) == [spec |-> v, rules |-> None, conds |-> NoConditions]

(* The operator begins, and lists the resource if there is one.            *)
Init ==
    /\ obj \in {None} \cup {Created(v) : v \in Specs}
    /\ stream = << >>
    /\ seen = obj /\ queued = (obj # None) /\ work = None
    /\ writable \in SUBSET Parts
    /\ events = 0

(* A new version of the resource, of which the watch has to tell.          *)
Becomes(o) == obj' = o /\ stream' = Append(stream, o)

-----------------------------------------------------------------------------
(* Users and the API server.                                               *)

Apply(v) ==
    /\ events < MaxEvents /\ events' = events + 1 /\ Len(stream) < MaxLag
    /\ IF obj = None
       THEN Becomes(Created(v))
       ELSE obj.spec # v /\ Becomes([obj EXCEPT !.spec = v])
    /\ UNCHANGED << operator, writable >>

Delete ==
    /\ obj # None /\ events < MaxEvents /\ events' = events + 1 /\ Len(stream) < MaxLag
    /\ Becomes(None)
    /\ UNCHANGED << operator, writable >>

(* A part can be written from now on, or no longer.                        *)
Toggle(part) ==
    /\ events < MaxEvents /\ events' = events + 1
    /\ writable' = IF part \in writable THEN writable \ {part} ELSE writable \cup {part}
    /\ UNCHANGED << obj, stream, operator >>

-----------------------------------------------------------------------------
(* The manager.                                                            *)

Deliver ==
    /\ stream # << >>
    /\ seen' = Head(stream) /\ stream' = Tail(stream)
    /\ queued' = TRUE
    /\ UNCHANGED << obj, work, writable, events >>

Resync ==
    /\ seen # None /\ queued' = TRUE
    /\ UNCHANGED << obj, stream, seen, work, writable, events >>

(* A new process lists the resource, and queues it.                        *)
Restart ==
    /\ events < MaxEvents /\ events' = events + 1
    /\ seen' = obj /\ stream' = << >>
    /\ queued' = (obj # None)
    /\ work' = None
    /\ UNCHANGED << obj, writable >>

-----------------------------------------------------------------------------
(* Reconcile.                                                              *)

(* What a write of a part may return.                                      *)
Outcomes(part) == Errors \cup {x \in {Ok} : part \in writable}

(* Steps 1 to 3: Get from the cache, which ends the Reconcile when it      *)
(* finds nothing, and both writes, whatever the first returns.             *)
WriteRules ==
    /\ queued /\ work = None
    /\ queued' = FALSE
    /\ \E p \in Outcomes("pr"), c \in Outcomes("cm") :
          work' = IF seen = None THEN None ELSE [base |-> seen, pr |-> p, cm |-> c]
    /\ UNCHANGED << obj, stream, seen, writable, events >>

(* Any error of the first write is put down to a missing CRD.              *)
PRCondition(w) ==
    IF w.pr # Ok
    THEN SetStatusCondition(w.base.conds, Failed("pr"),
             Condition("CRDMissing", "PrometheusRule CRD not installed", w.pr))
    ELSE SetStatusCondition(w.base.conds, "RulesGenerated",
             Condition("Reconciled", "recording + alert rules", RuleCounts[w.base.spec]))

(* Mutant of Conditions: cmErr is dropped.                                 *)
ConditionsOfPR(w) == PRCondition(w)

(* Mutant of Conditions: the reason is taken for the type.                 *)
ConditionsByReason(w) ==
    IF w.cm = Ok THEN PRCondition(w)
    ELSE SetStatusCondition(PRCondition(w), "ConfigMapError",
             Condition("ConfigMapError", "", w.cm))

(* Mutant of Conditions: prErr is tested, and shown, in place of cmErr.    *)
ConditionsOfPRTwice(w) ==
    IF w.pr = Ok THEN PRCondition(w)
    ELSE SetStatusCondition(PRCondition(w), Failed("cm"), Condition("ConfigMapError", "", w.pr))

(* What Reconcile makes of the conditions of its copy.                     *)
Conditions(w) ==
    IF w.cm = Ok THEN PRCondition(w)
    ELSE SetStatusCondition(PRCondition(w), Failed("cm"), Condition("ConfigMapError", "", w.cm))

(* Mutant of Merge: the first value stays.                                 *)
MergeOnce(current, base, new) == IF current = None THEN new ELSE current

(* A field of the merge patch: present when it changed against the copy,   *)
(* and then as a whole.                                                    *)
Merge(current, base, new) == IF new = base THEN current ELSE new

(* Step 4.  A patch that changes nothing makes no version of the resource; *)
(* LastReconcileAt changes, unless it falls in the second it showed.       *)
PatchStatus ==
    /\ work # None
    /\ obj # None /\ Len(stream) < MaxLag
    /\ work' = None
    /\ LET base == work.base
           patched ==
               [spec  |-> obj.spec,
                rules |-> Merge(obj.rules, base.rules, RuleNames[base.spec]),
                conds |-> Merge(obj.conds, base.conds, Conditions(work))]
       IN  \/ Becomes(patched)
           \/ patched = obj /\ UNCHANGED << obj, stream >>
    /\ UNCHANGED << seen, queued, writable, events >>

(* The resource is gone, or the request fails: nobody notices.             *)
FailPatch ==
    /\ work # None
    /\ work' = None
    /\ UNCHANGED << obj, stream, seen, queued, writable, events >>

Next ==
    \/ \E v \in Specs : Apply(v)
    \/ Delete
    \/ \E part \in Parts : Toggle(part)
    \/ Deliver \/ Resync \/ Restart
    \/ WriteRules \/ PatchStatus \/ FailPatch

(* The watch delivers, the resync timer fires, the worker goes on, and a   *)
(* patch that is sent again and again is not refused for ever.             *)
Fairness ==
    /\ WF_vars(Deliver) /\ WF_vars(Resync) /\ WF_vars(WriteRules)
    /\ WF_vars(PatchStatus \/ FailPatch) /\ SF_vars(PatchStatus)

Spec == Init /\ [][Next]_vars /\ Fairness

-----------------------------------------------------------------------------
(* Properties.                                                             *)

Statuses == {None} \cup {RuleNames[v] : v \in Specs}
ConditionTypes == {"RulesGenerated"} \cup {Failed(part) : part \in Parts}
IsObject(o) ==
    /\ o.spec \in Specs /\ o.rules \in Statuses
    /\ DOMAIN o.conds \subseteq ConditionTypes

(* The type invariant.                                                     *)
TypeOK ==
    /\ \A o \in {obj, seen} \cup {stream[k] : k \in DOMAIN stream} : o # None => IsObject(o)
    /\ Len(stream) <= MaxLag
    /\ queued \in BOOLEAN
    /\ work # None =>
          /\ IsObject(work.base)
          /\ \A part \in Parts : work[part] \in Errors \cup {Ok}
    /\ writable \subseteq Parts
    /\ events \in 0..MaxEvents

(* The status follows the spec.                                            *)
StatusFollows ==
    \A v \in Specs :
        <>[](obj # None /\ obj.spec = v)
        => <>[](obj # None /\ obj.rules = RuleNames[v])

(* What cannot be written any more is shown as failed.                     *)
FailureReported ==
    \A part \in Parts :
        <>[](obj # None /\ part \notin writable)
        => <>[](obj # None /\ Failed(part) \in DOMAIN obj.conds)

=============================================================================
