----------------------------- MODULE Remediator -----------------------------
(***************************************************************************)
(* The remediator's webhook pipeline: handler.go, triage.go, rules.go and  *)
(* cooldown.go.  Every webhook request is one delivery; net/http serves it *)
(* in a goroutine of its own and `go h.processEvent(event)` lets it run on *)
(* after the 200 reply, so deliveries of one incident interleave.          *)
(*                                                                         *)
(* A delivery d allocates at most one *triage.Event, so d also names that  *)
(* object: store[id] = d is the pointer the event store holds.  d appends  *)
(* at most one RemediationLog, so d also names that log entry, and at most *)
(* one backing array of a Remediations slice, so d names that array too.   *)
(* As an entry of an array None is one that tells nothing: a cell not      *)
(* written yet, or memory that holds something else.                       *)
(*                                                                         *)
(* The steps are the points where goroutines can meet: each critical       *)
(* section of Store and Cooldown, each access to an event another          *)
(* goroutine can reach through the store, and each call to another system. *)
(***************************************************************************)
EXTENDS RemediateRules, FiniteSets

CONSTANTS
    Deliveries,     \* webhook requests, each served once
    None,           \* the nil pointer
    Payloads,       \* request bodies Alertmanager may send
    BurnLevels,     \* values BurnRates may return for burn5m (0 on an error)
    Verdicts,       \* values Infer may return (NoResult on an error)
    DryRun,         \* DRY_RUN
    Tick, MaxTime,  \* the clock advances by Tick seconds, up to MaxTime
    MaxRestarts     \* bound on the pod's restarts, faults apart

Payload == [group : STRING, startsAt : Nat, status : {"firing", "resolved"},
            alertName : STRING, chaos : BOOLEAN]

ASSUME DeliveriesAssumption == None \notin Deliveries
ASSUME PayloadsAssumption == Payloads \subseteq Payload
ASSUME InputsAssumption ==
    /\ BurnLevels \subseteq {b \in Int : b >= NaN} /\ 0 \in BurnLevels
    /\ Verdicts \subseteq LLMResults /\ NoResult \in Verdicts
    /\ DryRun \in BOOLEAN
ASSUME BoundsAssumption ==
    Tick \in Nat \ {0} /\ MaxTime \in Nat /\ MaxRestarts \in Nat

(* eventID: sha256 of groupKey and the first alert's startsAt; two         *)
(* different pairs are taken not to collide.                               *)
eventID(p) == << p.group, p.startsAt >>
Ids == {eventID(p) : p \in Payloads}

Never == -1

VARIABLES
    req,        \* the body of each delivery
    pc,         \* where its goroutine is
    event,      \* the fields of its Event that a step reads or shares
    heap,       \* backing arrays of Remediations slices
    log,        \* its RemediationLog: the rule matched and the outcome
    store,      \* Store.events
    last,       \* Cooldown.last
    now,        \* the clock, in seconds
    draft,      \* the log entries listed by the postmortem ConfigMap of an
                \* event; none when there is no ConfigMap
    restarts,   \* times the process has started anew
    hist        \* history of a delivery, read by properties only

vars == << req, pc, event, heap, log, store, last, now, draft, restarts, hist >>

IdOf(d) == eventID(req[d])
Resolved(d) == req[d].status = "resolved"

PCs == {"wire", "get", "put", "infer", "check", "mark", "act", "append", "save",
        "rca", "done", "refused", "lost"}
Outcomes == {"none", "chaos", "no_rule", "cooldown", "no_llm", "unconfirmed",
             "dry_run", "executed", "failed"}

(* pcs of a goroutine that will still write its event to the store         *)
Writing == {"put", "infer", "check", "mark", "act", "append", "save"}
InFlight == Writing \cup {"get", "rca"}

(***************************************************************************)
(* Remediations slices.  A header is a backing array, a length and a       *)
(* capacity, in three words; copying an event's slice copies the header    *)
(* only.  Go trusts the header: neither append nor range compares it with  *)
(* the array.                                                              *)
(***************************************************************************)
NilSlice == [arr |-> None, len |-> 0, cap |-> 0]
Cells(arr) == IF arr = None THEN << >> ELSE heap[arr]
Full(s) == s.len >= s.cap
Entries(s) ==
    {Cells(s.arr)[i] : i \in {j \in 1..Len(Cells(s.arr)) : j <= s.len}}

(* The capacity append gives to n entries when cap is too small.  A        *)
(* RemediationLog has 72 bytes, of which Go's size classes hold no more    *)
(* than asked for, up to 32 entries.                                       *)
Capacity(n, cap) == IF n > 2 * cap THEN n ELSE 2 * cap

(* A read through s goes behind its array; so does an append to s.         *)
ReadsBehind(s) == s.len > Len(Cells(s.arr))
WritesBehind(s) == ~Full(s) /\ s.len >= Len(Cells(s.arr))
AppendsBehind(s) == WritesBehind(s) \/ (Full(s) /\ ReadsBehind(s))

(* What a read through s may find: behind the array, an entry of another   *)
(* one or nothing that makes sense.                                        *)
Contents(s) ==
    {c \in [1..s.len -> Deliveries \cup {None}] :
        \A i \in 1..Len(Cells(s.arr)) : i <= s.len => c[i] = Cells(s.arr)[i]}

(* Headers of s's array with words of different moments, and the           *)
(* capacities a header may have had before its last append made it s.      *)
Words(s, lens, caps) == {[arr |-> s.arr, len |-> l, cap |-> c] : l \in lens, c \in caps}
OldCaps(s) == {c \in 0..s.len - 1 : Capacity(s.len, c) = s.cap}

(* Mutant of HeaderReads: an event starts with an empty log.               *)
EmptyReads(x) == {NilSlice}

(* What `event.Remediations = existing.Remediations` may read of x.  The   *)
(* copy takes no lock.  When it meets an append of x's own goroutine that  *)
(* moves to a larger array, and so writes all three words, it may read     *)
(* each of them as it was before or as it is after.                        *)
HeaderReads(x) ==
    LET s == event[x].rem
    IN  IF pc[x] = "append" /\ Full(s)
        THEN Words(s, {s.len, s.len + 1}, {s.cap, Capacity(s.len + 1, s.cap)})
        ELSE IF pc[x] = "save" /\ s.arr = x
        THEN Words(s, {s.len - 1, s.len}, {s.cap} \cup OldCaps(s))
        ELSE {s}

NewEvent == [burn5m |-> 0, llm |-> NoResult, rem |-> NilSlice]

Init ==
    /\ req \in [Deliveries -> Payloads]
    /\ pc = [d \in Deliveries |-> "wire"]
    /\ event = [d \in Deliveries |-> NewEvent]
    /\ heap = [d \in Deliveries |-> << >>]
    /\ log = [d \in Deliveries |-> [rule |-> NoRule, outcome |-> "none"]]
    /\ store = [id \in Ids |-> None]
    /\ last = [k \in Ids \X RuleIndexes |-> Never]
    /\ now = 0
    /\ draft = [id \in Ids |-> {}]
    /\ restarts = 0
    /\ hist = [d \in Deliveries |->
                [life |-> 0, from |-> None, verdict |-> NoResult,
                 seen |-> {}, markedAt |-> Never, overlaps |-> {},
                 before |-> {}, stray |-> FALSE]]

-----------------------------------------------------------------------------
(* Steps of one delivery.                                                  *)

GoTo(d, there) == pc' = [pc EXCEPT ![d] = there]

(* 405, 400, or a body with an empty alert list: no event is made.         *)
Refuse(d) ==
    /\ pc[d] = "wire"
    /\ GoTo(d, "refused")
    /\ UNCHANGED << req, event, heap, log, store, last, now, draft, restarts, hist >>

(* handleWebhook up to Triage: the body decodes and BurnRates answers.     *)
Receive(d) ==
    /\ pc[d] = "wire"
    /\ \E b \in BurnLevels : event' = [event EXCEPT ![d].burn5m = b]
    /\ GoTo(d, "get")
    /\ hist' = [hist EXCEPT ![d].life = restarts]
    /\ UNCHANGED << req, heap, log, store, last, now, draft, restarts >>

(* Mutant of Existing: events are looked up by group key alone.            *)
ExistingOfGroup(d) ==
    LET found == {id \in Ids : id[1] = req[d].group /\ store[id] # None}
    IN  IF found = {} THEN None ELSE store[CHOOSE id \in found : TRUE]

(* store.Get(id).                                                          *)
Existing(d) == store[IdOf(d)]

(* Mutant of Upsert: the key leaves out startsAt.                          *)
UpsertByGroup(d) ==
    LET key == << req[d].group, 0 >>
    IN  store' = [k \in DOMAIN store \cup {key} |-> IF k = key THEN d ELSE store[k]]

(* Mutant of Upsert: an event that exists is left as it is.                *)
InsertOnly(d) == store' = [store EXCEPT ![IdOf(d)] = IF @ = None THEN d ELSE @]

Upsert(d) == store' = [store EXCEPT ![IdOf(d)] = d]

(* d was decided on, in this process, while no other delivery of its event *)
(* was between its Triage and its last Upsert.                             *)
SettledAlone(d) ==
    pc[d] = "done" /\ ~Resolved(d) /\ hist[d].life = restarts /\ hist[d].overlaps = {}

(* Triage up to its Upsert: a new Event object that inherits LLMResult and *)
(* Remediations from the stored one.                                       *)
TriageGet(d) ==
    /\ pc[d] = "get"
    /\ LET x == Existing(d)
           others == {e \in Deliveries \ {d} : IdOf(e) = IdOf(d) /\ pc[e] \in Writing}
       IN  /\ IF x = None
              THEN UNCHANGED event
              ELSE \E s \in HeaderReads(x) :
                      event' = [event EXCEPT ![d].llm = event[x].llm, ![d].rem = s]
           /\ hist' = [e \in Deliveries |->
                          [hist[e] EXCEPT
                             !.from = IF e = d THEN x ELSE @,
                             !.before = IF e = d
                                        THEN {b \in Deliveries :
                                                IdOf(b) = IdOf(d) /\ SettledAlone(b)}
                                        ELSE @,
                             !.overlaps = CASE e = d -> others
                                            [] e \in others -> @ \cup {d}
                                            [] OTHER -> @]]
    /\ GoTo(d, "put")
    /\ UNCHANGED << req, heap, log, store, last, now, draft, restarts >>

(* store.Upsert(event) of Triage, the reply, and `go h.processEvent`.      *)
TriagePut(d) ==
    /\ pc[d] = "put"
    /\ Upsert(d)
    /\ GoTo(d, IF Resolved(d) THEN "rca" ELSE "infer")
    /\ UNCHANGED << req, event, heap, log, last, now, draft, restarts, hist >>

(* Mutant of Assigned: a nil answer leaves the inherited one in place.     *)
AssignedIfAnswered(d, v) == IF v.inferred THEN v ELSE event[d].llm

(* event.LLMResult = Infer(...), nil included.                             *)
Assigned(d, v) == v

(* Loki, Infer, the assignment of its result and the Upsert that follows.  *)
(* The assigned field is visible to others only when the store already     *)
(* points at d, and then the Upsert changes nothing: one step.             *)
Infer(d) ==
    /\ pc[d] = "infer"
    /\ \E v \in Verdicts :
          /\ event' = [event EXCEPT ![d].llm = Assigned(d, v)]
          /\ hist' = [hist EXCEPT ![d].verdict = v]
    /\ Upsert(d)
    /\ GoTo(d, "check")
    /\ UNCHANGED << req, heap, log, last, now, draft, restarts >>

(* Match, on this event's alert and burn rate.                             *)
RuleOf(d) == Match(req[d].alertName, event[d].burn5m)

(* Mutant of InCooldown: the comparison is turned round.                   *)
InCooldownInverted(id, r) ==
    /\ last[<< id, r >>] # Never
    /\ now - last[<< id, r >>] >= Rules[r].cooldown

(* Mutant of InCooldown: the key leaves out the rule.                      *)
InCooldownOfEvent(id, r) ==
    \E s \in RuleIndexes :
        /\ last[<< id, s >>] # Never
        /\ now - last[<< id, s >>] < Rules[r].cooldown

(* Cooldown.InCooldown.                                                    *)
InCooldown(id, r) ==
    /\ last[<< id, r >>] # Never
    /\ now - last[<< id, r >>] < Rules[r].cooldown

(* The guards of Evaluate, in the order of its early returns; "none" when  *)
(* the action is to be taken.                                              *)
Guard(d) ==
    LET r == RuleOf(d)
        llm == event[d].llm
    IN  IF req[d].chaos THEN "chaos"
        ELSE IF r = NoRule THEN "no_rule"
        ELSE IF InCooldown(IdOf(d), r) THEN "cooldown"
        ELSE IF ~Rules[r].dangerous THEN "none"
        ELSE IF ~llm.inferred THEN "no_llm"
        ELSE IF ~ConfirmsRollback(llm) THEN "unconfirmed"
        ELSE IF DryRun THEN "dry_run"
        ELSE "none"

(* Evaluate up to Mark.  `seen` records which marks of this life the       *)
(* cooldown check could know of.                                           *)
Check(d) ==
    /\ pc[d] = "check"
    /\ log' = [log EXCEPT ![d] =
                 [rule |-> IF req[d].chaos THEN NoRule ELSE RuleOf(d),
                  outcome |-> Guard(d)]]
    /\ GoTo(d, IF Guard(d) = "none" THEN "mark" ELSE "append")
    /\ hist' = [hist EXCEPT ![d].seen =
                  {e \in Deliveries : hist[e].markedAt # Never /\ hist[e].life = restarts}]
    /\ UNCHANGED << req, event, heap, store, last, now, draft, restarts >>

(* Cooldown.Mark.                                                          *)
Mark(d) ==
    /\ pc[d] = "mark"
    /\ last' = [last EXCEPT ![<< IdOf(d), log[d].rule >>] = now]
    /\ hist' = [hist EXCEPT ![d].markedAt = now]
    /\ GoTo(d, "act")
    /\ UNCHANGED << req, event, heap, log, store, now, draft, restarts >>

(* FaultReset, ScaleUp and RolloutUndo of the executor: done, or an error  *)
(* (no k8s client, a refused or conflicting write, a timeout).             *)
ExecutorResults == {"executed", "failed"}

Act(d) ==
    /\ pc[d] = "act"
    /\ \E o \in ExecutorResults : log' = [log EXCEPT ![d].outcome = o]
    /\ GoTo(d, "append")
    /\ UNCHANGED << req, event, heap, store, last, now, draft, restarts, hist >>

(* append into the same array: the cell behind the last is overwritten.    *)
Placed(s, d) == [heap EXCEPT ![s.arr][s.len + 1] = d]

(* append into a larger array, with what was read through the old header.  *)
Grown(s, c, d) ==
    [i \in 1..Capacity(s.len + 1, s.cap) |->
        IF i <= s.len THEN c[i] ELSE IF i = s.len + 1 THEN d ELSE None]

(* A write behind an array: on no array of this kind, or on a cell of one, *)
(* which then holds d's entry or nothing that makes sense.                 *)
Smeared(d) ==
    {heap} \cup
    UNION {{[heap EXCEPT ![a][i] = v] : i \in 1..Len(heap[a]), v \in {d, None}} :
              a \in Deliveries}

(* event.Remediations = append(event.Remediations, log): into the shared   *)
(* backing array when the header has room.                                 *)
AppendLog(d) ==
    LET s == event[d].rem
    IN  /\ pc[d] = "append"
        /\ AppendsBehind(s) => s.arr # None
        /\ \/ /\ Full(s)
              /\ \E c \in Contents(s) : heap' = [heap EXCEPT ![d] = Grown(s, c, d)]
              /\ event' = [event EXCEPT ![d].rem =
                             [arr |-> d, len |-> s.len + 1,
                              cap |-> Capacity(s.len + 1, s.cap)]]
           \/ /\ ~Full(s)
              /\ IF WritesBehind(s) THEN heap' \in Smeared(d) ELSE heap' = Placed(s, d)
              /\ event' = [event EXCEPT ![d].rem.len = s.len + 1]
        /\ hist' = [hist EXCEPT ![d].stray = @ \/ AppendsBehind(s)]
        /\ GoTo(d, "save")
        /\ UNCHANGED << req, log, store, last, now, draft, restarts >>

(* Mutant of SaveLog: a delivery waits for the others of its event.        *)
SaveAlone(d) ==
    /\ pc[d] = "save"
    /\ \A e \in Deliveries \ {d} : IdOf(e) = IdOf(d) => pc[e] \notin Writing
    /\ Upsert(d)
    /\ GoTo(d, "done")
    /\ UNCHANGED << req, event, heap, log, last, now, draft, restarts, hist >>

(* The last Upsert of processEvent.                                        *)
SaveLog(d) ==
    /\ pc[d] = "save"
    /\ Upsert(d)
    /\ GoTo(d, "done")
    /\ UNCHANGED << req, event, heap, log, last, now, draft, restarts, hist >>

(* generatePostmortem: the LLM writes a draft from the event's log, and    *)
(* the draft goes to the event's ConfigMap, which is created or its text   *)
(* replaced; either call may fail, and the error is dropped.               *)
GeneratePostmortem(d) ==
    LET s == event[d].rem
    IN  /\ pc[d] = "rca"
        /\ ReadsBehind(s) => s.arr # None
        /\ \/ UNCHANGED draft
           \/ \E c \in Contents(s) :
                 draft' = [draft EXCEPT ![IdOf(d)] = {c[i] : i \in 1..s.len}]
        /\ hist' = [hist EXCEPT ![d].stray = @ \/ ReadsBehind(s)]
        /\ GoTo(d, "done")
        /\ UNCHANGED << req, event, heap, log, store, last, now, restarts >>

-----------------------------------------------------------------------------
(* The process and its clock.                                              *)

(* A new process: the stores are empty and every goroutine is gone.        *)
StartAnew ==
    /\ store' = [id \in Ids |-> None]
    /\ last' = [k \in Ids \X RuleIndexes |-> Never]
    /\ restarts' = restarts + 1
    /\ pc' = [d \in Deliveries |-> IF pc[d] \in InFlight THEN "lost" ELSE pc[d]]
    /\ UNCHANGED << req, event, heap, log, now, draft, hist >>

(* The pod is replaced (a rollout, an eviction, an OOM kill).              *)
Restart ==
    /\ restarts < MaxRestarts
    /\ StartAnew

(* An access behind an array may hit memory that is not mapped, or leave a *)
(* pointer on which the garbage collector stops the process; through a nil *)
(* pointer it always faults.  The goroutine recovers nothing.              *)
Fault(d) ==
    /\ \/ pc[d] = "append" /\ AppendsBehind(event[d].rem)
       \/ pc[d] = "rca" /\ ReadsBehind(event[d].rem)
    /\ StartAnew

Advance ==
    /\ now + Tick <= MaxTime
    /\ now' = now + Tick
    /\ UNCHANGED << req, pc, event, heap, log, store, last, draft, restarts, hist >>

Process(d) ==
    \/ TriageGet(d) \/ TriagePut(d) \/ Infer(d) \/ Check(d) \/ Mark(d) \/ Act(d)
    \/ AppendLog(d) \/ SaveLog(d) \/ GeneratePostmortem(d) \/ Fault(d)

Next ==
    \/ \E d \in Deliveries : Refuse(d) \/ Receive(d) \/ Process(d)
    \/ Restart
    \/ Advance

(* Every call a goroutine makes has a timeout (5 to 60 seconds) and its    *)
(* critical sections hold no lock across a call, so a goroutine that can   *)
(* go on does.                                                             *)
Fairness == \A d \in Deliveries : WF_vars(Process(d))

Spec == Init /\ [][Next]_vars /\ Fairness

-----------------------------------------------------------------------------
(* Properties.                                                             *)

Slices == [arr : Deliveries \cup {None}, len : Nat, cap : Nat]
Times == Nat \cup {Never}
Events == [burn5m : BurnLevels, llm : Verdicts, rem : Slices]
Arrays == Seq(Deliveries \cup {None})
RemediationLogs == [rule : RuleIndexes \cup {NoRule}, outcome : Outcomes]
Histories == [life : Nat, from : Deliveries \cup {None}, verdict : Verdicts,
              seen : SUBSET Deliveries, markedAt : Times, overlaps : SUBSET Deliveries,
              before : SUBSET Deliveries, stray : BOOLEAN]

(* The type invariant: every header names an array some delivery of the    *)
(* model allocated, every stored pointer an Event (handler.go, triage.go). *)
TypeOK ==
    /\ req \in [Deliveries -> Payloads]
    /\ pc \in [Deliveries -> PCs]
    /\ event \in [Deliveries -> Events]
    /\ heap \in [Deliveries -> Arrays]
    /\ log \in [Deliveries -> RemediationLogs]
    /\ store \in [Ids -> Deliveries \cup {None}]
    /\ last \in [Ids \X RuleIndexes -> Times]
    /\ now \in Nat
    /\ draft \in [Ids -> SUBSET (Deliveries \cup {None})]
    /\ restarts \in Nat
    /\ hist \in [Deliveries -> Histories]

Marked(d) == hist[d].markedAt # Never
MarkedKey(d) == << IdOf(d), log[d].rule >>

(* No action is taken for a drill or for a resolved notification, and a    *)
(* rollback rests on the answer the LLM gave to this very delivery, never  *)
(* on one inherited from an earlier delivery of the event, on a burn rate  *)
(* of 50 or more, outside dry run (Evaluate's guards 1 and 3 with the      *)
(* inheritance of LLMResult in Triage).                                    *)
ActionsJustified ==
    \A d \in Deliveries :
        Marked(d) =>
            /\ ~req[d].chaos /\ ~Resolved(d)
            /\ Rules[log[d].rule].dangerous =>
                  /\ ConfirmsRollback(hist[d].verdict)
                  /\ event[d].burn5m >= 500
                  /\ ~DryRun

(* Two actions of one rule on one event lie a cooldown apart, unless the   *)
(* cooldown check of the second came before the mark of the first: checks  *)
(* and marks that do not overlap keep the promise of cooldown.go.          *)
CooldownUnlessOverlapped ==
    \A d, e \in Deliveries :
        ( /\ d # e /\ Marked(d) /\ Marked(e) /\ MarkedKey(d) = MarkedKey(e)
          /\ d \in hist[e].seen )
        => hist[e].markedAt - hist[d].markedAt >= Rules[log[d].rule].cooldown

(* Some delivery has read or written behind an array.                      *)
Stray == \E d \in Deliveries : hist[d].stray

(* Until an access goes behind an array, the logs of an event, in memory   *)
(* and in its postmortem draft, tell of that event only, and the log a     *)
(* delivery has inherited, which a resolved one drafts its postmortem      *)
(* from, lists every decision taken alone before its Triage: though        *)
(* headers are read while they are written, with a length or a capacity of *)
(* another moment, and arrays are shared and appended to without a lock,   *)
(* none of those entries is skipped or overwritten.                        *)
LogsTellTheirEvent ==
    ~Stray =>
        /\ \A d \in Deliveries : \A e \in Entries(event[d].rem) \ {None} : IdOf(e) = IdOf(d)
        /\ \A id \in Ids : \A e \in draft[id] \ {None} : IdOf(e) = id
        /\ \A d \in Deliveries :
              hist[d].life = restarts => hist[d].before \subseteq Entries(event[d].rem)

(* Until an access goes behind an array, a decision taken while no other   *)
(* delivery of the event was between its Triage and its last Upsert stays  *)
(* in the stored event until the process restarts: later deliveries,       *)
(* however they interleave, inherit it.                                    *)
SerialDecisionsKept ==
    ~Stray =>
        \A d \in Deliveries :
            SettledAlone(d) => /\ store[IdOf(d)] # None
                               /\ d \in Entries(event[store[IdOf(d)]].rem)

(* A stored event that a delivery found and replaced does not come back    *)
(* while the process lives, unless its own delivery was still at work on   *)
(* it.  So a resolved event fires again, which triage.go (line 5) has no   *)
(* transition for, only through a firing delivery that overlapped it, and  *)
(* through none that follow, however many.                                 *)
ReplacedUnlessOverlapped ==
    \A d, e \in Deliveries :
        ( /\ hist[e].from = d /\ d \notin hist[e].overlaps
          /\ hist[e].life = restarts /\ pc[e] # "put" )
        => store[IdOf(e)] # d

(* What the pipeline promises of its actions: the store, whose events lose *)
(* decisions and share arrays, the inherited answers, and the map that     *)
(* keeps the last mark of each rule and event only, decide as if there     *)
(* were none of them but a memory of the actions of this process.          *)
StageOf(d) ==
    CASE pc[d] = "wire" -> "sent"
      [] pc[d] \in {"get", "put", "infer"} -> "open"
      [] pc[d] = "check" -> "answered"
      [] pc[d] = "mark" -> "due"
      [] pc[d] = "act" -> "acting"
      [] pc[d] \in {"append", "save", "rca", "done"} -> "settled"
      [] OTHER -> pc[d]

MarksOfLife ==
    {[incident |-> IdOf(d), rule |-> log[d].rule, at |-> hist[d].markedAt] :
        d \in {e \in Deliveries : Marked(e) /\ hist[e].life = restarts}}

Promise == INSTANCE Remediation WITH
    request <- req, clock <- now, marks <- MarksOfLife,
    stage  <- [d \in Deliveries |-> StageOf(d)],
    rate   <- [d \in Deliveries |-> event[d].burn5m],
    answer <- [d \in Deliveries |-> hist[d].verdict]

DecidesAsPromised == Promise!Spec

(* Every request the server took up is settled, or lost with its process:  *)
(* no goroutine waits for ever.                                            *)
RequestsSettle ==
    \A d \in Deliveries : (pc[d] \in InFlight) ~> (pc[d] \in {"done", "lost"})

-----------------------------------------------------------------------------
(* What a comment of the code says and the code does not keep.             *)

(* cooldown.go, line 1: in the cooldown one rule acts once on one event.   *)
(* Stated for one life of the process: Mark follows InCooldown in a        *)
(* critical section of its own.                                            *)
CooldownHolds ==
    \A d, e \in Deliveries :
        ( /\ d # e /\ Marked(d) /\ Marked(e) /\ MarkedKey(d) = MarkedKey(e)
          /\ hist[d].life = hist[e].life /\ hist[d].markedAt <= hist[e].markedAt )
        => hist[e].markedAt - hist[d].markedAt >= Rules[log[d].rule].cooldown
=============================================================================
