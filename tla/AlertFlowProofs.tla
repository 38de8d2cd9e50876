--------------------------- MODULE AlertFlowProofs ---------------------------
(***************************************************************************)
(* Proofs about AlertFlow, for any alerts, burn rates, verdicts, repeat    *)
(* interval and number of restarts.                                        *)
(***************************************************************************)
EXTENDS AlertFlow, RemediateRulesProofs, WellFoundedInduction, TLAPS

(* The shape of the state, as far as the argument needs it.                *)
Shape ==
    /\ held \in [Alerts -> [firing : BOOLEAN, starts : Nat] \cup {None}]
    /\ turn \in [Groups -> {"new", "due", "done"}]
    /\ DOMAIN wire = Groups /\ DOMAIN nflog = Groups
    /\ DOMAIN pod = Pods /\ up \subseteq Pods /\ up # {}
    /\ DOMAIN tasks = Goroutines
    /\ raises \in Nat

(* What is sent is of a group that was flushed, and is held still.         *)
SentOf(g) ==
    wire[g] # None => /\ turn[g] = "done"
                      /\ DOMAIN wire[g] \subseteq Holding(g)

(* The goroutines at work on events of group g that came in this unit.     *)
OnTime(g) == {i \in Goroutines : tasks[i] # None /\ ~tasks[i].late /\ tasks[i].id[1] = g}

(* While one is, or once a rule has acted for the group, the group stays   *)
(* flushed until the unit ends: what can come is the same notification     *)
(* again,                                                                  *)
Flushed(g) ==
    /\ turn[g] = "done"
    /\ Holding(g) # {}
    /\ wire[g] # None => StatusOf(wire[g]) = "firing"

(* of the same event,                                                      *)
WorkOn(g) ==
    \A i \in OnTime(g) :
        /\ Flushed(g)
        /\ wire[g] # None => tasks[i].id = eventID(g, wire[g])
        /\ \A j \in OnTime(g) : tasks[j].id = tasks[i].id

(* for which the process that acted has a mark that lasts,                 *)
Cooling(p, id, r) ==
    << id, r >> \in DOMAIN pod[p].marks /\ pod[p].marks[<< id, r >>] # 0

SpentOn(p, g, r) ==
    << g, r >> \in pod[p].spent =>
        /\ Flushed(g)
        /\ wire[g] # None => Cooling(p, eventID(g, wire[g]), r)
        /\ \A i \in OnTime(g) : Cooling(p, tasks[i].id, r)

(* and if no reply was lost not even that.                                 *)
AloneOn(g) ==
    g \notin lost =>
        /\ \A i \in OnTime(g) :
              /\ wire[g] = None
              /\ \A j \in OnTime(g) : j = i
              /\ \A r \in RuleIndexes : << g, r >> \notin acted
        /\ \A r \in RuleIndexes : << g, r >> \in acted => Flushed(g) /\ wire[g] = None

GroupInv(g) ==
    /\ SentOf(g) /\ WorkOn(g) /\ AloneOn(g)
    /\ \A p \in Pods, r \in RuleIndexes : SpentOn(p, g, r)

IInv == Shape /\ (\A g \in Groups : GroupInv(g)) /\ ~twice

(* The types: what Alertmanager keeps, what the pods keep, and the rest.   *)
LogEntries == [firing : SUBSET Alerts, resolved : SUBSET Alerts, age : 0..RepeatInterval]

GroupTypes(g) ==
    /\ nflog[g] # None => nflog[g] \in LogEntries
    /\ wire[g] # None => \A a \in DOMAIN wire[g] : wire[g][a] \in HeldAlerts

AlertTypes ==
    /\ held \in [Alerts -> HeldAlerts \cup {None}]
    /\ \A g \in Groups : GroupTypes(g)

MarksOK(marks) ==
    /\ DOMAIN marks \subseteq Ids \X RuleIndexes
    /\ \A k \in DOMAIN marks : marks[k] \in 0..Rules[k[2]].cooldown \div 300

PodTypes ==
    /\ \A p \in Pods : MarksOK(pod[p].marks) /\ pod[p].spent \subseteq acted
    /\ acted \subseteq Groups \X RuleIndexes /\ twice \in BOOLEAN

(* A goroutine that is about to act has a rule to act by.                  *)
TaskTypes ==
    /\ tasks \in [Goroutines -> Tasks \cup {None}]
    /\ \A i \in Goroutines :
          tasks[i] # None /\ tasks[i].stage = "mark" => tasks[i].rule \in RuleIndexes

CountTypes ==
    /\ raises \in 0..MaxRaises /\ restarts \in 0..MaxRestarts
    /\ decided \subseteq Groups /\ lost \subseteq Groups

Types == AlertTypes /\ PodTypes /\ TaskTypes /\ CountTypes

-----------------------------------------------------------------------------
LEMMA InvInit == Init => IInv
<1> SUFFICES ASSUME Init PROVE IInv
    OBVIOUS
<1>1. Shape
    BY DEF Init, Shape
<1>2. ASSUME NEW g \in Groups PROVE GroupInv(g)
    <2>1. OnTime(g) = {}
        BY DEF Init, OnTime
    <2> QED
        BY <2>1 DEF Init, GroupInv, SentOf, WorkOn, AloneOn, SpentOn, NewProcess
<1> QED
    BY <1>1, <1>2 DEF Init, IInv

(* The tasks of group h that are on time were so before, for the same event*)
Kept(h) == \A i \in OnTime(h)' : i \in OnTime(h) /\ tasks'[i].id = tasks[i].id

(* Groups that a step does not touch keep their part of the invariant.     *)
LEMMA GroupKept ==
    ASSUME IInv, NEW h \in Groups,
           Holding(h) \subseteq Holding(h)', turn'[h] = turn[h], wire'[h] = wire[h],
           Kept(h),
           \A p \in Pods : \A k \in DOMAIN pod[p].marks :
               pod[p].marks[k] # 0 => k \in DOMAIN pod'[p].marks /\ pod'[p].marks[k] # 0,
           \A p \in Pods, r \in RuleIndexes :
               << h, r >> \in pod'[p].spent => << h, r >> \in pod[p].spent,
           h \in lost => h \in lost',
           \A r \in RuleIndexes : << h, r >> \in acted' => << h, r >> \in acted
    PROVE  GroupInv(h)'
<1>1. GroupInv(h)
    BY DEF IInv
<1>2. SentOf(h)' /\ (Flushed(h) => Flushed(h)')
    BY <1>1 DEF GroupInv, SentOf, Flushed, StatusOf
<1>3. WorkOn(h)'
    BY <1>1, <1>2 DEF GroupInv, WorkOn, Kept, eventID
<1>4. AloneOn(h)'
    BY <1>1, <1>2 DEF GroupInv, AloneOn, Kept
<1>5. ASSUME NEW p \in Pods, NEW r \in RuleIndexes PROVE SpentOn(p, h, r)'
    <2>1. SpentOn(p, h, r)
        BY <1>1 DEF GroupInv
    <2>2. ASSUME NEW id, Cooling(p, id, r) PROVE Cooling(p, id, r)'
        BY <2>2 DEF Cooling
    <2>3. CASE << h, r >> \in pod'[p].spent
        <3>1. << h, r >> \in pod[p].spent
            BY <2>3
        <3>2. wire'[h] # None => Cooling(p, eventID(h, wire[h]), r)'
            BY <2>1, <2>2, <3>1 DEF SpentOn
        <3>3. ASSUME NEW i \in OnTime(h)' PROVE Cooling(p, tasks[i].id, r)'
            <4>1. i \in OnTime(h) /\ tasks'[i].id = tasks[i].id
                BY DEF Kept
            <4>2. Cooling(p, tasks[i].id, r)
                BY <2>1, <3>1, <4>1 DEF SpentOn
            <4> DEFINE id == tasks[i].id
            <4> HIDE DEF id
            <4>3. Cooling(p, id, r) => (<< id, r >> \in DOMAIN pod'[p].marks /\ pod'[p].marks[<< id, r >>] # 0)
                BY DEF Cooling
            <4> QED
                BY <4>1, <4>2, <4>3 DEF Cooling, id
        <3> QED
            BY <1>2, <2>1, <3>1, <3>2, <3>3 DEF SpentOn, eventID
    <2> QED
        BY <2>3 DEF SpentOn
<1> QED
    BY <1>2, <1>3, <1>4, <1>5 DEF GroupInv

(* A step that leaves the processes alone, keeps what was sent and held,   *)
(* and flushes no group again.                                             *)
LEMMA HoldingKept ==
    ASSUME IInv, Shape', UNCHANGED << turn, wire, pod, tasks, history >>,
           \A g \in Groups : Holding(g) \subseteq Holding(g)'
    PROVE  IInv'
<1>1. \A g \in Groups : Kept(g)
    BY DEF Kept, OnTime
<1>2. \A g \in Groups : GroupInv(g)'
    BY <1>1, GroupKept DEF history
<1> QED
    BY <1>2 DEF IInv, history

LEMMA RaiseKeeps == ASSUME IInv, NEW as, Raise(as) PROVE IInv'
<1>1. \A n \in Nat : [firing |-> TRUE, starts |-> n + 1] \in [firing : BOOLEAN, starts : Nat]
    OBVIOUS
<1>2. Shape'
    BY <1>1 DEF IInv, Shape, Raise
<1>3. ASSUME NEW g \in Groups, NEW a \in Holding(g) PROVE a \in Holding(g)'
    <2>1. a \in Alerts /\ held[a] # None
        BY DEF Holding
    <2>2. held'[a] = [firing |-> TRUE, starts |-> raises + 1] \/ held'[a] = held[a]
        BY <2>1 DEF Raise
    <2>3. held'[a] # None
        BY <1>1, <2>1, <2>2, NoneAssumption DEF IInv, Shape
    <2> QED
        BY <2>1, <2>3 DEF Holding
<1> QED
    BY <1>2, <1>3, HoldingKept DEF Raise

LEMMA ClearKeeps == ASSUME IInv, NEW a \in Alerts, Clear(a) PROVE IInv'
<1>1. held[a] \in [firing : BOOLEAN, starts : Nat]
    BY DEF IInv, Shape, Clear, Firing
<1>2. /\ held' = [held EXCEPT ![a] = [held[a] EXCEPT !.firing = FALSE]]
      /\ [held[a] EXCEPT !.firing = FALSE] \in [firing : BOOLEAN, starts : Nat]
    BY <1>1 DEF Clear
<1>3. Shape'
    BY <1>2 DEF IInv, Shape, Clear
<1>4. ASSUME NEW g \in Groups PROVE Holding(g) \subseteq Holding(g)'
    BY <1>2, NoneAssumption DEF IInv, Shape, Holding
<1> QED
    BY <1>3, <1>4, HoldingKept DEF Clear

(* Alerts that leave one group leave the others as they are.               *)
LEMMA DropOwn ==
    ASSUME Shape, NEW g \in Groups, NEW as, as \subseteq Holding(g), Drop(as)
    PROVE  /\ held' \in [Alerts -> [firing : BOOLEAN, starts : Nat] \cup {None}]
           /\ \A h \in Groups : h # g => Holding(h)' = Holding(h)
           /\ Holding(g)' = Holding(g) \ as
<1>1. held' \in [Alerts -> [firing : BOOLEAN, starts : Nat] \cup {None}]
    BY DEF Shape, Drop
<1>2. \A a \in Alerts : held'[a] = IF a \in as THEN None ELSE held[a]
    BY DEF Drop
<1> QED
    BY <1>1, <1>2 DEF Holding

LEMMA FlushKeeps == ASSUME IInv, NEW g \in Groups, Flush(g) PROVE IInv'
<1>1. /\ turn[g] # "done" /\ wire[g] = None /\ OnTime(g) = {}
      /\ \A p \in Pods, r \in RuleIndexes : << g, r >> \notin pod[p].spent
      /\ \A r \in RuleIndexes : ~(<< g, r >> \in acted /\ g \notin lost)
    BY DEF IInv, GroupInv, Flush, Flushed, SentOf, WorkOn, AloneOn, SpentOn
<1>2. turn' = [turn EXCEPT ![g] = IF Holding(g)' = {} THEN "new" ELSE "done"]
    BY DEF Flush, Turned
<1>3. turn' \in [Groups -> {"new", "due", "done"}]
    BY <1>2 DEF IInv, Shape
<1>4. \/ \E n : /\ wire' = [wire EXCEPT ![g] = n] /\ DOMAIN n \subseteq Holding(g)
                /\ held' = held
      \/ wire' = wire /\ Drop(Holding(g) \ FiringIn(g))
    BY DEF Flush
<1>5. /\ held' \in [Alerts -> [firing : BOOLEAN, starts : Nat] \cup {None}]
      /\ \A h \in Groups : h # g => Holding(h)' = Holding(h)
    <2>1. CASE held' = held
        BY <2>1 DEF Holding, IInv, Shape
    <2>2. CASE Drop(Holding(g) \ FiringIn(g))
        BY <2>2, DropOwn DEF IInv
    <2> QED
        BY <1>4, <2>1, <2>2
<1>6. /\ UNCHANGED << nflog, up, pod, tasks, raises, acted, lost, twice >>
      /\ Shape' /\ \A h \in Groups : h # g => wire'[h] = wire[h]
      /\ \A h \in Groups : OnTime(h)' = OnTime(h) /\ Kept(h)
    BY <1>3, <1>4, <1>5 DEF IInv, Shape, Flush, history, OnTime, Kept
<1>7. ASSUME NEW h \in Groups, h # g PROVE GroupInv(h)'
    BY <1>2, <1>5, <1>6, <1>7, GroupKept DEF IInv, Shape
<1>8. SentOf(g)'
    <2>1. CASE \E n : wire' = [wire EXCEPT ![g] = n] /\ DOMAIN n \subseteq Holding(g) /\ held' = held
        <3>1. Holding(g)' = Holding(g) /\ Holding(g) # {}
            BY <2>1 DEF Holding, Flush
        <3> QED
            BY <1>2, <2>1, <3>1 DEF SentOf, IInv, Shape
    <2>2. CASE wire' = wire
        BY <1>1, <2>2 DEF SentOf
    <2> QED
        BY <1>4, <2>1, <2>2
<1>9. GroupInv(g)'
    BY <1>1, <1>6, <1>8 DEF GroupInv, WorkOn, AloneOn, SpentOn
<1> QED
    BY <1>6, <1>7, <1>9 DEF IInv

LEMMA TickKeeps == ASSUME IInv, Types, Tick PROVE IInv'
<1>1. /\ \A p \in Pods : pod'[p].spent = {}
      /\ acted' = {} /\ twice' = twice
      /\ \A g \in Groups : wire'[g] = None
    BY DEF Tick
<1>2. Shape'
    BY DEF Tick, IInv, Shape
<1>3. ASSUME NEW g \in Groups PROVE OnTime(g)' = {}
    <2>1. ASSUME NEW i \in Goroutines, tasks'[i] # None PROVE tasks'[i].late
        <3>1. tasks[i] # None /\ tasks'[i] = [tasks[i] EXCEPT !.late = TRUE]
            BY <2>1 DEF Tick
        <3>2. tasks[i] \in Tasks
            BY <3>1 DEF Types, TaskTypes
        <3> QED
            BY <3>1, <3>2 DEF Tasks
    <2> QED
        BY <2>1 DEF OnTime
<1>4. \A g \in Groups : GroupInv(g)'
    BY <1>1, <1>3 DEF GroupInv, SentOf, WorkOn, AloneOn, SpentOn
<1> QED
    BY <1>1, <1>2, <1>4 DEF IInv

(* A process that starts or stops leaves nothing behind.                   *)
LEMMA ReplacedKeeps ==
    ASSUME IInv, NEW q \in Pods, StartProcess(q) \/ StopPod(q) PROVE IInv'
<1>1. /\ pod' = [pod EXCEPT ![q] = NewProcess] /\ Abandoned(q)
      /\ UNCHANGED << held, turn, nflog, wire, raises, acted, lost, twice >>
    BY DEF StartProcess, StopPod, history
<1>2. up' \subseteq Pods /\ up' # {}
    BY DEF StartProcess, StopPod, IInv, Shape
<1>3. Shape'
    BY <1>1, <1>2 DEF IInv, Shape, Abandoned
<1>4. ASSUME NEW h \in Groups PROVE GroupInv(h)'
    <2>1. GroupInv(h) /\ Holding(h)' = Holding(h)
        BY <1>1 DEF IInv, Holding
    <2>2. Kept(h)
        BY <1>1 DEF Abandoned, Kept, OnTime
    <2>3. (Flushed(h) => Flushed(h)') /\ SentOf(h)'
        BY <1>1, <2>1 DEF GroupInv, SentOf, Flushed, StatusOf
    <2>4. WorkOn(h)' /\ AloneOn(h)'
        BY <1>1, <2>1, <2>2, <2>3 DEF GroupInv, WorkOn, AloneOn, Kept, eventID
    <2>5. ASSUME NEW p \in Pods, NEW r \in RuleIndexes PROVE SpentOn(p, h, r)'
        <3>1. CASE p = q
            <4>1. pod'[p].spent = {}
                BY <1>1, <3>1 DEF IInv, Shape, NewProcess
            <4> QED
                BY <4>1 DEF SpentOn
        <3>2. CASE p # q
            <4>1. pod'[p] = pod[p]
                BY <1>1, <3>2 DEF IInv, Shape
            <4>2. SpentOn(p, h, r)
                BY <2>1 DEF GroupInv
            <4> QED
                BY <1>1, <2>2, <2>3, <4>1, <4>2 DEF SpentOn, Cooling, Kept, eventID
        <3> QED
            BY <3>1, <3>2
    <2> QED
        BY <2>3, <2>4, <2>5 DEF GroupInv
<1> QED
    BY <1>1, <1>3, <1>4 DEF IInv

-----------------------------------------------------------------------------
(* A notification may give a goroutine to its group, on its event, and     *)
(* leaves the others alone.                                                *)
Accepted(g) ==
    /\ DOMAIN tasks' = Goroutines
    /\ \A h \in Groups : h # g => Kept(h)
    /\ \A i \in OnTime(g)' :
          \/ i \in OnTime(g) /\ tasks'[i].id = tasks[i].id
          \/ StatusOf(wire[g]) = "firing" /\ tasks'[i].id = eventID(g, wire[g])
    /\ \A i, j \in OnTime(g)' : i # j => i \in OnTime(g) \/ j \in OnTime(g)

LEMMA AcceptEffect ==
    ASSUME IInv, NEW g \in Groups, NEW q, handleWebhook(q, g, wire[g])
    PROVE  Accepted(g)
<1>1. CASE UNCHANGED tasks
    BY <1>1 DEF IInv, Shape, Accepted, Kept, OnTime
<1>2. CASE ~UNCHANGED tasks
    <2>1. StatusOf(wire[g]) = "firing"
        BY <1>2 DEF handleWebhook, StatusOf
    <2>2. PICK i \in Goroutines, burn \in BurnLevels :
              /\ tasks[i] = None
              /\ tasks' = [tasks EXCEPT ![i] =
                             [pod |-> q, id |-> eventID(g, wire[g]),
                              rule |-> Match(g[1], burn), stage |-> "check", late |-> FALSE]]
        BY <1>2 DEF handleWebhook
    <2> DEFINE id == eventID(g, wire[g])
    <2>3. id[1] = g
        BY DEF eventID
    <2>4. /\ DOMAIN tasks' = Goroutines
          /\ tasks'[i].id = id
          /\ \A j \in Goroutines : j # i => tasks'[j] = tasks[j]
        BY <2>2 DEF IInv, Shape
    <2> HIDE DEF id
    <2>5. \A h \in Groups : h # g => Kept(h)
        BY <2>3, <2>4 DEF Kept, OnTime
    <2>6. \A j \in OnTime(g)' : j = i \/ (j \in OnTime(g) /\ tasks'[j].id = tasks[j].id)
        BY <2>4 DEF OnTime
    <2> QED
        BY <2>1, <2>4, <2>5, <2>6 DEF Accepted, id
<1> QED
    BY <1>1, <1>2

(* The other groups, when one is notified.                                 *)
LEMMA OthersKept ==
    ASSUME IInv, NEW g \in Groups, NEW h \in Groups, h # g, Accepted(g),
           Holding(h)' = Holding(h), turn'[h] = turn[h], wire'[h] = wire[h],
           UNCHANGED << pod, acted >>, lost \subseteq lost'
    PROVE  GroupInv(h)'
BY GroupKept DEF Accepted

LEMMA UnansweredKeeps == ASSUME IInv, NEW g \in Groups, Unanswered(g) PROVE IInv'
<1>1. /\ wire[g] # None /\ lost' = lost \cup {g}
      /\ UNCHANGED << held, turn, nflog, wire, up, pod, raises, acted, twice >>
    BY DEF Unanswered
<1>2. Accepted(g)
    BY AcceptEffect DEF Unanswered
<1>3. Shape'
    BY <1>1, <1>2 DEF IInv, Shape, Accepted
<1>4. \A h \in Groups : Holding(h)' = Holding(h)
    BY <1>1 DEF Holding
<1>5. ASSUME NEW h \in Groups, h # g PROVE GroupInv(h)'
    BY <1>1, <1>2, <1>4, <1>5, OthersKept
<1>6. GroupInv(g)
    BY DEF IInv
<1>7. SentOf(g)' /\ AloneOn(g)' /\ (Flushed(g) => Flushed(g)')
    BY <1>1, <1>4, <1>6 DEF GroupInv, SentOf, AloneOn, Flushed, StatusOf
<1>8. StatusOf(wire[g]) = "firing" => Flushed(g)
    BY <1>1, <1>6 DEF GroupInv, SentOf, Flushed, StatusOf
<1>9. \A i \in OnTime(g)' : Flushed(g) /\ tasks'[i].id = eventID(g, wire[g])
    BY <1>1, <1>2, <1>6, <1>8 DEF Accepted, GroupInv, WorkOn
<1>10. WorkOn(g)'
    BY <1>1, <1>7, <1>9 DEF WorkOn, eventID
<1>11. ASSUME NEW p \in Pods, NEW r \in RuleIndexes PROVE SpentOn(p, g, r)'
    BY <1>1, <1>6, <1>7, <1>9 DEF GroupInv, SpentOn, Cooling, eventID
<1>12. GroupInv(g)'
    BY <1>7, <1>10, <1>11 DEF GroupInv
<1> QED
    BY <1>1, <1>3, <1>5, <1>12 DEF IInv

LEMMA AnsweredKeeps == ASSUME IInv, NEW g \in Groups, Answered(g) PROVE IInv'
<1> DEFINE n == wire[g]
           firing == {a \in DOMAIN n : n[a].firing}
           told == {a \in DOMAIN n \ firing : held[a] = n[a]}
<1>1. n # None /\ UNCHANGED << up, pod, raises, acted, lost, twice >>
    BY DEF Answered, history
<1>2. Accepted(g)
    BY AcceptEffect DEF Answered
<1>3. /\ wire' = [wire EXCEPT ![g] = None]
      /\ DOMAIN nflog' = DOMAIN nflog
      /\ Drop(told)
      /\ turn' = [turn EXCEPT ![g] = IF Holding(g)' = {} THEN "new" ELSE "done"]
    BY DEF Answered, Acknowledge, Turned
<1>4. GroupInv(g) /\ turn[g] = "done" /\ DOMAIN n \subseteq Holding(g)
    BY <1>1 DEF IInv, GroupInv, SentOf
<1>5. /\ held' \in [Alerts -> [firing : BOOLEAN, starts : Nat] \cup {None}]
      /\ \A h \in Groups : h # g => Holding(h)' = Holding(h)
      /\ Holding(g)' = Holding(g) \ told
    BY <1>3, <1>4, DropOwn DEF IInv
<1>6. turn' \in [Groups -> {"new", "due", "done"}]
    BY <1>3 DEF IInv, Shape
<1>7. Shape'
    BY <1>1, <1>2, <1>3, <1>5, <1>6 DEF IInv, Shape, Accepted
<1>8. wire'[g] = None /\ SentOf(g)'
    BY <1>3 DEF IInv, Shape, SentOf
<1>9. ASSUME NEW h \in Groups, h # g PROVE GroupInv(h)'
    <2>1. turn'[h] = turn[h] /\ wire'[h] = wire[h] /\ Holding(h)' = Holding(h)
        BY <1>3, <1>5, <1>9 DEF IInv, Shape
    <2> QED
        BY <1>1, <1>2, <1>9, <2>1, OthersKept
<1>10. ASSUME StatusOf(n) = "firing" PROVE Flushed(g)'
    <2>1. PICK a \in DOMAIN n : n[a].firing
        BY <1>10 DEF StatusOf
    <2>2. a \in Holding(g)'
        BY <1>4, <1>5, <2>1
    <2> QED
        BY <1>3, <1>8, <2>2 DEF IInv, Shape, Flushed
<1>11. /\ \A i \in OnTime(g)' : StatusOf(n) = "firing" /\ tasks'[i].id = eventID(g, n)
       /\ \A r \in RuleIndexes, p \in Pods :
             << g, r >> \in pod[p].spent => StatusOf(n) = "firing"
                                             /\ Cooling(p, eventID(g, n), r)
       /\ g \notin lost => OnTime(g) = {} /\ \A r \in RuleIndexes : << g, r >> \notin acted
    BY <1>1, <1>2, <1>4 DEF Accepted, GroupInv, WorkOn, AloneOn, SpentOn, Flushed
<1>12. WorkOn(g)'
    BY <1>8, <1>10, <1>11 DEF WorkOn
<1>13. AloneOn(g)'
    BY <1>1, <1>2, <1>8, <1>11 DEF AloneOn, Accepted
<1>14. ASSUME NEW p \in Pods, NEW r \in RuleIndexes PROVE SpentOn(p, g, r)'
    BY <1>1, <1>8, <1>10, <1>11 DEF SpentOn, Cooling
<1> QED
    BY <1>1, <1>7, <1>8, <1>9, <1>12, <1>13, <1>14 DEF IInv, GroupInv

(* A goroutine that finds its event outside the cooldown has not marked its*)
(* rule for the group in this unit, nor has another of its process.        *)
LEMMA CheckKeeps == ASSUME IInv, Types, NEW i \in Goroutines, Check(i) PROVE IInv'
<1> DEFINE t == tasks[i]
           g == t.id[1]
<1>1. t # None /\ t \in Tasks /\ g \in Groups
    BY DEF Check, Types, TaskTypes, Tasks, Ids
<1>2. UNCHANGED << held, turn, nflog, wire, up, pod, raises, acted, lost >>
    BY DEF Check
<1>3. /\ DOMAIN tasks' = Goroutines
      /\ \A j \in Goroutines : j # i => tasks'[j] = tasks[j]
      /\ tasks'[i] # None => tasks'[i].id = t.id /\ tasks'[i].late = t.late
    BY <1>1 DEF Check, IInv, Shape, Tasks
<1>4. \A h \in Groups : Kept(h)
    BY <1>1, <1>3 DEF Kept, OnTime
<1>5. \A h \in Groups : GroupInv(h)'
    <2>1. \A h \in Groups : Holding(h)' = Holding(h)
        BY <1>2 DEF Holding
    <2> QED
        BY <1>2, <1>4, <2>1, GroupKept
<1>6. ~twice'
    <2>1. ASSUME FALSE \in InCooldown(pod[t.pod], << t.id, t.rule >>), ~t.late,
                 << g, t.rule >> \in pod[t.pod].spent
          PROVE  FALSE
        <3>1. t.pod \in Pods /\ t.rule \in RuleIndexes
            BY <1>1, <2>1 DEF Tasks, Types, PodTypes
        <3>2. i \in OnTime(g)
            BY <1>1, <2>1 DEF OnTime
        <3>3. SpentOn(t.pod, g, t.rule)
            BY <1>1, <3>1 DEF IInv, GroupInv
        <3>4. Cooling(t.pod, t.id, t.rule)
            BY <2>1, <3>2, <3>3 DEF SpentOn
        <3> QED
            BY <2>1, <3>4 DEF Cooling, InCooldown
    <2>2. ~twice
        BY DEF IInv
    <2>3. PICK cooling \in InCooldown(pod[t.pod], << t.id, t.rule >>) :
              twice' = (twice \/ (~cooling /\ ~t.late /\ << g, t.rule >> \in pod[t.pod].spent))
        BY DEF Check
    <2>4. cooling \in BOOLEAN
        BY DEF InCooldown
    <2> QED
        BY <2>1, <2>2, <2>3, <2>4
<1>7. Shape'
    BY <1>2, <1>3 DEF IInv, Shape
<1> QED
    BY <1>5, <1>6, <1>7 DEF IInv

(* A goroutine that acts leaves a mark that lasts beyond the unit.         *)
LEMMA MarkKeeps == ASSUME IInv, Types, NEW i \in Goroutines, MarkAndAct(i) PROVE IInv'
<1>t. tasks[i] # None /\ tasks[i] \in Tasks /\ tasks[i].rule \in RuleIndexes
    BY DEF MarkAndAct, Types, TaskTypes
<1>1. PICK id \in Ids, q \in Pods, g \in Groups, r \in RuleIndexes, late \in BOOLEAN :
          /\ tasks[i].id = id /\ tasks[i].pod = q /\ tasks[i].rule = r /\ id[1] = g
          /\ tasks[i].late = late
    BY <1>t DEF Tasks, Ids
<1> DEFINE k == << id, r >>
           spending == IF late THEN {} ELSE {<< g, r >>}
<1>2. UNCHANGED << held, turn, nflog, wire, up, raises, lost >>
    BY DEF MarkAndAct
<1>3. /\ tasks' = [tasks EXCEPT ![i] = None]
      /\ \A h \in Groups : Kept(h) /\ i \notin OnTime(h)'
    BY DEF MarkAndAct, IInv, Shape, Kept, OnTime
<1>4. /\ DOMAIN pod' = Pods
      /\ \A p \in Pods : p # q => pod'[p] = pod[p]
      /\ pod'[q].marks = Mark(pod[q].marks, k)
      /\ pod'[q].spent = pod[q].spent \cup spending
      /\ acted' = acted \cup spending
      /\ twice' = (twice \/ (g \notin lost /\ spending \cap acted # {}))
    BY <1>1 DEF MarkAndAct, IInv, Shape
<1>5. /\ k \in DOMAIN pod'[q].marks /\ pod'[q].marks[k] # 0
      /\ \A p \in Pods : \A j \in DOMAIN pod[p].marks :
            pod[p].marks[j] # 0 => j \in DOMAIN pod'[p].marks /\ pod'[p].marks[j] # 0
    <2>1. k[2] = r /\ Rules[r].cooldown \div 300 # 0
        BY <1>1, RuleTable
    <2> HIDE DEF k
    <2> QED
        BY <1>4, <2>1 DEF Mark
<1>6. \A h \in Groups : Holding(h)' = Holding(h)
    BY <1>2 DEF Holding
<1>7. Shape'
    BY <1>2, <1>3, <1>4 DEF IInv, Shape
<1> HIDE DEF k
<1>8. ASSUME NEW h \in Groups, h # g \/ late PROVE GroupInv(h)'
    <2>1. /\ \A p \in Pods, x \in RuleIndexes :
                << h, x >> \in pod'[p].spent => << h, x >> \in pod[p].spent
          /\ \A x \in RuleIndexes : << h, x >> \in acted' => << h, x >> \in acted
        BY <1>4, <1>8
    <2> QED
        BY <1>2, <1>3, <1>5, <1>6, <2>1, GroupKept
<1>9. ASSUME ~late PROVE i \in OnTime(g) /\ GroupInv(g)
    BY <1>t, <1>1, <1>9 DEF OnTime, IInv
<1>10. ASSUME ~late PROVE GroupInv(g)'
    <2>1. Flushed(g)' /\ SentOf(g)'
        BY <1>2, <1>6, <1>9, <1>10 DEF GroupInv, SentOf, WorkOn, Flushed, StatusOf
    <2>2. \A j \in OnTime(g)' : j \in OnTime(g) /\ tasks'[j].id = id
        BY <1>1, <1>3, <1>9, <1>10 DEF GroupInv, WorkOn, Kept
    <2>3. wire'[g] = wire[g] /\ (wire[g] # None => eventID(g, wire[g]) = id)
        BY <1>1, <1>2, <1>9, <1>10 DEF GroupInv, WorkOn
    <2>4. WorkOn(g)'
        BY <2>1, <2>2, <2>3 DEF WorkOn, eventID
    <2>5. AloneOn(g)'
        BY <1>2, <1>3, <1>9, <1>10, <2>1 DEF GroupInv, AloneOn, Kept
    <2>6. ASSUME NEW p \in Pods, NEW x \in RuleIndexes PROVE SpentOn(p, g, x)'
        <3>1. CASE << g, x >> \in pod'[p].spent
            <4>1. << id, x >> \in DOMAIN pod'[p].marks /\ pod'[p].marks[<< id, x >>] # 0
                <5>1. CASE << g, x >> \in pod[p].spent
                    <6>1. Cooling(p, id, x)
                        BY <1>1, <1>9, <1>10, <5>1 DEF GroupInv, SpentOn
                    <6> QED
                        BY <1>5, <6>1 DEF Cooling
                <5>2. CASE << g, x >> \notin pod[p].spent
                    <6>1. p = q /\ x = r
                        BY <1>4, <3>1, <5>2
                    <6> QED
                        BY <1>5, <6>1 DEF k
                <5> QED
                    BY <5>1, <5>2
            <4> QED
                BY <2>1, <2>2, <2>3, <4>1 DEF SpentOn, Cooling, eventID
        <3> QED
            BY <3>1 DEF SpentOn
    <2> QED
        BY <2>1, <2>4, <2>5, <2>6 DEF GroupInv
<1>11. ~twice'
    <2>1. ~late /\ g \notin lost => << g, r >> \notin acted
        BY <1>1, <1>9 DEF GroupInv, AloneOn
    <2> QED
        BY <1>4, <2>1 DEF IInv
<1>12. \A h \in Groups : GroupInv(h)'
    BY <1>8, <1>10
<1> QED
    BY <1>7, <1>11, <1>12 DEF IInv

-----------------------------------------------------------------------------
LEMMA InvStep == IInv /\ Types /\ [Next]_vars => IInv'
<1> SUFFICES ASSUME IInv, Types, [Next]_vars PROVE IInv'
    OBVIOUS
<1>1. CASE \E as \in SUBSET Alerts : Raise(as)
    BY <1>1, RaiseKeeps
<1>2. CASE \E a \in Alerts : Clear(a)
    BY <1>2, ClearKeeps
<1>3. CASE \E g \in Groups : Flush(g) \/ Answered(g) \/ Unanswered(g)
    BY <1>3, FlushKeeps, AnsweredKeeps, UnansweredKeeps
<1>4. CASE Tick
    BY <1>4, TickKeeps
<1>5. CASE \E p \in Pods : StartProcess(p) \/ StopPod(p)
    BY <1>5, ReplacedKeeps
<1>6. CASE \E i \in Goroutines : Check(i) \/ MarkAndAct(i)
    BY <1>6, CheckKeeps, MarkKeeps
<1>7. CASE UNCHANGED vars
    <2>1. Shape' /\ \A g \in Groups : Holding(g)' = Holding(g)
        BY <1>7 DEF vars, IInv, Shape, Holding
    <2> QED
        BY <1>7, <2>1, HoldingKept DEF vars
<1> QED
    BY <1>1, <1>2, <1>3, <1>4, <1>5, <1>6, <1>7 DEF Next

-----------------------------------------------------------------------------
(* Types.  That a notification has a first alert, from which its event has *)
(* its name, needs a least path among those of its alerts.                 *)

Less == {p \in Nat \X Nat : p[1] < p[2]}

LEMMA LessWellFounded == IsWellFoundedOn(Less, Nat)
<1>1. IsWellFoundedOn(OpToRel(<, Nat), Nat)
    BY NatLessThanWellFounded
<1>2. OpToRel(<, Nat) = Less
    BY DEF OpToRel, Less
<1> QED
    BY <1>1, <1>2

LEMMA LeastOf ==
    ASSUME NEW S, S \subseteq Nat, S # {}
    PROVE  \E m \in S : \A n \in S : m <= n
<1>1. PICK m \in S : \A n \in S : ~(<< n, m >> \in Less)
    BY LessWellFounded, WFMin
<1>2. ASSUME NEW n \in S PROVE m <= n
    <2>1. m \in Nat /\ n \in Nat
        OBVIOUS
    <2>2. << n, m >> \in Nat \X Nat /\ << n, m >>[1] = n /\ << n, m >>[2] = m
        BY <2>1
    <2>3. ~(n < m)
        BY <1>1, <2>2 DEF Less
    <2> QED
        BY <2>1, <2>3
<1> QED
    BY <1>2

(* The first alert of a notification is one of its alerts.                 *)
LEMMA FirstIsOne ==
    ASSUME NEW n, DOMAIN n \subseteq Alerts, DOMAIN n # {}
    PROVE  First(n) \in DOMAIN n
<1> DEFINE paths == {a.path : a \in DOMAIN n}
<1>1. paths \subseteq Nat /\ paths # {}
    BY AlertsAssumption DEF Alert
<1>2. PICK m \in paths : \A k \in paths : m <= k
    BY <1>1, LeastOf
<1>3. \E a \in DOMAIN n : \A b \in DOMAIN n : a.path <= b.path
    BY <1>2
<1> QED
    BY <1>3 DEF First

(* An alert that is held has the shape of one, and a value of its own.     *)
LEMMA HeldAlert ==
    /\ None \notin HeldAlerts
    /\ \A n \in Nat : n < MaxRaises => [firing |-> TRUE, starts |-> n + 1] \in HeldAlerts
    /\ \A e \in HeldAlerts : [e EXCEPT !.firing = FALSE] \in HeldAlerts
<1>1. HeldAlerts \subseteq [firing : BOOLEAN, starts : Nat]
    BY BoundsAssumption DEF HeldAlerts
<1>2. ASSUME NEW n \in Nat, n < MaxRaises
      PROVE  [firing |-> TRUE, starts |-> n + 1] \in HeldAlerts
    BY <1>2, BoundsAssumption DEF HeldAlerts
<1>3. ASSUME NEW e \in HeldAlerts PROVE [e EXCEPT !.firing = FALSE] \in HeldAlerts
    BY DEF HeldAlerts
<1> QED
    BY <1>1, <1>2, <1>3, NoneAssumption

LEMMA TypeParts == IInv /\ Types => TypeOK
BY DEF IInv, Shape, GroupInv, SentOf, TypeOK, Types, AlertTypes, PodTypes, TaskTypes,
       CountTypes, GroupTypes, MarksOK, LogEntries

LEMMA TypesInit == Init => Types
<1> SUFFICES ASSUME Init PROVE Types
    OBVIOUS
<1>1. AlertTypes
    BY DEF Init, AlertTypes, GroupTypes
<1>2. DOMAIN NewProcess.marks = {}
    BY DEF NewProcess
<1>3. PodTypes
    BY <1>2 DEF Init, PodTypes, MarksOK, NewProcess
<1>4. CountTypes /\ TaskTypes
    BY BoundsAssumption DEF Init, CountTypes, TaskTypes
<1> QED
    BY <1>1, <1>3, <1>4 DEF Types

(* Prometheus changes what is held only.                                   *)
LEMMA PrometheusTypes ==
    ASSUME IInv, Types,
           (\E as \in SUBSET Alerts : Raise(as)) \/ (\E a \in Alerts : Clear(a))
    PROVE  Types'
<1>1. CASE \E as \in SUBSET Alerts : Raise(as)
    <2>1. PICK as \in SUBSET Alerts : Raise(as)
        BY <1>1
    <2>2. [firing |-> TRUE, starts |-> raises + 1] \in HeldAlerts /\ raises' \in 0..MaxRaises
        BY <2>1, HeldAlert, BoundsAssumption DEF Raise, Types, CountTypes
    <2>3. AlertTypes'
        BY <2>1, <2>2 DEF Raise, Types, AlertTypes, GroupTypes
    <2> QED
        BY <2>1, <2>2, <2>3 DEF Raise, history, Types, PodTypes, TaskTypes, CountTypes
<1>2. CASE \E a \in Alerts : Clear(a)
    <2>1. PICK a \in Alerts : Clear(a)
        BY <1>2
    <2>2. held[a] \in HeldAlerts
        BY <2>1 DEF Clear, Firing, Types, AlertTypes
    <2>3. /\ held' = [held EXCEPT ![a] = [held[a] EXCEPT !.firing = FALSE]]
          /\ [held[a] EXCEPT !.firing = FALSE] \in HeldAlerts
        BY <2>1, <2>2, HeldAlert DEF Clear
    <2>4. AlertTypes'
        BY <2>1, <2>3 DEF Clear, Types, AlertTypes, GroupTypes
    <2> QED
        BY <2>1, <2>4 DEF Clear, history, Types, PodTypes, TaskTypes, CountTypes
<1> QED
    BY <1>1, <1>2

LEMMA DropTypes ==
    ASSUME AlertTypes, NEW as, Drop(as)
    PROVE  held' \in [Alerts -> HeldAlerts \cup {None}]
BY DEF AlertTypes, Drop

LEMMA FlushTypes == ASSUME IInv, Types, NEW g \in Groups, Flush(g) PROVE Types'
<1>1. UNCHANGED << nflog, pod, tasks, raises, restarts, decided, acted, lost, twice >>
    BY DEF Flush, history
<1>2. PodTypes' /\ TaskTypes' /\ CountTypes'
    BY <1>1 DEF Types, PodTypes, TaskTypes, CountTypes
<1>3. \/ \E as \in SUBSET Holding(g) :
            wire' = [wire EXCEPT ![g] = [a \in as |-> held[a]]] /\ held' = held
      \/ wire' = wire /\ Drop(Holding(g) \ FiringIn(g))
    BY DEF Flush
<1>4. CASE \E as \in SUBSET Holding(g) :
               wire' = [wire EXCEPT ![g] = [a \in as |-> held[a]]] /\ held' = held
    <2>1. PICK as \in SUBSET Holding(g) :
               wire' = [wire EXCEPT ![g] = [a \in as |-> held[a]]] /\ held' = held
        BY <1>4
    <2>2. \A a \in as : held[a] \in HeldAlerts
        BY DEF Types, AlertTypes, Holding
    <2>3. ASSUME NEW h \in Groups PROVE GroupTypes(h)'
        BY <1>1, <2>1, <2>2 DEF IInv, Shape, Types, AlertTypes, GroupTypes
    <2> QED
        BY <1>2, <2>1, <2>3 DEF Types, AlertTypes
<1>5. CASE wire' = wire /\ Drop(Holding(g) \ FiringIn(g))
    BY <1>1, <1>2, <1>5, DropTypes DEF Types, AlertTypes, GroupTypes
<1> QED
    BY <1>3, <1>4, <1>5

(* A mark that has time left stays one when it is a unit older.            *)
LEMMA OlderMarks == ASSUME NEW marks, MarksOK(marks) PROVE MarksOK(Older(marks))
<1>1. ASSUME NEW k \in DOMAIN Older(marks)
      PROVE  Older(marks)[k] \in 0..Rules[k[2]].cooldown \div 300
    <2>1. /\ k \in DOMAIN marks /\ marks[k] > 0
          /\ Older(marks)[k] = marks[k] - 1
        BY DEF Older
    <2>2. marks[k] \in 0..Rules[k[2]].cooldown \div 300
        BY <2>1 DEF MarksOK
    <2>3. k[2] \in RuleIndexes
        BY <2>1 DEF MarksOK
    <2>4. Rules[k[2]].cooldown \div 300 \in Int
        BY <2>3, RuleTable
    <2> QED
        BY <2>1, <2>2, <2>4
<1>2. DOMAIN Older(marks) \subseteq DOMAIN marks
    BY DEF Older
<1> QED
    BY <1>1, <1>2 DEF MarksOK

LEMMA TickTypes == ASSUME IInv, Types, Tick PROVE Types'
<1>1. ASSUME NEW g \in Groups PROVE GroupTypes(g)'
    <2>1. wire'[g] = None
        BY DEF Tick
    <2>2. CASE nflog[g] = None \/ nflog[g].age = RepeatInterval
        BY <2>1, <2>2 DEF Tick, Types, AlertTypes, GroupTypes
    <2>3. CASE nflog[g] # None /\ nflog[g].age # RepeatInterval
        <3>1. nflog[g] \in LogEntries
            BY <2>3 DEF Types, AlertTypes, GroupTypes
        <3>2. nflog'[g] = [nflog[g] EXCEPT !.age = nflog[g].age + 1]
            BY <2>3 DEF Tick
        <3>3. nflog[g].age + 1 \in 0..RepeatInterval
            BY <2>3, <3>1, BoundsAssumption DEF LogEntries
        <3>4. nflog'[g] \in LogEntries
            BY <3>1, <3>2, <3>3 DEF LogEntries
        <3> QED
            BY <2>1, <3>4 DEF GroupTypes
    <2> QED
        BY <2>2, <2>3
<1>2. AlertTypes'
    BY <1>1 DEF Tick, Types, AlertTypes
<1>3. PodTypes'
    BY OlderMarks DEF Tick, Types, PodTypes
<1>4. TaskTypes'
    <2>1. ASSUME NEW i \in Goroutines, tasks[i] # None
          PROVE  /\ [tasks[i] EXCEPT !.late = TRUE] \in Tasks
                 /\ [tasks[i] EXCEPT !.late = TRUE].stage = tasks[i].stage
                 /\ [tasks[i] EXCEPT !.late = TRUE].rule = tasks[i].rule
        <3>1. tasks[i] \in Tasks
            BY <2>1 DEF Types, TaskTypes
        <3> QED
            BY <3>1 DEF Tasks
    <2> QED
        BY <2>1 DEF Tick, Types, TaskTypes
<1> QED
    BY <1>2, <1>3, <1>4 DEF Tick, Types, CountTypes

LEMMA ReplacedTypes ==
    ASSUME IInv, Types, NEW q \in Pods, StartProcess(q) \/ StopPod(q) PROVE Types'
<1>1. /\ pod' = [pod EXCEPT ![q] = NewProcess] /\ Abandoned(q)
      /\ UNCHANGED << held, nflog, wire, raises, decided, acted, lost, twice >>
      /\ restarts' \in 0..MaxRestarts
    BY BoundsAssumption DEF StartProcess, StopPod, history, Types, CountTypes
<1>2. MarksOK(NewProcess.marks) /\ NewProcess.spent = {}
    BY DEF NewProcess, MarksOK
<1>3. ASSUME NEW p \in Pods PROVE pod'[p] = NewProcess \/ pod'[p] = pod[p]
    BY <1>1 DEF IInv, Shape
<1>4. PodTypes'
    BY <1>1, <1>2, <1>3 DEF Types, PodTypes
<1>5. AlertTypes' /\ CountTypes'
    BY <1>1 DEF Types, AlertTypes, GroupTypes, CountTypes
<1>6. TaskTypes'
    BY <1>1 DEF Abandoned, Types, TaskTypes
<1> QED
    BY <1>4, <1>5, <1>6 DEF Types

(* A mark is set for the event of a notification, whose first alert began  *)
(* in some evaluation, and for a cooldown of whole units.                  *)
LEMMA MarkTypes ==
    ASSUME NEW marks, MarksOK(marks), NEW id \in Ids, NEW r \in RuleIndexes
    PROVE  MarksOK(Mark(marks, << id, r >>))
<1> DEFINE k == << id, r >>
<1>1. k \in Ids \X RuleIndexes /\ k[2] = r
    OBVIOUS
<1>2. Rules[r].cooldown \div 300 \in 0..Rules[r].cooldown \div 300
    BY RuleTable
<1> HIDE DEF k
<1>3. MarksOK(Mark(marks, k))
    BY <1>1, <1>2 DEF MarksOK, Mark
<1> QED
    BY <1>3 DEF k

(* The event of a goroutine is of an alert that was raised.                *)
LEMMA AcceptTypes ==
    ASSUME IInv, Types, NEW g \in Groups, wire[g] # None, NEW q \in Pods,
           handleWebhook(q, g, wire[g])
    PROVE  TaskTypes'
<1> DEFINE id == eventID(g, wire[g])
<1>1. CASE UNCHANGED tasks
    BY <1>1 DEF Types, TaskTypes
<1>2. CASE ~UNCHANGED tasks
    <2>1. StatusOf(wire[g]) = "firing"
        BY <1>2 DEF handleWebhook, StatusOf
    <2>2. PICK i \in Goroutines, burn \in BurnLevels :
              tasks' = [tasks EXCEPT ![i] =
                          [pod |-> q, id |-> id, rule |-> Match(g[1], burn),
                           stage |-> "check", late |-> FALSE]]
        BY <1>2 DEF handleWebhook
    <2>3. First(wire[g]) \in DOMAIN wire[g]
        <3>1. DOMAIN wire[g] # {}
            BY <2>1 DEF StatusOf
        <3>2. DOMAIN wire[g] \subseteq Alerts
            BY DEF IInv, GroupInv, SentOf, Holding
        <3> QED
            BY <3>1, <3>2, FirstIsOne
    <2>4. wire[g][First(wire[g])].starts \in 1..MaxRaises
        BY <2>3 DEF Types, AlertTypes, GroupTypes, HeldAlerts
    <2>5. id \in Ids
        BY <2>4 DEF eventID, Ids
    <2>6. Match(g[1], burn) \in RuleIndexes \cup {NoRule}
        BY MatchFound
    <2> DEFINE task == [pod |-> q, id |-> id, rule |-> Match(g[1], burn),
                        stage |-> "check", late |-> FALSE]
    <2>7. task \in Tasks /\ task.stage # "mark"
        BY <2>5, <2>6 DEF Tasks
    <2> HIDE DEF task
    <2>8. tasks' = [tasks EXCEPT ![i] = task]
        BY <2>2 DEF task
    <2> QED
        BY <2>7, <2>8 DEF Types, TaskTypes
<1> QED
    BY <1>1, <1>2

LEMMA UnansweredTypes == ASSUME IInv, Types, NEW g \in Groups, Unanswered(g) PROVE Types'
<1>1. TaskTypes'
    BY AcceptTypes DEF Unanswered, IInv, Shape
<1> QED
    BY <1>1 DEF Unanswered, Types, AlertTypes, GroupTypes, PodTypes, CountTypes

LEMMA AnsweredTypes == ASSUME IInv, Types, NEW g \in Groups, Answered(g) PROVE Types'
<1> DEFINE n == wire[g]
           firing == {a \in DOMAIN n : n[a].firing}
           resolved == DOMAIN n \ firing
<1>1. TaskTypes'
    BY AcceptTypes DEF Answered, IInv, Shape
<1>2. /\ wire' = [wire EXCEPT ![g] = None]
      /\ nflog' = [nflog EXCEPT ![g] =
                     IF firing = {} THEN None
                     ELSE [firing |-> firing, resolved |-> resolved, age |-> 0]]
      /\ Drop({a \in resolved : held[a] = n[a]})
    BY DEF Answered, Acknowledge
<1>3. held' \in [Alerts -> HeldAlerts \cup {None}]
    BY <1>2, DropTypes DEF Types
<1>4. firing \in SUBSET Alerts /\ resolved \in SUBSET Alerts
    BY DEF IInv, GroupInv, SentOf, Holding, Answered
<1>5. [firing |-> firing, resolved |-> resolved, age |-> 0] \in LogEntries
    BY <1>4, BoundsAssumption DEF LogEntries
<1> HIDE DEF firing, resolved
<1>6. ASSUME NEW h \in Groups PROVE GroupTypes(h)'
    <2>1. CASE h = g
        BY <1>2, <1>5, <2>1 DEF IInv, Shape, GroupTypes
    <2>2. CASE h # g
        BY <1>2, <2>2 DEF IInv, Shape, Types, AlertTypes, GroupTypes
    <2> QED
        BY <2>1, <2>2
<1> QED
    BY <1>1, <1>3, <1>6 DEF Answered, history, Types, AlertTypes, PodTypes, CountTypes

LEMMA CheckTypes == ASSUME IInv, Types, NEW i \in Goroutines, Check(i) PROVE Types'
<1> DEFINE t == tasks[i]
<1>1. t \in Tasks
    BY DEF Check, Types, TaskTypes
<1>2. PICK verdict \in Verdicts, cooling \in InCooldown(pod[t.pod], << t.id, t.rule >>) :
          /\ decided' = IF cooling THEN decided ELSE decided \cup {t.id[1]}
          /\ tasks' = [tasks EXCEPT ![i] = IF cooling \/ Refused(t.rule, verdict) THEN None
                                            ELSE [t EXCEPT !.stage = "mark"]]
          /\ twice' = (twice \/ (~cooling /\ ~t.late
                                    /\ << t.id[1], t.rule >> \in pod[t.pod].spent))
    BY DEF Check
<1>3. t.id[1] \in Groups /\ cooling \in BOOLEAN /\ twice' \in BOOLEAN
    BY <1>1, <1>2 DEF Tasks, Ids, InCooldown
<1>4. ~Refused(t.rule, verdict) => t.rule \in RuleIndexes
    BY <1>1 DEF Tasks, Refused
<1>5. /\ [t EXCEPT !.stage = "mark"] \in Tasks
      /\ [t EXCEPT !.stage = "mark"].rule = t.rule
    BY <1>1 DEF Tasks
<1>6. TaskTypes'
    <2>1. CASE cooling \/ Refused(t.rule, verdict)
        BY <1>2, <2>1 DEF Types, TaskTypes
    <2>2. CASE ~(cooling \/ Refused(t.rule, verdict))
        BY <1>2, <1>4, <1>5, <2>2 DEF Types, TaskTypes
    <2> QED
        BY <2>1, <2>2
<1> QED
    BY <1>2, <1>3, <1>6 DEF Check, Types, AlertTypes, GroupTypes, PodTypes, CountTypes

LEMMA MarkAndActTypes == ASSUME IInv, Types, NEW i \in Goroutines, MarkAndAct(i) PROVE Types'
<1> DEFINE t == tasks[i]
           q == t.pod
           r == t.rule
           spending == IF t.late THEN {} ELSE {<< t.id[1], r >>}
<1>1. t \in Tasks /\ q \in Pods /\ r \in RuleIndexes /\ t.id \in Ids /\ t.id[1] \in Groups
    BY DEF MarkAndAct, Types, TaskTypes, Tasks, Ids
<1>2. /\ \A p \in Pods : p # q => pod'[p] = pod[p]
      /\ pod'[q].marks = Mark(pod[q].marks, << t.id, r >>)
      /\ pod'[q].spent = pod[q].spent \cup spending
      /\ acted' = acted \cup spending
      /\ twice' \in BOOLEAN
    BY <1>1 DEF MarkAndAct, IInv, Shape
<1>3. spending \subseteq Groups \X RuleIndexes
    BY <1>1
<1>4. MarksOK(pod'[q].marks)
    BY <1>1, <1>2, MarkTypes DEF Types, PodTypes
<1>5. TaskTypes'
    BY DEF MarkAndAct, Types, TaskTypes
<1> HIDE DEF q, spending
<1>6. PodTypes'
    <2>1. ASSUME NEW p \in Pods PROVE MarksOK(pod'[p].marks) /\ pod'[p].spent \subseteq acted'
        BY <1>1, <1>2, <1>4 DEF Types, PodTypes
    <2> QED
        BY <1>2, <1>3, <2>1 DEF Types, PodTypes
<1> QED
    BY <1>5, <1>6 DEF MarkAndAct, Types, AlertTypes, GroupTypes, CountTypes

LEMMA TypesStep == IInv /\ Types /\ [Next]_vars => Types'
<1> SUFFICES ASSUME IInv, Types, [Next]_vars PROVE Types'
    OBVIOUS
<1>1. CASE Next
    BY <1>1, PrometheusTypes, FlushTypes, AnsweredTypes, UnansweredTypes, CheckTypes,
       MarkAndActTypes, TickTypes, ReplacedTypes DEF Next
<1>2. CASE UNCHANGED vars
    BY <1>2 DEF vars, history, Types, AlertTypes, GroupTypes, PodTypes, TaskTypes, CountTypes
<1> QED
    BY <1>1, <1>2

LEMMA Invariant == Spec => [](IInv /\ Types)
<1>1. Init => IInv /\ Types
    BY InvInit, TypesInit
<1>2. IInv /\ Types /\ [Next]_vars => (IInv /\ Types)'
    BY InvStep, TypesStep
<1> QED
    BY <1>1, <1>2, PTL DEF Spec

(* A process that has marked a rule for a group of alerts does not take it *)
(* again for that group before the group_interval is over, unless the      *)
(* goroutine of the second event passed the cooldown before the mark; and  *)
(* all processes together take it once, if no reply was lost: the repeated *)
(* notifications of triage.go's events never make the remediator act in    *)
(* quick succession otherwise, a rolling update included.  What goroutines *)
(* still do for events of the interval before is not counted.              *)
THEOREM ActsOncePerInterval == Spec => []OncePerInterval
<1>1. IInv => OncePerInterval
    BY DEF IInv, OncePerInterval
<1> QED
    BY <1>1, Invariant, PTL

(* Type correctness, for any alerts, paths, pods and intervals: in         *)
(* particular the event that Triage names after the first alert of a       *)
(* notification is always one of an alert that was raised.                 *)
THEOREM FlowTypeCorrect == Spec => []TypeOK
BY Invariant, TypeParts, PTL
=============================================================================
