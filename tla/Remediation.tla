----------------------------- MODULE Remediation -----------------------------
(***************************************************************************)
(* What the remediator promises about its actions (remediator/internal:    *)
(* handler, remediate): a notification that fires is decided on once, from *)
(* its own burn rate, the answer the LLM gave to it and the actions this   *)
(* process has taken before; an action follows every decision that         *)
(* warrants one, unless the process ends, and no other decision.           *)
(*                                                                         *)
(* There is no event store here, no shared log and no map of cooldowns.    *)
(* Remediator, which has them, is shown to implement this module: whatever *)
(* its goroutines make of the store never reaches an action.               *)
(***************************************************************************)
EXTENDS RemediateRules

CONSTANTS
    Deliveries,     \* notifications, each served once
    BurnLevels,     \* burn rates Prometheus may give
    Verdicts,       \* answers the LLM may give
    DryRun          \* DRY_RUN

VARIABLES
    request,    \* the body of each notification
    stage,      \* how far it is
    rate,       \* its burn rate
    answer,     \* the answer of the LLM to it
    marks,      \* the actions of this process: what for, by which rule, when
    clock

remediation == << request, stage, rate, answer, marks, clock >>

Pending == {"open", "answered", "due", "acting"}
Stages == {"sent", "refused", "settled", "lost"} \cup Pending

Incident(d) == << request[d].group, request[d].startsAt >>
Rule(d) == Match(request[d].alertName, rate[d])
Firing(d) == request[d].status = "firing"

Init ==
    /\ stage = [d \in Deliveries |-> "sent"]
    /\ rate = [d \in Deliveries |-> 0]
    /\ answer = [d \in Deliveries |-> NoResult]
    /\ marks = {}
    /\ clock = 0

Moves(d, from, to) == stage[d] = from /\ stage' = [stage EXCEPT ![d] = to]

Refuse(d) ==
    /\ Moves(d, "sent", "refused")
    /\ UNCHANGED << request, rate, answer, marks, clock >>

Open(d) ==
    /\ Moves(d, "sent", "open")
    /\ \E b \in BurnLevels : rate' = [rate EXCEPT ![d] = b]
    /\ UNCHANGED << request, answer, marks, clock >>

(* A resolved notification asks for no decision.                           *)
Close(d) ==
    /\ ~Firing(d) /\ Moves(d, "open", "settled")
    /\ UNCHANGED << request, rate, answer, marks, clock >>

Answer(d) ==
    /\ Firing(d) /\ Moves(d, "open", "answered")
    /\ \E v \in Verdicts : answer' = [answer EXCEPT ![d] = v]
    /\ UNCHANGED << request, rate, marks, clock >>

(* The rule has acted on the incident less than its cooldown ago.          *)
ActedLately(incident, r) ==
    \E m \in marks :
        /\ m.incident = incident /\ m.rule = r
        /\ clock - m.at < Rules[r].cooldown

(* An action is taken when a rule matches that has not acted lately, and a *)
(* dangerous one only with the consent of the LLM.                         *)
Warranted(d) ==
    /\ ~request[d].chaos
    /\ Rule(d) # NoRule
    /\ ~ActedLately(Incident(d), Rule(d))
    /\ Rules[Rule(d)].dangerous => ConfirmsRollback(answer[d]) /\ ~DryRun

Decide(d) ==
    /\ Moves(d, "answered", IF Warranted(d) THEN "due" ELSE "settled")
    /\ UNCHANGED << request, rate, answer, marks, clock >>

(* The action begins.  Another may have begun since the decision.          *)
Take(d) ==
    /\ Moves(d, "due", "acting")
    /\ marks' = marks \cup {[incident |-> Incident(d), rule |-> Rule(d), at |-> clock]}
    /\ UNCHANGED << request, rate, answer, clock >>

Finish(d) ==
    /\ Moves(d, "acting", "settled")
    /\ UNCHANGED << request, rate, answer, marks, clock >>

(* The process ends: what was pending is lost, and so is the memory of its *)
(* actions, and perhaps what a settled notification still had to note.     *)
Crash ==
    /\ stage' \in [Deliveries -> Stages]
    /\ \A d \in Deliveries :
          CASE stage[d] \in Pending -> stage'[d] = "lost"
            [] stage[d] = "settled" -> stage'[d] \in {"settled", "lost"}
            [] OTHER -> stage'[d] = stage[d]
    /\ marks' = {}
    /\ UNCHANGED << request, rate, answer, clock >>

Pass ==
    /\ clock' \in Nat /\ clock < clock'
    /\ UNCHANGED << request, stage, rate, answer, marks >>

Next ==
    \/ \E d \in Deliveries :
          \/ Refuse(d) \/ Open(d) \/ Close(d) \/ Answer(d)
          \/ Decide(d) \/ Take(d) \/ Finish(d)
    \/ Crash \/ Pass

Spec == Init /\ [][Next]_remediation
=============================================================================
