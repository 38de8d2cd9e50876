---------------------- MODULE RemediatorDecisionProofs ----------------------
(***************************************************************************)
(* Proofs about the decisions of Remediator, for any number of deliveries. *)
(*                                                                         *)
(* First, a decision that no other delivery of its event overlapped stays  *)
(* in the event, although later deliveries copy slice headers without a    *)
(* lock and append into shared arrays, until an access goes behind an      *)
(* array.  The log entry of such a delivery d lies in cell Position(d) of  *)
(* its array.  Whoever inherits a header from the stored event keeps that  *)
(* cell within its length, and appends beyond.  So the logs that later     *)
(* deliveries inherit and draft postmortems from list the decision.        *)
(*                                                                         *)
(* Then, an event that was replaced comes back only through a delivery     *)
(* that was still at work on it.                                           *)
(*                                                                         *)
(* Last, the decisions are those that Remediation promises, in which there *)
(* is no store and no log: the map of cooldowns, which keeps the last mark *)
(* of a rule and event only, forbids what the memory of every mark would.  *)
(***************************************************************************)
EXTENDS RemediatorProofs

Position(d) == event[d].rem.len

(* The cell of d's entry, within the length of header s.                   *)
HeaderHolds(s, d) ==
    /\ s.arr \in Deliveries
    /\ Position(d) \in 1..s.len
    /\ Position(d) <= Len(heap[s.arr])
    /\ heap[s.arr][Position(d)] = d

(* x has inherited d's entry.  While x's append can be read with words of  *)
(* different moments, one cell less must do.                               *)
Holds(x, d) ==
    /\ HeaderHolds(event[x].rem, d)
    /\ pc[x] = "save" /\ x # d => Position(d) < event[x].rem.len

Peers(x, d) == x # d /\ IdOf(x) = IdOf(d)
Undisturbed(d) == hist[d].overlaps = {}

(* x works on d's event, or had its Triage after d was settled.            *)
Heir(x, d) ==
    /\ IdOf(x) = IdOf(d)
    /\ pc[x] \in Writing \/ (d \in hist[x].before /\ hist[x].life = restarts)

(* Nobody overlaps an undisturbed delivery that is at work.                *)
Alone ==
    \A d, x \in Deliveries :
        pc[d] \in Writing /\ Undisturbed(d) /\ Peers(x, d) => pc[x] \notin Writing

OnlyResolved == \A d \in Deliveries : pc[d] = "rca" => Resolved(d)

(* What was settled when a delivery had its Triage is settled still.       *)
SettledBefore ==
    \A x \in Deliveries :
        /\ pc[x] \in {"wire", "get"} => hist[x].before = {}
        /\ hist[x].life = restarts =>
              \A d \in hist[x].before : SettledAlone(d) /\ IdOf(d) = IdOf(x)

OwnCell ==
    \A d \in Deliveries :
        pc[d] = "save" /\ Undisturbed(d) => HeaderHolds(event[d].rem, d)

Inherited ==
    \A d \in Deliveries :
        SettledAlone(d) =>
            /\ store[IdOf(d)] \in Deliveries
            /\ Holds(store[IdOf(d)], d)
            /\ \A x \in Deliveries : Heir(x, d) => Holds(x, d)

SInv == Alone /\ OnlyResolved /\ SettledBefore /\ (~Stray => OwnCell /\ Inherited)

-----------------------------------------------------------------------------
LEMMA SerialInit == Init => SInv
<1> SUFFICES ASSUME Init PROVE SInv
  OBVIOUS
<1>1. \A d \in Deliveries : pc[d] = "wire" /\ hist[d].before = {}
  BY DEF Init
<1> QED
  BY <1>1 DEF SInv, Alone, OnlyResolved, SettledBefore, OwnCell, Inherited, SettledAlone, Writing

(* A step of c that leaves arrays and headers alone, and does not begin    *)
(* c's work on its event.                                                  *)
LEMMA QuietStep ==
    ASSUME IInv, SInv, NEW c \in Deliveries, Stray => Stray',
           UNCHANGED << req, heap, restarts >>,
           \A e \in Deliveries : event'[e].rem = event[e].rem,
           \A e \in Deliveries : /\ hist'[e].overlaps = hist[e].overlaps
                                 /\ hist'[e].before = hist[e].before
                                 /\ pc[e] # "wire" => hist'[e].life = hist[e].life,
           \A e \in Deliveries \ {c} : pc'[e] = pc[e],
           pc'[c] \in {"wire", "get"} => pc[c] \in {"wire", "get"},
           pc'[c] \in Writing => pc[c] \in Writing,
           pc'[c] = "save" => pc[c] = "save",
           pc'[c] = "rca" => Resolved(c),
           pc[c] = "done" => pc'[c] = "done",
           store' = store \/ (Upsert(c) /\ pc[c] \in Writing),
           pc'[c] = "done" =>
               pc[c] = "done" \/ Resolved(c) \/ (pc[c] = "save" /\ Upsert(c))
    PROVE  SInv'
<1>1. \A e \in Deliveries : /\ IdOf(e)' = IdOf(e) /\ Resolved(e)' = Resolved(e)
                            /\ Position(e)' = Position(e)
                            /\ Undisturbed(e)' = Undisturbed(e)
  BY DEF IdOf, Resolved, Position, Undisturbed
<1>2. \A d, x \in Deliveries :
         /\ HeaderHolds(event[x].rem, d) => HeaderHolds(event[x].rem, d)'
         /\ Holds(x, d) => Holds(x, d)'
  BY <1>1 DEF HeaderHolds, Holds
<1>3. Alone' /\ OnlyResolved'
  BY <1>1 DEF SInv, Alone, OnlyResolved, Peers
<1>4. \A d \in Deliveries : SettledAlone(d) => SettledAlone(d)'
  BY <1>1 DEF SettledAlone
<1>5. \A x \in Deliveries : hist'[x].life = restarts' /\ hist'[x].before # {} =>
                               hist[x].life = restarts
  BY DEF SInv, SettledBefore
<1>6. \A x \in Deliveries : hist[x].before \subseteq Deliveries
  BY DEF IInv, TypeOK, Histories
<1>7. SettledBefore'
  <2> SUFFICES ASSUME NEW x \in Deliveries
               PROVE  /\ pc'[x] \in {"wire", "get"} => hist'[x].before = {}
                      /\ hist'[x].life = restarts' =>
                            \A d \in hist'[x].before : SettledAlone(d)' /\ IdOf(d)' = IdOf(x)'
    BY DEF SettledBefore
  <2>1. pc'[x] \in {"wire", "get"} => hist'[x].before = {}
    BY DEF SInv, SettledBefore
  <2>2. ASSUME hist'[x].life = restarts', NEW d \in hist'[x].before
        PROVE  SettledAlone(d)' /\ IdOf(d)' = IdOf(x)'
    <3>1. SettledAlone(d) /\ IdOf(d) = IdOf(x) /\ d \in Deliveries
      BY <1>5, <1>6, <2>2 DEF SInv, SettledBefore
    <3> QED  BY <1>1, <1>4, <3>1
  <2> QED  BY <2>1, <2>2
<1>8. ASSUME ~Stray' PROVE OwnCell'
  BY <1>1, <1>2, <1>8 DEF SInv, OwnCell
<1>9. ASSUME ~Stray', NEW d \in Deliveries, SettledAlone(d)'
      PROVE  /\ store'[IdOf(d)'] \in Deliveries
             /\ Holds(store[IdOf(d)], d)'
             /\ \A x \in Deliveries : Heir(x, d)' => Holds(x, d)'
  <2>1. IdOf(d) \in Ids /\ ~Stray
    BY <1>9, IdsOfDeliveries DEF IInv
  <2>2. Upsert(c) => store'[IdOf(c)] = c /\ \A id \in Ids : id # IdOf(c) => store'[id] = store[id]
    BY IdsOfDeliveries DEF Upsert, IInv, TypeOK
  <2>3. CASE SettledAlone(d)
    <3>1. /\ store[IdOf(d)] \in Deliveries /\ Holds(store[IdOf(d)], d)
          /\ \A x \in Deliveries : Heir(x, d) => Holds(x, d)
      BY <2>1, <2>3 DEF SInv, Inherited
    <3>2. store'[IdOf(d)] = store[IdOf(d)] \/ (store'[IdOf(d)] = c /\ IdOf(c) = IdOf(d) /\ pc[c] \in Writing)
      BY <2>1, <2>2
    <3>3. store'[IdOf(d)] \in Deliveries /\ Holds(store'[IdOf(d)], d)
      BY <3>1, <3>2 DEF Heir
    <3>4. \A x \in Deliveries : Heir(x, d)' => Heir(x, d)
      <4> SUFFICES ASSUME NEW x \in Deliveries, Heir(x, d)' PROVE Heir(x, d)
        OBVIOUS
      <4>1. IdOf(x) = IdOf(d)
        BY <1>1 DEF Heir
      <4>2. CASE pc'[x] \in Writing
        BY <4>1, <4>2 DEF Heir
      <4>3. CASE d \in hist'[x].before /\ hist'[x].life = restarts'
        BY <1>5, <4>1, <4>3 DEF Heir
      <4> QED  BY <4>2, <4>3 DEF Heir
    <3>5. PICK y \in Deliveries : y = store'[IdOf(d)] /\ Holds(y, d)
      BY <3>3
    <3>6. Holds(y, d)'
      BY <1>2, <3>5
    <3>7. Holds(store[IdOf(d)], d)'
      BY <1>1, <3>5, <3>6 DEF Holds, HeaderHolds, Position
    <3> QED  BY <1>1, <1>2, <3>1, <3>4, <3>5, <3>7
  <2>4. CASE ~SettledAlone(d)
    <3>1. d = c /\ pc[c] = "save" /\ Upsert(c) /\ Undisturbed(c)
      <4>1. pc'[d] = "done" /\ ~Resolved(d) /\ Undisturbed(d) /\ hist'[d].life = restarts
        BY <1>1, <1>9 DEF SettledAlone, Undisturbed
      <4>2. CASE d # c
        <5>1. pc[d] = "done" /\ hist[d].life = restarts
          BY <4>1, <4>2
        <5> QED  BY <2>4, <4>1, <5>1 DEF SettledAlone, Undisturbed
      <4>3. CASE d = c /\ pc[c] = "done"
        <5>1. hist[d].life = restarts
          BY <4>1, <4>3
        <5> QED  BY <2>4, <4>1, <4>3, <5>1 DEF SettledAlone, Undisturbed
      <4> QED  BY <4>1, <4>2, <4>3
    <3>2. Holds(c, c)
      BY <2>1, <3>1 DEF SInv, OwnCell, Holds
    <3>3. pc'[c] = "done"
      BY <1>9, <3>1 DEF SettledAlone
    <3>4. store'[IdOf(d)] = c
      BY <2>2, <3>1
    <3>5. ASSUME NEW x \in Deliveries, Heir(x, d)' PROVE FALSE
      <4>1. IdOf(x) = IdOf(d)
        BY <1>1, <3>5 DEF Heir
      <4>2. CASE pc'[x] \in Writing
        BY <3>1, <3>3, <4>1, <4>2 DEF SInv, Alone, Peers, Writing
      <4>3. CASE d \in hist'[x].before /\ hist'[x].life = restarts'
        <5>1. SettledAlone(d)
          BY <1>5, <4>3 DEF SInv, SettledBefore
        <5> QED  BY <2>4, <5>1
      <4> QED  BY <3>5, <4>2, <4>3 DEF Heir
    <3> QED  BY <1>1, <1>2, <3>1, <3>2, <3>4, <3>5
  <2> QED  BY <2>3, <2>4
<1> QED  BY <1>3, <1>7, <1>8, <1>9 DEF SInv, Inherited

-----------------------------------------------------------------------------
(* Triage inherits.                                                        *)

(* Whatever is read of the header of x, d's cell is within it.             *)
LEMMA ReadsHold ==
    ASSUME IInv, NEW d \in Deliveries, NEW x \in Deliveries, Holds(x, d), pc[d] = "done",
           NEW s \in HeaderReads(x)
    PROVE  HeaderHolds(s, d)
<1> DEFINE h == event[x].rem
<1>1. h.len \in Nat
  BY HeaderType DEF IInv
<1>2. /\ s.arr = h.arr
      /\ \/ s.len = h.len \/ s.len = h.len + 1
         \/ pc[x] = "save" /\ s.len = h.len - 1
  BY ReadsOf DEF IInv
<1>3. pc[x] = "save" => x # d
  OBVIOUS
<1>4. Position(d) \in 1..h.len /\ (pc[x] = "save" => Position(d) < h.len)
  BY <1>3 DEF Holds, HeaderHolds
<1>5. Position(d) \in 1..s.len
  BY <1>1, <1>2, <1>4
<1> QED  BY <1>2, <1>5 DEF Holds, HeaderHolds

(* Who was found to overlap.                                               *)
LEMMA TriageOverlaps ==
    ASSUME TypeOK, NEW c \in Deliveries, TriageGet(c),
           NEW others, others = {e \in Deliveries \ {c} : IdOf(e) = IdOf(c) /\ pc[e] \in Writing}
    PROVE  \A e \in Deliveries :
              hist'[e].overlaps = IF e = c THEN others
                                  ELSE IF e \in others THEN hist[e].overlaps \cup {c}
                                  ELSE hist[e].overlaps
<1> DEFINE over(e) == CASE e = c -> others
                        [] e \in others -> hist[e].overlaps \cup {c}
                        [] OTHER -> hist[e].overlaps
           from(e) == IF e = c THEN Existing(c) ELSE hist[e].from
           before(e) == IF e = c
                        THEN {b \in Deliveries : IdOf(b) = IdOf(c) /\ SettledAlone(b)}
                        ELSE hist[e].before
<1>1. hist' = [e \in Deliveries |-> [hist[e] EXCEPT !.from = from(e), !.before = before(e),
                                                    !.overlaps = over(e)]]
  BY DEF TriageGet, TypeOK, Histories
<1>2. \A e \in Deliveries : over(e) = IF e = c THEN others
                                      ELSE IF e \in others THEN hist[e].overlaps \cup {c}
                                      ELSE hist[e].overlaps
  OBVIOUS
<1> HIDE DEF over, from, before
<1>3. TAKE e \in Deliveries
<1>4. /\ hist[e] \in Histories
      /\ hist'[e] = [hist[e] EXCEPT !.from = from(e), !.before = before(e), !.overlaps = over(e)]
  BY <1>1 DEF TypeOK
<1>5. hist'[e].overlaps = over(e)
  BY <1>4 DEF Histories
<1> QED  BY <1>2, <1>5

LEMMA TriageDisturbs ==
    ASSUME TypeOK, NEW c \in Deliveries, TriageGet(c)
    PROVE  /\ \A d \in Deliveries : Undisturbed(d)' => d = c \/ Undisturbed(d)
           /\ \A d \in Deliveries : Peers(c, d) /\ pc[d] \in Writing => ~Undisturbed(d)'
           /\ Undisturbed(c)' => \A x \in Deliveries : Peers(x, c) => pc[x] \notin Writing
           /\ \A d \in Deliveries \ {c} : pc[d] \notin Writing =>
                                             hist'[d].overlaps = hist[d].overlaps
<1>1. PICK others :
          others = {e \in Deliveries \ {c} : IdOf(e) = IdOf(c) /\ pc[e] \in Writing}
  OBVIOUS
<1>2. \A e \in Deliveries :
         hist'[e].overlaps = IF e = c THEN others
                             ELSE IF e \in others THEN hist[e].overlaps \cup {c}
                             ELSE hist[e].overlaps
  BY <1>1, TriageOverlaps
<1> QED  BY <1>1, <1>2 DEF Undisturbed, Peers

LEMMA TriageGetStep == ASSUME IInv, SInv, NEW c \in Deliveries, TriageGet(c) PROVE SInv'
<1>1. /\ pc[c] = "get" /\ pc' = [pc EXCEPT ![c] = "put"]
      /\ UNCHANGED << req, heap, store, restarts >>
  BY DEF TriageGet, GoTo
<1>2. \A e \in Deliveries : pc'[e] = IF e = c THEN "put" ELSE pc[e]
  BY <1>1 DEF IInv, TypeOK
<1>3. /\ \A d \in Deliveries : Undisturbed(d)' => d = c \/ Undisturbed(d)
      /\ \A d \in Deliveries : Peers(c, d) /\ pc[d] \in Writing => ~Undisturbed(d)'
      /\ Undisturbed(c)' => \A x \in Deliveries : Peers(x, c) => pc[x] \notin Writing
      /\ \A d \in Deliveries \ {c} : pc[d] \notin Writing => hist'[d].overlaps = hist[d].overlaps
  BY TriageDisturbs DEF IInv
<1>4. \A e \in Deliveries : IdOf(e)' = IdOf(e) /\ Resolved(e)' = Resolved(e)
  BY <1>1 DEF IdOf, Resolved
<1>5. \A e \in Deliveries : e # c => event'[e].rem = event[e].rem
  BY DEF TriageGet, IInv, TypeOK
<1>6. \A e \in Deliveries :
         /\ hist'[e].life = hist[e].life /\ hist'[e].stray = hist[e].stray
         /\ hist'[e].before = IF e = c
                              THEN {b \in Deliveries : IdOf(b) = IdOf(c) /\ SettledAlone(b)}
                              ELSE hist[e].before
  BY TriageGetHistory DEF IInv
<1>7. Alone'
  <2> SUFFICES ASSUME NEW d \in Deliveries, NEW x \in Deliveries,
                      pc'[d] \in Writing, Undisturbed(d)', Peers(x, d)
               PROVE  pc'[x] \notin Writing
    BY <1>4 DEF Alone, Peers
  <2>1. CASE d = c
    BY <1>2, <1>3, <2>1 DEF Peers
  <2>2. CASE d # c
    BY <1>2, <1>3, <2>2 DEF SInv, Alone
  <2> QED  BY <2>1, <2>2
<1>8. OnlyResolved'
  BY <1>2, <1>4 DEF SInv, OnlyResolved
<1>9. \A d \in Deliveries : SettledAlone(d)' <=> SettledAlone(d)
  <2> TAKE d \in Deliveries
  <2>1. pc'[d] = "done" <=> pc[d] = "done"
    BY <1>1, <1>2
  <2>2. pc[d] = "done" => hist'[d].overlaps = hist[d].overlaps
    BY <1>1, <1>3 DEF Writing
  <2> QED  BY <1>1, <1>4, <1>6, <2>1, <2>2 DEF SettledAlone
<1>10. SettledBefore'
  <2> SUFFICES ASSUME NEW x \in Deliveries
               PROVE  /\ pc'[x] \in {"wire", "get"} => hist'[x].before = {}
                      /\ hist'[x].life = restarts' =>
                            \A d \in hist'[x].before : SettledAlone(d)' /\ IdOf(d)' = IdOf(x)'
    BY DEF SettledBefore
  <2>1. hist[x].before \subseteq Deliveries
    BY DEF IInv, TypeOK, Histories
  <2>2. CASE x = c
    <3>1. hist'[x].before = {b \in Deliveries : IdOf(b) = IdOf(c) /\ SettledAlone(b)}
      BY <1>6, <2>2
    <3> QED  BY <1>2, <1>4, <1>9, <2>2, <3>1
  <2>3. CASE x # c
    <3>1. /\ hist'[x].before = hist[x].before /\ hist'[x].life = hist[x].life
          /\ pc'[x] = pc[x] /\ restarts' = restarts
      BY <1>1, <1>2, <1>6, <2>3
    <3>2. hist[x].life = restarts =>
             \A d \in hist[x].before : d \in Deliveries /\ SettledAlone(d) /\ IdOf(d) = IdOf(x)
      BY <2>1 DEF SInv, SettledBefore
    <3>3. pc[x] \in {"wire", "get"} => hist[x].before = {}
      BY DEF SInv, SettledBefore
    <3> QED  BY <1>4, <1>9, <3>1, <3>2, <3>3
  <2> QED  BY <2>2, <2>3
<1>11. ASSUME ~Stray' PROVE OwnCell' /\ Inherited'
  <2>1. ~Stray
    BY <1>6, <1>11 DEF Stray
  <2>2. OwnCell'
    <3> SUFFICES ASSUME NEW d \in Deliveries, pc'[d] = "save", Undisturbed(d)'
                 PROVE  HeaderHolds(event[d].rem, d)'
      BY DEF OwnCell
    <3>1. d # c /\ Undisturbed(d) /\ pc[d] = "save"
      BY <1>2, <1>3
    <3> QED  BY <1>1, <1>5, <2>1, <3>1 DEF SInv, OwnCell, HeaderHolds, Position
  <2>3. ASSUME NEW d \in Deliveries, SettledAlone(d)'
        PROVE  /\ store'[IdOf(d)'] \in Deliveries
               /\ Holds(store[IdOf(d)], d)'
               /\ \A x \in Deliveries : Heir(x, d)' => Holds(x, d)'
    <3>1. d # c /\ pc[d] = "done" /\ SettledAlone(d)
      BY <1>1, <1>9, <2>3 DEF SettledAlone
    <3>2. /\ store[IdOf(d)] \in Deliveries /\ Holds(store[IdOf(d)], d)
          /\ \A x \in Deliveries : Heir(x, d) => Holds(x, d)
      BY <2>1, <3>1 DEF SInv, Inherited
    <3>3. \A x \in Deliveries : x # c /\ Holds(x, d) => Holds(x, d)'
      BY <1>1, <1>2, <1>5, <3>1 DEF Holds, HeaderHolds, Position
    <3>4. IdOf(c) = IdOf(d) => Holds(c, d)'
      <4> SUFFICES ASSUME IdOf(c) = IdOf(d) PROVE Holds(c, d)'
        OBVIOUS
      <4>1. Existing(c) = store[IdOf(d)] /\ Existing(c) # None
        BY <3>2, DeliveriesAssumption DEF Existing
      <4>2. PICK s \in HeaderReads(store[IdOf(d)]) :
                event' = [event EXCEPT ![c].llm = event[Existing(c)].llm, ![c].rem = s]
        BY <4>1 DEF TriageGet
      <4>3. event'[c].rem = s
        BY <4>2 DEF IInv, TypeOK, Events
      <4>4. HeaderHolds(s, d)
        BY <3>1, <3>2, ReadsHold
      <4> QED  BY <1>1, <1>2, <1>5, <3>1, <4>3, <4>4 DEF Holds, HeaderHolds, Position
    <3>5. PICK y \in Deliveries : y = store'[IdOf(d)] /\ Holds(y, d) /\ IdOf(y) = IdOf(d)
      <4>1. IdOf(d) \in Ids
        BY IdsOfDeliveries DEF IInv
      <4> QED  BY <1>1, <3>2, <4>1, DeliveriesAssumption DEF IInv, OwnEvent, OwnPointers
    <3>6. Holds(y, d)'
      BY <3>3, <3>4, <3>5
    <3>7. Holds(store[IdOf(d)], d)'
      BY <1>4, <3>5, <3>6 DEF Holds, HeaderHolds, Position
    <3>8. ASSUME NEW x \in Deliveries, Heir(x, d)' PROVE Holds(x, d)'
      <4>1. IdOf(x) = IdOf(d)
        BY <1>4, <3>8 DEF Heir
      <4>2. x # c => Heir(x, d)
        BY <1>1, <1>2, <1>6, <3>8, <4>1 DEF Heir
      <4> QED  BY <3>2, <3>3, <3>4, <4>1, <4>2
    <3> QED  BY <1>4, <3>5, <3>7, <3>8
  <2> QED  BY <2>2, <2>3 DEF Inherited
<1> QED  BY <1>7, <1>8, <1>10, <1>11 DEF SInv

-----------------------------------------------------------------------------
(* An append goes beyond what others have inherited.                       *)

(* What c's append does to headers and arrays.                             *)
LEMMA AppendEffect ==
    ASSUME IInv, NEW c \in Deliveries, AppendLog(c), ~AppendsBehind(event[c].rem)
    PROVE  /\ Position(c) \in Nat
           /\ event'[c].rem.len = Position(c) + 1
           /\ HeaderHolds(event[c].rem, c)'
           /\ \A e \in Deliveries : e # c => event'[e].rem = event[e].rem
           /\ \A d \in Deliveries :
                  Position(d) <= Position(c) /\ d # c /\ HeaderHolds(event[c].rem, d)
                  => HeaderHolds(event[c].rem, d)'
           /\ \A e \in Deliveries : \A i \in 1..Position(c) :
                  /\ e # c /\ event[e].rem.arr \in Deliveries
                  /\ i <= Len(heap[event[e].rem.arr])
                  => /\ i <= Len(heap'[event[e].rem.arr])
                     /\ heap'[event[e].rem.arr][i] = heap[event[e].rem.arr][i]
           /\ \A e \in Deliveries :
                  e # c /\ event[e].rem.arr \in Deliveries /\ IdOf(e) # IdOf(c)
                  => heap'[event[e].rem.arr] = heap[event[e].rem.arr]
<1>1. PICK s : s = event[c].rem
  OBVIOUS
<1>2. PICK t : t = event'[c].rem.arr
  OBVIOUS
<1>3. /\ s.len \in Nat /\ s.arr \in Deliveries \cup {None}
      /\ t \in Deliveries /\ t \in {c, s.arr}
      /\ s.len <= Len(Cells(s.arr))
      /\ s.len + 1 <= Len(heap'[t])
      /\ heap'[t][s.len + 1] = c
      /\ \A i \in 1..s.len : heap'[t][i] = Cells(s.arr)[i]
      /\ t # c => Len(heap'[t]) = Len(heap[t])
      /\ \A a \in Deliveries \ {t} : heap'[a] = heap[a]
  <2> DEFINE h == event[c].rem
             a == event'[c].rem.arr
  <2>1. TypeOK
    BY DEF IInv
  <2>2. /\ h.len \in Nat /\ h.arr \in Deliveries \cup {None}
        /\ a \in Deliveries /\ a \in {c, h.arr}
        /\ h.len <= Len(Cells(h.arr))
        /\ h.len + 1 <= Len(heap'[a])
        /\ heap'[a][h.len + 1] = c
        /\ \A i \in 1..h.len : heap'[a][i] = Cells(h.arr)[i]
        /\ a # c => Len(heap'[a]) = Len(heap[a])
        /\ \A b \in Deliveries \ {a} : heap'[b] = heap[b]
    BY <2>1, AppendWithin, SMTT(60)
  <2>3. s = h /\ t = a
    BY <1>1, <1>2
  <2> HIDE DEF h, a
  <2> QED  BY <2>2, <2>3
<1>4. event'[c].rem.len = s.len + 1 /\ \A e \in Deliveries : e # c => event'[e].rem = event[e].rem
  BY <1>1, AppendTypes DEF IInv
<1>5. \A e \in Deliveries : event[e].rem.arr # c
  BY DEF AppendLog, IInv, Fresh, Early
<1>6. t # c => t = s.arr /\ Cells(s.arr) = heap[t] /\ IdOf(t) = IdOf(c)
  BY <1>1, <1>3, DeliveriesAssumption DEF Cells, IInv, OwnEvent, OwnPointers
<1>7. /\ Position(c) = s.len /\ Position(c)' = s.len + 1
      /\ \A d \in Deliveries : d # c => Position(d)' = Position(d)
  BY <1>1, <1>4 DEF Position
<1>8. Len(heap'[t]) \in Nat
  <2>1. heap'[t] \in Arrays
    BY <1>3, AppendTypes DEF IInv
  <2> QED  BY <2>1, ArrayCells
<1>9. HeaderHolds(event[c].rem, c)'
  BY <1>2, <1>3, <1>4, <1>7 DEF HeaderHolds
<1>10. ASSUME NEW d \in Deliveries, Position(d) <= s.len, d # c, HeaderHolds(s, d)
       PROVE  HeaderHolds(event[c].rem, d)'
  <2>1. Position(d) \in 1..s.len /\ s.arr \in Deliveries /\ heap[s.arr][Position(d)] = d
    BY <1>10 DEF HeaderHolds
  <2>2. heap'[t][Position(d)] = d
    BY <1>3, <2>1, DeliveriesAssumption DEF Cells
  <2>3. Position(d) \in 1..(s.len + 1) /\ Position(d) <= Len(heap'[t])
    BY <1>3, <1>8, <2>1
  <2> QED  BY <1>2, <1>3, <1>4, <1>7, <1>10, <2>2, <2>3 DEF HeaderHolds
<1>11. ASSUME NEW e \in Deliveries, NEW i \in 1..s.len, NEW a \in Deliveries,
              a = event[e].rem.arr, i <= Len(heap[a])
       PROVE  i <= Len(heap'[a]) /\ heap'[a][i] = heap[a][i]
  <2>1. CASE a = t
    BY <1>3, <1>5, <1>6, <1>11, <2>1
  <2>2. CASE a # t
    BY <1>3, <1>11, <2>2
  <2> QED  BY <2>1, <2>2
<1>12. ASSUME NEW e \in Deliveries, NEW a \in Deliveries, a = event[e].rem.arr,
              IdOf(e) # IdOf(c)
       PROVE  heap'[a] = heap[a]
  <2>1. IdOf(a) = IdOf(e)
    BY <1>12, DeliveriesAssumption DEF IInv, OwnEvent, OwnPointers
  <2>2. a # t
    BY <1>5, <1>6, <1>12, <2>1
  <2> QED  BY <1>3, <2>2
<1> QED  BY <1>1, <1>3, <1>4, <1>7, <1>9, <1>10, <1>11, <1>12

LEMMA AppendStep == ASSUME IInv, SInv, NEW c \in Deliveries, AppendLog(c) PROVE SInv'
<1> DEFINE n == Position(c)
<1>1. /\ pc[c] = "append" /\ pc' = [pc EXCEPT ![c] = "save"]
      /\ UNCHANGED << req, store, restarts >>
  BY DEF AppendLog, GoTo
<1>2. \A e \in Deliveries : pc'[e] = IF e = c THEN "save" ELSE pc[e]
  BY <1>1 DEF IInv, TypeOK
<1>3. \A e \in Deliveries : /\ hist'[e].life = hist[e].life
                            /\ hist'[e].overlaps = hist[e].overlaps
                            /\ hist'[e].before = hist[e].before
                            /\ hist[e].stray => hist'[e].stray
  BY AppendHistory DEF IInv
<1>4. \A e \in Deliveries : /\ IdOf(e)' = IdOf(e) /\ Resolved(e)' = Resolved(e)
                            /\ Undisturbed(e)' = Undisturbed(e)
                            /\ SettledAlone(e)' <=> SettledAlone(e)
  BY <1>1, <1>2, <1>3 DEF IdOf, Resolved, Undisturbed, SettledAlone
<1>5. Alone' /\ OnlyResolved'
  BY <1>1, <1>2, <1>4 DEF SInv, Alone, OnlyResolved, Peers, Writing
<1>6. SettledBefore'
  <2>1. \A x \in Deliveries : hist[x].before \subseteq Deliveries
    BY DEF IInv, TypeOK, Histories
  <2> QED  BY <1>1, <1>2, <1>3, <1>4, <2>1 DEF SInv, SettledBefore
<1>7. ASSUME ~Stray' PROVE OwnCell' /\ Inherited'
  <2>1. ~Stray /\ ~AppendsBehind(event[c].rem)
    BY <1>3, <1>7, AppendNotStray DEF Stray, IInv
  <2>2. /\ n \in Nat
        /\ event'[c].rem.len = n + 1
        /\ HeaderHolds(event[c].rem, c)'
        /\ \A e \in Deliveries : e # c => event'[e].rem = event[e].rem
        /\ \A d \in Deliveries :
               Position(d) <= n /\ d # c /\ HeaderHolds(event[c].rem, d)
               => HeaderHolds(event[c].rem, d)'
    BY <2>1, AppendEffect
  <2>3. \A e \in Deliveries : \A i \in 1..n :
            /\ e # c /\ event[e].rem.arr \in Deliveries
            /\ i <= Len(heap[event[e].rem.arr])
            => /\ i <= Len(heap'[event[e].rem.arr])
               /\ heap'[event[e].rem.arr][i] = heap[event[e].rem.arr][i]
    BY <2>1, AppendEffect
  <2>4. \A e \in Deliveries :
            e # c /\ event[e].rem.arr \in Deliveries /\ IdOf(e) # IdOf(c)
            => heap'[event[e].rem.arr] = heap[event[e].rem.arr]
    BY <2>1, AppendEffect
  <2>5. OwnCell'
    <3> SUFFICES ASSUME NEW d \in Deliveries, d # c, pc[d] = "save", Undisturbed(d)
                 PROVE  HeaderHolds(event[d].rem, d)'
      BY <1>2, <1>4, <2>2 DEF OwnCell
    <3>1. IdOf(d) # IdOf(c)
      BY <1>1 DEF SInv, Alone, Peers, Writing
    <3>2. HeaderHolds(event[d].rem, d)
      BY <2>1 DEF SInv, OwnCell
    <3> QED  BY <2>2, <2>4, <3>1, <3>2 DEF HeaderHolds, Position
  <2>6. ASSUME NEW d \in Deliveries, SettledAlone(d)'
        PROVE  /\ store'[IdOf(d)'] \in Deliveries
               /\ Holds(store[IdOf(d)], d)'
               /\ \A x \in Deliveries : Heir(x, d)' => Holds(x, d)'
    <3>1. d # c /\ SettledAlone(d) /\ Position(d)' = Position(d)
      <4>1. SettledAlone(d) /\ d # c
        BY <1>1, <1>4, <2>6 DEF SettledAlone
      <4> QED  BY <2>2, <4>1 DEF Position
    <3>2. /\ store[IdOf(d)] \in Deliveries /\ Holds(store[IdOf(d)], d)
          /\ \A x \in Deliveries : Heir(x, d) => Holds(x, d)
      BY <2>1, <3>1 DEF SInv, Inherited
    <3>3. IdOf(c) = IdOf(d) => Holds(c, d) /\ Position(d) \in 1..n
      BY <1>1, <3>2 DEF Heir, Writing, Holds, HeaderHolds, Position
    <3>4. ASSUME NEW x \in Deliveries, IdOf(x) = IdOf(d), Holds(x, d) PROVE Holds(x, d)'
      <4>1. CASE x = c
        <5>1. HeaderHolds(event[c].rem, d)'
          BY <2>2, <3>1, <3>3, <3>4, <4>1 DEF Holds
        <5> QED  BY <2>2, <3>1, <3>3, <3>4, <4>1, <5>1 DEF Holds
      <4>2. CASE x # c /\ IdOf(c) = IdOf(d)
        <5>1. HeaderHolds(event[x].rem, d) /\ event'[x].rem = event[x].rem
          BY <2>2, <3>4, <4>2 DEF Holds
        <5>2. /\ Position(d) <= Len(heap'[event[x].rem.arr])
              /\ heap'[event[x].rem.arr][Position(d)] = d
          BY <2>3, <3>3, <4>2, <5>1 DEF HeaderHolds
        <5>3. HeaderHolds(event[x].rem, d)'
          BY <3>1, <5>1, <5>2 DEF HeaderHolds
        <5> QED  BY <1>2, <3>1, <3>4, <4>2, <5>1, <5>3 DEF Holds
      <4>3. CASE x # c /\ IdOf(c) # IdOf(d)
        <5>1. HeaderHolds(event[x].rem, d) /\ event'[x].rem = event[x].rem
          BY <2>2, <3>4, <4>3 DEF Holds
        <5>2. heap'[event[x].rem.arr] = heap[event[x].rem.arr]
          BY <2>4, <3>4, <4>3, <5>1 DEF HeaderHolds
        <5>3. HeaderHolds(event[x].rem, d)'
          BY <3>1, <5>1, <5>2 DEF HeaderHolds
        <5> QED  BY <1>2, <3>1, <3>4, <4>3, <5>1, <5>3 DEF Holds
      <4> QED  BY <4>1, <4>2, <4>3
    <3>5. PICK y \in Deliveries : y = store'[IdOf(d)] /\ Holds(y, d) /\ IdOf(y) = IdOf(d)
      <4>1. IdOf(d) \in Ids
        BY IdsOfDeliveries DEF IInv
      <4> QED  BY <1>1, <3>2, <4>1, DeliveriesAssumption DEF IInv, OwnEvent, OwnPointers
    <3>6. Holds(y, d)'
      BY <3>4, <3>5
    <3>7. Holds(store[IdOf(d)], d)'
      BY <1>4, <3>5, <3>6 DEF Holds, HeaderHolds, Position
    <3>8. ASSUME NEW x \in Deliveries, Heir(x, d)' PROVE Holds(x, d)'
      <4>1. Heir(x, d)
        BY <1>1, <1>2, <1>3, <1>4, <3>8 DEF Heir, Writing
      <4>2. IdOf(x) = IdOf(d)
        BY <4>1 DEF Heir
      <4> QED  BY <3>2, <3>4, <4>1, <4>2
    <3> QED  BY <1>4, <3>5, <3>7, <3>8
  <2> QED  BY <2>5, <2>6 DEF Inherited
<1> QED  BY <1>5, <1>6, <1>7 DEF SInv

-----------------------------------------------------------------------------
LEMMA RestartStep == ASSUME IInv, SInv, StartAnew PROVE SInv'
<1>1. /\ restarts' = restarts + 1 /\ UNCHANGED << req, hist >>
      /\ \A d \in Deliveries : pc'[d] \notin InFlight
      /\ \A d \in Deliveries : pc'[d] = "wire" => pc[d] = "wire"
  BY DEF StartAnew, IInv, TypeOK, InFlight, Writing
<1>2. \A d \in Deliveries : hist[d].life # restarts'
  <2>1. \A d \in Deliveries : hist[d].life \in Nat /\ hist[d].life <= restarts /\ restarts \in Nat
    BY DEF IInv, TypeOK, Histories, Progress, ProgressOf
  <2> QED  BY <1>1, <2>1
<1>3. \A d \in Deliveries : ~SettledAlone(d)'
  BY <1>1, <1>2 DEF SettledAlone
<1>4. SettledBefore'
  <2>1. \A d \in Deliveries : pc'[d] \notin {"get"}
    BY <1>1 DEF InFlight
  <2> QED  BY <1>1, <1>2, <2>1 DEF SInv, SettledBefore
<1> QED
  BY <1>1, <1>3, <1>4 DEF SInv, Alone, OwnCell, Inherited, OnlyResolved, InFlight, Writing

(* The steps of a delivery that QuietStep is about.                        *)
LEMMA QuietSteps ==
    ASSUME IInv, SInv, NEW c \in Deliveries, Stray => Stray',
           \/ Refuse(c) \/ Receive(c) \/ TriagePut(c) \/ Infer(c) \/ Check(c)
           \/ Mark(c) \/ Act(c) \/ SaveLog(c) \/ GeneratePostmortem(c)
    PROVE  SInv'
<1> USE DEF GoTo, IInv, TypeOK
<1>1. CASE Refuse(c)
  BY <1>1, QuietStep DEF Refuse, Writing
<1>2. CASE Receive(c)
  <2>1. /\ \A e \in Deliveries : event'[e].rem = event[e].rem
        /\ \A e \in Deliveries : /\ hist'[e].overlaps = hist[e].overlaps
                                 /\ hist'[e].before = hist[e].before
        /\ \A e \in Deliveries : e # c => hist'[e].life = hist[e].life
    BY <1>2 DEF Receive, Events, Histories
  <2> QED  BY <1>2, <2>1, QuietStep DEF Receive, Writing
<1>3. CASE TriagePut(c)
  BY <1>3, QuietStep DEF TriagePut, Writing
<1>4. CASE Infer(c)
  <2>1. /\ \A e \in Deliveries : event'[e].rem = event[e].rem
        /\ \A e \in Deliveries : /\ hist'[e].overlaps = hist[e].overlaps
                                 /\ hist'[e].before = hist[e].before
        /\ \A e \in Deliveries : hist'[e].life = hist[e].life
    BY <1>4 DEF Infer, Events, Histories
  <2> QED  BY <1>4, <2>1, QuietStep DEF Infer, Writing
<1>5. CASE Check(c)
  <2>1. \A e \in Deliveries : /\ hist'[e].overlaps = hist[e].overlaps
                              /\ hist'[e].before = hist[e].before
                              /\ hist'[e].life = hist[e].life
    BY <1>5 DEF Check, Histories
  <2> QED  BY <1>5, <2>1, QuietStep DEF Check, Writing
<1>6. CASE Mark(c)
  <2>1. \A e \in Deliveries : /\ hist'[e].overlaps = hist[e].overlaps
                              /\ hist'[e].before = hist[e].before
                              /\ hist'[e].life = hist[e].life
    BY <1>6 DEF Mark, Histories
  <2> QED  BY <1>6, <2>1, QuietStep DEF Mark, Writing
<1>7. CASE Act(c)
  BY <1>7, QuietStep DEF Act, Writing
<1>8. CASE SaveLog(c)
  BY <1>8, QuietStep DEF SaveLog, Writing
<1>9. CASE GeneratePostmortem(c)
  <2>1. Resolved(c)
    BY <1>9 DEF GeneratePostmortem, SInv, OnlyResolved
  <2>2. \A e \in Deliveries : /\ hist'[e].overlaps = hist[e].overlaps
                              /\ hist'[e].before = hist[e].before
                              /\ hist'[e].life = hist[e].life
    BY <1>9, AppendHistory
  <2> QED  BY <1>9, <2>1, <2>2, QuietStep DEF GeneratePostmortem, Writing
<1> QED  BY <1>1, <1>2, <1>3, <1>4, <1>5, <1>6, <1>7, <1>8, <1>9

LEMMA SerialNext == IInv /\ SInv /\ [Next]_vars => SInv'
<1> SUFFICES ASSUME IInv, SInv, [Next]_vars PROVE SInv'
  OBVIOUS
<1>0. Stray => Stray'
  BY StrayStays DEF IInv
<1>1. ASSUME NEW c \in Deliveries, Refuse(c) \/ Receive(c) \/ Process(c) PROVE SInv'
  BY <1>0, <1>1, QuietSteps, TriageGetStep, AppendStep, RestartStep DEF Process, Fault
<1>2. CASE Restart
  BY <1>2, RestartStep DEF Restart
<1>3. ASSUME UNCHANGED << req, pc, event, heap, store, restarts, hist >> PROVE SInv'
  <2>1. \A d, x \in Deliveries :
           /\ HeaderHolds(event[x].rem, d)' <=> HeaderHolds(event[x].rem, d)
           /\ Holds(store[IdOf(d)], d)' <=> Holds(store[IdOf(d)], d)
           /\ Holds(x, d)' <=> Holds(x, d)
           /\ Heir(x, d)' <=> Heir(x, d)
    BY <1>3 DEF HeaderHolds, Holds, Heir, Position, IdOf
  <2>2. \A d : /\ SettledAlone(d)' <=> SettledAlone(d)
               /\ IdOf(d)' = IdOf(d)
    BY <1>3 DEF SettledAlone, Resolved, IdOf
  <2> QED
    BY <1>0, <1>3, <2>1, <2>2 DEF SInv, Alone, OwnCell, Inherited, OnlyResolved, SettledBefore,
                                  Undisturbed, Resolved, Peers
<1> QED  BY <1>1, <1>2, <1>3 DEF Next, Advance, vars

(* The conjunction of both is an invariant.                                *)
LEMMA SerialInvariance == Spec => [](IInv /\ SInv)
<1>1. IInv /\ [Next]_vars => IInv'
  BY TypeNext, OwnNext, ProgressNext, GuardedNext, CooldownNext DEF IInv
<1> QED  BY <1>1, Initially, SerialInit, SerialNext, PTL DEF Spec

(* A header that holds d's cell lists d.                                   *)
LEMMA HeldEntry ==
    ASSUME IInv, NEW d \in Deliveries, NEW y \in Deliveries, Holds(y, d)
    PROVE  d \in Entries(event[y].rem)
<1> DEFINE s == event[y].rem
<1>1. /\ s.arr \in Deliveries /\ Position(d) \in 1..s.len
      /\ Position(d) <= Len(heap[s.arr]) /\ heap[s.arr][Position(d)] = d
  BY DEF Holds, HeaderHolds
<1>2. s.len \in Nat /\ heap[s.arr] \in Arrays
  BY <1>1, HeaderType DEF IInv, TypeOK
<1>3. Cells(s.arr) = heap[s.arr]
  BY <1>1, DeliveriesAssumption DEF Cells
<1>4. Len(heap[s.arr]) \in Nat
  BY <1>2, ArrayCells
<1>5. Position(d) \in 1..Len(Cells(s.arr)) /\ Position(d) <= s.len
  BY <1>1, <1>2, <1>3, <1>4
<1> QED  BY <1>1, <1>3, <1>5 DEF Entries

(* Until an access goes behind an array, a decision that no other delivery *)
(* of the event overlapped stays in the stored event until the process     *)
(* restarts: Triage of triage.go copies a slice header without a lock,     *)
(* append writes into shared arrays, and the entry survives both.          *)
THEOREM SerialDecisionsStay == Spec => []SerialDecisionsKept
<1>1. IInv /\ SInv => SerialDecisionsKept
  <2> SUFFICES ASSUME IInv, SInv, ~Stray, NEW d \in Deliveries, SettledAlone(d)
               PROVE  store[IdOf(d)] # None /\ d \in Entries(event[store[IdOf(d)]].rem)
    BY DEF SerialDecisionsKept
  <2>1. PICK y \in Deliveries : y = store[IdOf(d)] /\ Holds(y, d)
    BY DEF SInv, Inherited
  <2> QED  BY <2>1, HeldEntry, DeliveriesAssumption
<1> QED  BY <1>1, SerialInvariance, PTL

(* Until an access goes behind an array, memory and postmortem drafts tell *)
(* of their own event only, and the log a delivery inherits lists every    *)
(* decision taken alone before its Triage (triage.go, line 170, copies a   *)
(* header that processEvent, handler.go, line 119, may be writing).        *)
THEOREM LogsStayTrue == Spec => []LogsTellTheirEvent
<1>1. IInv /\ SInv => LogsTellTheirEvent
  <2> SUFFICES ASSUME IInv, SInv, ~Stray PROVE LogsTellTheirEvent
    BY DEF LogsTellTheirEvent
  <2>1. ASSUME NEW d \in Deliveries, NEW e \in Entries(event[d].rem) \ {None}
        PROVE  IdOf(e) = IdOf(d)
    <3>1. PICK i \in 1..Len(Cells(event[d].rem.arr)) : e = Cells(event[d].rem.arr)[i]
      BY <2>1 DEF Entries
    <3> QED  BY <2>1, <3>1, EntriesOwn DEF IInv
  <2>2. \A id \in Ids : \A e \in draft[id] \ {None} : IdOf(e) = id
    BY DEF IInv, OwnEvent, OwnEntries
  <2>3. ASSUME NEW x \in Deliveries, hist[x].life = restarts, NEW d \in hist[x].before
        PROVE  d \in Entries(event[x].rem)
    <3>1. d \in Deliveries /\ SettledAlone(d) /\ IdOf(d) = IdOf(x)
      BY <2>3 DEF IInv, TypeOK, Histories, SInv, SettledBefore
    <3>2. Heir(x, d)
      BY <2>3, <3>1 DEF Heir
    <3> QED  BY <3>1, <3>2, HeldEntry DEF SInv, Inherited
  <2> QED  BY <2>1, <2>2, <2>3 DEF LogsTellTheirEvent
<1> QED  BY <1>1, SerialInvariance, PTL

-----------------------------------------------------------------------------
(* What was replaced stays replaced.                                       *)

(* A delivery that has its event in the store has stored it, and one that  *)
(* has not looked into the store has found nothing.                        *)
AtStore == (Writing \ {"put"}) \cup {"rca", "done"}
StoredByOwner == \A id \in Ids : store[id] # None => pc[store[id]] \in AtStore
NothingFound == \A e \in Deliveries : pc[e] \in {"wire", "get"} => hist[e].from = None

(* e found d's event, at a time when d no longer worked on it.             *)
Replaces(e, d) ==
    hist[e].from = d /\ d \notin hist[e].overlaps /\ hist[e].life = restarts

ReplacedForGood ==
    \A d, e \in Deliveries :
        Replaces(e, d) =>
            /\ pc[d] \in {"rca", "done"}
            /\ pc[e] # "put" => store[IdOf(e)] # d

RInv == StoredByOwner /\ NothingFound /\ ReplacedForGood

LEMMA ReplacedInit == Init => RInv
  BY DeliveriesAssumption DEF Init, RInv, StoredByOwner, NothingFound, ReplacedForGood, Replaces

(* A step of c other than its look into the store.                         *)
LEMMA ReplacedFrame ==
    ASSUME IInv, RInv, NEW c \in Deliveries, UNCHANGED << req, restarts >>,
           \A e \in Deliveries : /\ hist'[e].from = hist[e].from
                                 /\ hist'[e].overlaps = hist[e].overlaps
                                 /\ pc[e] # "wire" => hist'[e].life = hist[e].life,
           \A e \in Deliveries \ {c} : pc'[e] = pc[e],
           pc'[c] \in {"wire", "get"} => pc[c] \in {"wire", "get"},
           pc[c] \in AtStore => pc'[c] \in AtStore,
           pc[c] \in {"rca", "done"} => pc'[c] \in {"rca", "done"},
           pc'[c] = "put" => pc[c] = "put",
           \/ store' = store /\ (pc[c] = "put" => pc'[c] = "put")
           \/ Upsert(c) /\ pc[c] \in Writing /\ pc'[c] \in AtStore
    PROVE  RInv'
<1>1. NothingFound'
  BY DEF RInv, NothingFound
<1>2. \A id \in Ids : store'[id] = store[id] \/ (store'[id] = c /\ pc[c] \in Writing /\ pc'[c] \in AtStore)
  BY DEF Upsert, IInv, TypeOK
<1>3. StoredByOwner'
  <2> SUFFICES ASSUME NEW id \in Ids, store'[id] # None PROVE pc'[store'[id]] \in AtStore
    BY DEF StoredByOwner
  <2>1. store[id] \in Deliveries \cup {None}
    BY DEF IInv, TypeOK
  <2> QED  BY <1>2, <2>1 DEF RInv, StoredByOwner
<1>4. ReplacedForGood'
  <2> SUFFICES ASSUME NEW d \in Deliveries, NEW e \in Deliveries, Replaces(e, d)'
               PROVE  pc'[d] \in {"rca", "done"} /\ (pc'[e] # "put" => store'[IdOf(e)] # d)
    BY DEF ReplacedForGood, IdOf
  <2>1. hist[e].from = d /\ d # None
    BY DeliveriesAssumption DEF Replaces
  <2>2. pc[e] \notin {"wire", "get"} /\ Replaces(e, d)
    BY <2>1 DEF RInv, NothingFound, Replaces
  <2>3. pc[d] \in {"rca", "done"} /\ (pc[e] # "put" => store[IdOf(e)] # d)
    BY <2>2 DEF RInv, ReplacedForGood
  <2>4. IdOf(e) \in Ids
    BY IdsOfDeliveries DEF IInv
  <2>5. pc'[d] \in {"rca", "done"} /\ (pc[c] \in Writing => c # d)
    BY <2>3 DEF Writing
  <2>6. CASE pc[e] # "put"
    BY <1>2, <2>3, <2>4, <2>5, <2>6
  <2>7. CASE pc[e] = "put" /\ pc'[e] # "put"
    <3>1. e = c /\ Upsert(c)
      BY <2>7
    <3>2. store'[IdOf(e)] = e
      BY <2>4, <3>1 DEF Upsert, IInv, TypeOK
    <3> QED  BY <2>3, <2>5, <2>7, <3>2
  <2> QED  BY <2>5, <2>6, <2>7
<1> QED  BY <1>1, <1>3, <1>4 DEF RInv

(* What c found, and who was found to overlap.                             *)
LEMMA TriageFound ==
    ASSUME TypeOK, NEW c \in Deliveries, TriageGet(c)
    PROVE  /\ hist'[c].from = Existing(c)
           /\ hist'[c].overlaps = {e \in Deliveries \ {c} : IdOf(e) = IdOf(c) /\ pc[e] \in Writing}
           /\ \A e \in Deliveries \ {c} : /\ hist'[e].from = hist[e].from
                                          /\ hist[e].overlaps \subseteq hist'[e].overlaps
<1>1. PICK others :
          others = {e \in Deliveries \ {c} : IdOf(e) = IdOf(c) /\ pc[e] \in Writing}
  OBVIOUS
<1>2. \A e \in Deliveries :
         hist'[e].overlaps = IF e = c THEN others
                             ELSE IF e \in others THEN hist[e].overlaps \cup {c}
                             ELSE hist[e].overlaps
  BY <1>1, TriageOverlaps
<1> QED  BY <1>1, <1>2, TriageGetHistory

LEMMA ReplacedTriage == ASSUME IInv, RInv, NEW c \in Deliveries, TriageGet(c) PROVE RInv'
<1>1. /\ pc[c] = "get" /\ UNCHANGED << req, store, restarts >>
      /\ \A e \in Deliveries : pc'[e] = IF e = c THEN "put" ELSE pc[e]
  BY DEF TriageGet, GoTo, IInv, TypeOK
<1>2. \A e \in Deliveries : hist'[e].life = hist[e].life
  BY TriageGetHistory DEF IInv
<1>3. /\ hist'[c].from = Existing(c)
      /\ hist'[c].overlaps = {e \in Deliveries \ {c} : IdOf(e) = IdOf(c) /\ pc[e] \in Writing}
      /\ \A e \in Deliveries \ {c} : /\ hist'[e].from = hist[e].from
                                     /\ hist[e].overlaps \subseteq hist'[e].overlaps
  BY TriageFound DEF IInv
<1>4. \A id \in Ids : store[id] # None => store[id] \in Deliveries
  BY DEF IInv, TypeOK
<1>5. StoredByOwner'
  BY <1>1, <1>4 DEF RInv, StoredByOwner, AtStore, Writing
<1>6. NothingFound'
  BY <1>1, <1>3 DEF RInv, NothingFound
<1>7. ReplacedForGood'
  <2> SUFFICES ASSUME NEW d \in Deliveries, NEW e \in Deliveries, Replaces(e, d)'
               PROVE  pc'[d] \in {"rca", "done"} /\ (pc'[e] # "put" => store'[IdOf(e)] # d)
    BY <1>1 DEF ReplacedForGood, IdOf
  <2>1. CASE e = c
    <3>1. store[IdOf(c)] = d /\ IdOf(c) \in Ids
      BY <1>3, <2>1, IdsOfDeliveries DEF Replaces, Existing, IInv
    <3>2. IdOf(d) = IdOf(c) /\ pc[d] \in AtStore
      BY <3>1, DeliveriesAssumption DEF IInv, OwnEvent, OwnPointers, RInv, StoredByOwner
    <3>3. d # c
      BY <1>1, <3>2 DEF AtStore, Writing
    <3>4. pc[d] \notin Writing
      BY <1>3, <2>1, <3>2, <3>3 DEF Replaces
    <3> QED  BY <1>1, <2>1, <3>2, <3>3, <3>4 DEF AtStore
  <2>2. CASE e # c
    <3>1. Replaces(e, d)
      BY <1>1, <1>2, <1>3, <2>2 DEF Replaces
    <3> QED  BY <1>1, <2>2, <3>1 DEF RInv, ReplacedForGood, IdOf
  <2> QED  BY <2>1, <2>2
<1> QED  BY <1>5, <1>6, <1>7 DEF RInv

LEMMA ReplacedRestart == ASSUME IInv, RInv, StartAnew PROVE RInv'
<1>1. /\ restarts' = restarts + 1 /\ hist' = hist
      /\ \A id \in Ids : store'[id] = None
      /\ \A e \in Deliveries : pc'[e] \in {"wire", "get"} => pc[e] \in {"wire", "get"}
  BY DEF StartAnew, IInv, TypeOK
<1>2. \A e \in Deliveries : hist'[e].life # restarts'
  <2>1. \A e \in Deliveries : hist[e].life \in Nat /\ hist[e].life <= restarts /\ restarts \in Nat
    BY DEF IInv, TypeOK, Histories, Progress, ProgressOf
  <2> QED  BY <1>1, <2>1
<1> QED  BY <1>1, <1>2 DEF RInv, StoredByOwner, NothingFound, ReplacedForGood, Replaces

LEMMA ReplacedNext == IInv /\ RInv /\ [Next]_vars => RInv'
<1> SUFFICES ASSUME IInv, RInv, [Next]_vars PROVE RInv'
  OBVIOUS
<1> USE DEF GoTo, IInv, TypeOK, AtStore, Writing
<1>1. ASSUME NEW c \in Deliveries, Receive(c) PROVE RInv'
  <2>1. \A e \in Deliveries : /\ hist'[e].from = hist[e].from
                              /\ hist'[e].overlaps = hist[e].overlaps
                              /\ e # c => hist'[e].life = hist[e].life
    BY <1>1 DEF Receive, Histories
  <2> QED  BY <1>1, <2>1, ReplacedFrame DEF Receive
<1>2. ASSUME NEW c \in Deliveries, Infer(c) \/ Check(c) \/ Mark(c) PROVE RInv'
  <2>1. \A e \in Deliveries : /\ hist'[e].from = hist[e].from
                              /\ hist'[e].overlaps = hist[e].overlaps
                              /\ hist'[e].life = hist[e].life
    <3>1. \E h \in {[hist[c] EXCEPT !.verdict = hist'[c].verdict],
                    [hist[c] EXCEPT !.seen = hist'[c].seen],
                    [hist[c] EXCEPT !.markedAt = now]} : hist' = [hist EXCEPT ![c] = h]
      <4>1. CASE Infer(c)
        BY <4>1 DEF Infer, Histories
      <4>2. CASE Check(c)
        BY <4>2 DEF Check, Histories
      <4>3. CASE Mark(c)
        BY <4>3 DEF Mark, Histories
      <4> QED  BY <1>2, <4>1, <4>2, <4>3
    <3> QED  BY <3>1 DEF Histories
  <2>2. CASE Infer(c)
    BY <2>1, <2>2, ReplacedFrame DEF Infer
  <2>3. CASE Check(c)
    BY <2>1, <2>3, ReplacedFrame DEF Check
  <2>4. CASE Mark(c)
    BY <2>1, <2>4, ReplacedFrame DEF Mark
  <2> QED  BY <1>2, <2>2, <2>3, <2>4
<1>3. ASSUME NEW c \in Deliveries, Refuse(c) \/ TriagePut(c) \/ Act(c) PROVE RInv'
  <2>1. CASE Refuse(c)
    BY <2>1, ReplacedFrame DEF Refuse
  <2>2. CASE TriagePut(c)
    BY <2>2, ReplacedFrame DEF TriagePut
  <2>3. CASE Act(c)
    BY <2>3, ReplacedFrame DEF Act
  <2> QED  BY <1>3, <2>1, <2>2, <2>3
<1>4. ASSUME NEW c \in Deliveries, AppendLog(c) \/ SaveLog(c) \/ GeneratePostmortem(c) PROVE RInv'
  <2>1. CASE AppendLog(c)
    BY <2>1, AppendHistory, ReplacedFrame DEF AppendLog
  <2>2. CASE SaveLog(c)
    BY <2>2, ReplacedFrame DEF SaveLog
  <2>3. CASE GeneratePostmortem(c)
    BY <2>3, AppendHistory, ReplacedFrame DEF GeneratePostmortem
  <2> QED  BY <1>4, <2>1, <2>2, <2>3
<1>5. CASE UNCHANGED << req, pc, store, restarts, hist >>
  BY <1>5 DEF RInv, StoredByOwner, NothingFound, ReplacedForGood, Replaces, IdOf
<1> QED
  BY <1>1, <1>2, <1>3, <1>4, <1>5, ReplacedTriage, ReplacedRestart
     DEF Next, Process, Fault, Restart, Advance, vars

(* A stored event that a delivery found and replaced does not come back    *)
(* while the process lives, unless its own delivery was still at work on   *)
(* it (triage.go and the Upserts of processEvent, handler.go): a resolved  *)
(* notification is undone by overlapping firing ones only.                 *)
THEOREM ReplacedStays == Spec => []ReplacedUnlessOverlapped
<1>1. IInv /\ RInv => ReplacedUnlessOverlapped
  BY DEF RInv, ReplacedForGood, Replaces, ReplacedUnlessOverlapped
<1>2. IInv /\ [Next]_vars => IInv'
  BY TypeNext, OwnNext, ProgressNext, GuardedNext, CooldownNext DEF IInv
<1> QED  BY <1>1, <1>2, Initially, ReplacedInit, ReplacedNext, PTL DEF Spec

-----------------------------------------------------------------------------
(* The decisions are those that Remediation promises.                      *)

(* The rule an action was decided by is the one that matches; and the      *)
(* cooldown map has no mark but one of this process.                       *)
RuleKept == \A d \in Deliveries : pc[d] = "mark" \/ Marked(d) => log[d].rule = RuleOf(d)

MarkOf(d, k) ==
    /\ Marked(d) /\ hist[d].life = restarts
    /\ MarkedKey(d) = k /\ hist[d].markedAt = last[k]

LastIsMark ==
    \A k \in Ids \X RuleIndexes : last[k] # Never => \E d \in Deliveries : MarkOf(d, k)

PInv == RuleKept /\ LastIsMark

LEMMA PromiseInit == Init => PInv
  BY DEF Init, PInv, RuleKept, LastIsMark, Marked, Never

(* A step that marks nothing and comes to no decision to act.              *)
LEMMA PromiseFrame ==
    ASSUME PInv, UNCHANGED << req, last, restarts >>,
           \A d \in Deliveries :
              /\ hist'[d].markedAt = hist[d].markedAt
              /\ Marked(d) => hist'[d].life = hist[d].life
              /\ pc'[d] = "mark" \/ Marked(d) =>
                    log'[d].rule = log[d].rule /\ event'[d].burn5m = event[d].burn5m
              /\ pc'[d] = "mark" => pc[d] = "mark"
    PROVE  PInv'
<1>1. \A d \in Deliveries : /\ Marked(d)' = Marked(d)
                            /\ Marked(d) => MarkedKey(d)' = MarkedKey(d)
                            /\ pc'[d] = "mark" \/ Marked(d) => RuleOf(d)' = RuleOf(d)
  BY DEF Marked, MarkedKey, IdOf, RuleOf
<1>2. RuleKept'
  BY <1>1 DEF PInv, RuleKept
<1>3. LastIsMark'
  <2> SUFFICES ASSUME NEW k \in Ids \X RuleIndexes, last[k] # Never
               PROVE  \E d \in Deliveries : MarkOf(d, k)'
    BY DEF LastIsMark
  <2>1. PICK d \in Deliveries : MarkOf(d, k)
    BY DEF PInv, LastIsMark
  <2>2. MarkOf(d, k)'
    BY <1>1, <2>1 DEF MarkOf
  <2> QED  BY <2>2
<1> QED  BY <1>2, <1>3 DEF PInv

LEMMA PromiseCheck ==
    ASSUME IInv, PInv, NEW d \in Deliveries, Check(d)
    PROVE  PInv'
<1>1. /\ pc[d] = "check" /\ UNCHANGED << req, event, last, now, restarts >> /\ ~Marked(d)
  BY DEF Check, IInv, Progress, ProgressOf, Unmarked
<1>2. \A e \in Deliveries : /\ hist'[e].life = hist[e].life
                            /\ hist'[e].markedAt = hist[e].markedAt
  BY DEF Check, IInv, TypeOK, Histories
<1>3. \A e \in Deliveries : e # d => log'[e] = log[e] /\ pc'[e] = pc[e]
  BY DEF Check, GoTo, IInv, TypeOK
<1>4. \A e \in Deliveries : /\ Marked(e)' = Marked(e) /\ RuleOf(e)' = RuleOf(e)
                            /\ Marked(e) => MarkedKey(e)' = MarkedKey(e)
  BY <1>1, <1>2, <1>3 DEF Marked, MarkedKey, IdOf, RuleOf
<1>5. pc'[d] = "mark" => log'[d].rule = RuleOf(d)
  <2> SUFFICES ASSUME pc'[d] = "mark" PROVE log'[d].rule = RuleOf(d)
    OBVIOUS
  <2>1. Guard(d) = "none"
    BY DEF Check, GoTo, IInv, TypeOK
  <2> QED  BY <2>1, GuardPassed DEF Check, IInv, TypeOK
<1>6. RuleKept'
  BY <1>1, <1>3, <1>4, <1>5 DEF PInv, RuleKept
<1>7. LastIsMark'
  <2> SUFFICES ASSUME NEW k \in Ids \X RuleIndexes, last[k] # Never
               PROVE  \E e \in Deliveries : MarkOf(e, k)'
    BY <1>1 DEF LastIsMark
  <2>1. PICK e \in Deliveries : MarkOf(e, k)
    BY DEF PInv, LastIsMark
  <2>2. MarkOf(e, k)'
    BY <1>1, <1>2, <1>4, <2>1 DEF MarkOf
  <2> QED  BY <2>2
<1> QED  BY <1>6, <1>7 DEF PInv

LEMMA PromiseMark ==
    ASSUME IInv, PInv, NEW d \in Deliveries, Mark(d)
    PROVE  PInv'
<1>1. /\ pc[d] = "mark" /\ UNCHANGED << req, event, log, now, restarts >> /\ ~Marked(d)
      /\ now \in Nat /\ hist[d].life = restarts /\ log[d].rule \in RuleIndexes
  BY DEF Mark, IInv, Progress, ProgressOf, Unmarked, InFlight, Writing, TypeOK
<1>2. \A e \in Deliveries : /\ hist'[e].life = hist[e].life
                            /\ hist'[e].markedAt = IF e = d THEN now ELSE hist[e].markedAt
  BY DEF Mark, IInv, TypeOK, Histories
<1>3. \A e \in Deliveries : /\ Marked(e)' <=> (e = d \/ Marked(e))
                            /\ MarkedKey(e)' = MarkedKey(e) /\ RuleOf(e)' = RuleOf(e)
  BY <1>1, <1>2 DEF Marked, MarkedKey, IdOf, Never, RuleOf
<1>4. MarkedKey(d) \in Ids \X RuleIndexes
  BY <1>1, IdsOfDeliveries DEF IInv, MarkedKey
<1>5. \A k \in Ids \X RuleIndexes : last'[k] = IF k = MarkedKey(d) THEN now ELSE last[k]
  BY <1>4 DEF Mark, MarkedKey, IInv, TypeOK
<1>6. \A e \in Deliveries : pc'[e] = "mark" => pc[e] = "mark"
  BY DEF Mark, GoTo, IInv, TypeOK
<1>7. RuleKept'
  BY <1>1, <1>3, <1>6 DEF PInv, RuleKept
<1>8. LastIsMark'
  <2> SUFFICES ASSUME NEW k \in Ids \X RuleIndexes, last'[k] # Never
               PROVE  \E e \in Deliveries : MarkOf(e, k)'
    BY DEF LastIsMark
  <2>1. CASE k = MarkedKey(d)
    <3>1. MarkOf(d, k)'
      BY <1>1, <1>2, <1>3, <1>5, <2>1 DEF MarkOf
    <3> QED  BY <3>1
  <2>2. CASE k # MarkedKey(d)
    <3>1. PICK e \in Deliveries : MarkOf(e, k)
      BY <1>5, <2>2 DEF PInv, LastIsMark
    <3>2. e # d
      BY <2>2, <3>1 DEF MarkOf
    <3>3. MarkOf(e, k)'
      BY <1>1, <1>2, <1>3, <1>5, <2>2, <3>1, <3>2 DEF MarkOf
    <3> QED  BY <3>3
  <2> QED  BY <2>1, <2>2
<1> QED  BY <1>7, <1>8 DEF PInv

LEMMA PromiseRestart == ASSUME IInv, PInv, StartAnew PROVE PInv'
<1>1. UNCHANGED << req, event, log, hist >>
  BY DEF StartAnew
<1>2. \A e \in Deliveries : pc'[e] # "mark" /\ Marked(e)' = Marked(e) /\ RuleOf(e)' = RuleOf(e)
  BY <1>1 DEF StartAnew, InFlight, Writing, Marked, RuleOf
<1>3. \A k \in Ids \X RuleIndexes : last'[k] = Never
  BY DEF StartAnew
<1> QED  BY <1>1, <1>2, <1>3 DEF PInv, RuleKept, LastIsMark

LEMMA PromiseNext == IInv /\ PInv /\ [Next]_vars => PInv'
<1> SUFFICES ASSUME IInv, PInv, [Next]_vars PROVE PInv'
  OBVIOUS
<1> USE DEF GoTo, IInv, TypeOK
<1>1. ASSUME NEW d \in Deliveries, Receive(d) PROVE PInv'
  <2>1. \A e \in Deliveries : /\ hist'[e].markedAt = hist[e].markedAt
                              /\ e # d => hist'[e].life = hist[e].life /\ event'[e] = event[e]
                              /\ pc'[e] = "mark" => pc[e] = "mark" /\ e # d
    BY <1>1 DEF Receive, Histories
  <2>2. ~Marked(d)
    BY <1>1 DEF Receive, Progress, ProgressOf, Unmarked
  <2>3. UNCHANGED << req, last, log, restarts >>
    BY <1>1 DEF Receive
  <2> QED  BY <2>1, <2>2, <2>3, PromiseFrame
<1>2. ASSUME NEW d \in Deliveries, TriageGet(d) PROVE PInv'
  <2>1. \A e \in Deliveries : /\ hist'[e].markedAt = hist[e].markedAt
                              /\ hist'[e].life = hist[e].life
    BY <1>2, TriageGetHistory
  <2>2. \A e \in Deliveries : event'[e].burn5m = event[e].burn5m
    <3>1. \/ event' = event
          \/ \E v, s : event' = [event EXCEPT ![d].llm = v, ![d].rem = s]
      BY <1>2 DEF TriageGet
    <3>2. ASSUME NEW v, NEW s, event' = [event EXCEPT ![d].llm = v, ![d].rem = s],
                 NEW e \in Deliveries
          PROVE  event'[e].burn5m = event[e].burn5m
      BY <3>2 DEF Events
    <3> QED  BY <3>1, <3>2
  <2>3. /\ UNCHANGED << req, last, log, restarts >>
        /\ \A e \in Deliveries : pc'[e] = "mark" => pc[e] = "mark"
    BY <1>2 DEF TriageGet
  <2> QED  BY <2>1, <2>2, <2>3, PromiseFrame
<1>3. ASSUME NEW d \in Deliveries, Infer(d) PROVE PInv'
  <2>1. \A e \in Deliveries : /\ hist'[e].markedAt = hist[e].markedAt
                              /\ hist'[e].life = hist[e].life
                              /\ event'[e].burn5m = event[e].burn5m
                              /\ pc'[e] = "mark" => pc[e] = "mark"
    BY <1>3 DEF Infer, Histories, Events
  <2>2. UNCHANGED << req, last, log, restarts >>
    BY <1>3 DEF Infer
  <2> QED  BY <2>1, <2>2, PromiseFrame
<1>4. ASSUME UNCHANGED << req, last, restarts, hist >>,
             \A e \in Deliveries : /\ log'[e].rule = log[e].rule
                                   /\ event'[e].burn5m = event[e].burn5m
                                   /\ pc'[e] = "mark" => pc[e] = "mark"
      PROVE  PInv'
  BY <1>4, PromiseFrame
<1>5. ASSUME NEW d \in Deliveries, Act(d) PROVE PInv'
  BY <1>4, <1>5 DEF Act, ExecutorResults, RemediationLogs
<1>6. ASSUME NEW d \in Deliveries, AppendLog(d) \/ GeneratePostmortem(d) PROVE PInv'
  <2>1. \A e \in Deliveries : event'[e].burn5m = event[e].burn5m
    BY <1>6, AppendTypes DEF GeneratePostmortem
  <2>2. UNCHANGED << req, last, log, restarts >> /\ \A e \in Deliveries : pc'[e] = "mark" => pc[e] = "mark"
    BY <1>6 DEF AppendLog, GeneratePostmortem
  <2> QED  BY <1>6, <2>1, <2>2, AppendHistory, PromiseFrame
<1>7. ASSUME NEW d \in Deliveries, Refuse(d) \/ TriagePut(d) \/ SaveLog(d) PROVE PInv'
  BY <1>4, <1>7 DEF Refuse, TriagePut, SaveLog
<1>8. CASE Advance \/ UNCHANGED vars
  BY <1>4, <1>8 DEF Advance, vars
<1> QED
  BY <1>1, <1>2, <1>3, <1>5, <1>6, <1>7, <1>8, PromiseCheck, PromiseMark, PromiseRestart
     DEF Next, Process, Fault, Restart

Stage == [d \in Deliveries |-> StageOf(d)]
Rate == [d \in Deliveries |-> event[d].burn5m]
Verdict == [d \in Deliveries |-> hist[d].verdict]

(* A mark of this process.                                                 *)
MarkRecord(d) == [incident |-> IdOf(d), rule |-> log[d].rule, at |-> hist[d].markedAt]

LEMMA InMarks ==
    ASSUME NEW x
    PROVE  x \in MarksOfLife <=>
              \E d \in Deliveries : Marked(d) /\ hist[d].life = restarts /\ x = MarkRecord(d)
  BY DEF MarksOfLife, MarkRecord

LEMMA MarksStay ==
    ASSUME UNCHANGED << req, restarts >>,
           \A d \in Deliveries :
              /\ hist'[d].markedAt = hist[d].markedAt
              /\ Marked(d) => hist'[d].life = hist[d].life /\ log'[d].rule = log[d].rule
    PROVE  MarksOfLife' = MarksOfLife
<1>1. \A d \in Deliveries :
         /\ Marked(d)' = Marked(d)
         /\ Marked(d) => /\ MarkRecord(d)' = MarkRecord(d)
                         /\ (hist[d].life = restarts)' = (hist[d].life = restarts)
  BY DEF Marked, MarkRecord, IdOf
<1>2. \A x : x \in MarksOfLife' <=>
                \E d \in Deliveries : Marked(d)' /\ (hist[d].life = restarts)' /\ x = MarkRecord(d)'
  BY DEF MarksOfLife, MarkRecord
<1>3. \A x : x \in MarksOfLife' <=> x \in MarksOfLife
  BY <1>1, <1>2, InMarks
<1> QED  BY <1>3

(* A delivery alone moves, from stage f to stage t.                        *)
LEMMA StageMoves ==
    ASSUME TypeOK, NEW d \in Deliveries, NEW there, GoTo(d, there)
    PROVE  /\ Promise!Moves(d, StageOf(d), StageOf(d)')
           /\ StageOf(d)' = StageOf(d) => Stage' = Stage
<1>1. \A e \in Deliveries : e # d => StageOf(e)' = StageOf(e)
  BY DEF GoTo, TypeOK, StageOf
<1>2. Stage[d] = StageOf(d)
  BY DEF Stage
<1>3. Stage' = [e \in Deliveries |-> StageOf(e)']
  BY DEF Stage
<1>4. Stage' = [Stage EXCEPT ![d] = StageOf(d)']
  BY <1>1, <1>3 DEF Stage
<1>5. StageOf(d)' = StageOf(d) => Stage' = Stage
  BY <1>2, <1>4 DEF Stage
<1> QED  BY <1>2, <1>4, <1>5 DEF Promise!Moves, Stage

(* Both modules have the rule table.                                       *)
LEMMA SameTable ==
    /\ Promise!Rules = Rules
    /\ Promise!NoRule = NoRule
    /\ \A a, b : Promise!Match(a, b) = Match(a, b)
    /\ \A llm : Promise!ConfirmsRollback(llm) = ConfirmsRollback(llm)
<1>1. Promise!Rules = Rules /\ Promise!NoRule = NoRule
  BY DEF Promise!Rules, Rules, Promise!NoRule, NoRule
<1>2. \A a, b : Promise!Match(a, b) = Match(a, b)
  BY DEF Promise!Match, Match, Promise!Matches, Matches, Promise!Rules, Rules,
         Promise!RuleIndexes, RuleIndexes, Promise!NoRule, NoRule
<1>3. \A llm : Promise!ConfirmsRollback(llm) = ConfirmsRollback(llm)
  BY DEF Promise!ConfirmsRollback, ConfirmsRollback
<1> QED  BY <1>1, <1>2, <1>3

(* What the map of cooldowns says is what the marks of this process say.   *)
LEMMA CooldownIsMemory ==
    ASSUME IInv, PInv, NEW d \in Deliveries, NEW r \in RuleIndexes
    PROVE  InCooldown(IdOf(d), r) <=> Promise!ActedLately(IdOf(d), r)
<1> DEFINE k == << IdOf(d), r >>
<1>1. k \in Ids \X RuleIndexes
  BY IdsOfDeliveries DEF IInv
<1>2. last[k] \in Times /\ now \in Nat /\ Rules[r].cooldown \in Nat
  BY <1>1, RuleTable DEF IInv, TypeOK
<1>3. ASSUME InCooldown(IdOf(d), r) PROVE Promise!ActedLately(IdOf(d), r)
  <2>1. last[k] # Never /\ now - last[k] < Rules[r].cooldown
    BY <1>3 DEF InCooldown
  <2>2. PICK e \in Deliveries : MarkOf(e, k)
    BY <1>1, <2>1 DEF PInv, LastIsMark
  <2>3. MarkRecord(e) \in MarksOfLife
    BY <2>2, InMarks DEF MarkOf
  <2>4. MarkRecord(e).incident = IdOf(d) /\ MarkRecord(e).rule = r /\ MarkRecord(e).at = last[k]
    BY <2>2 DEF MarkOf, MarkedKey, MarkRecord
  <2> QED  BY <2>1, <2>3, <2>4, SameTable DEF Promise!ActedLately
<1>4. ASSUME Promise!ActedLately(IdOf(d), r) PROVE InCooldown(IdOf(d), r)
  <2>1. PICK m \in MarksOfLife :
           m.incident = IdOf(d) /\ m.rule = r /\ now - m.at < Rules[r].cooldown
    BY <1>4, SameTable DEF Promise!ActedLately
  <2>2. PICK e \in Deliveries : Marked(e) /\ hist[e].life = restarts /\ m = MarkRecord(e)
    BY <2>1, InMarks
  <2>3. MarkedKey(e) = k /\ m.at = hist[e].markedAt
    BY <2>1, <2>2 DEF MarkRecord, MarkedKey
  <2>4. last[k] >= hist[e].markedAt
    BY <2>2, <2>3 DEF IInv, CooldownMap
  <2>5. hist[e].markedAt \in Nat
    BY <2>2 DEF IInv, TypeOK, Histories, Times, Marked
  <2>6. last[k] # Never /\ last[k] \in Nat
    BY <1>2, <2>4, <2>5 DEF Never, Times
  <2>7. now - last[k] < Rules[r].cooldown
    BY <1>2, <2>1, <2>3, <2>4, <2>5, <2>6
  <2> QED  BY <2>6, <2>7 DEF InCooldown
<1> QED  BY <1>3, <1>4

LEMMA GuardIsWarrant ==
    ASSUME IInv, PInv, NEW d \in Deliveries, pc[d] = "check"
    PROVE  Guard(d) = "none" <=> Promise!Warranted(d)
<1> DEFINE r == RuleOf(d)
<1>1. event[d].llm = hist[d].verdict
  BY DEF IInv, Guarded
<1>2. Promise!Rule(d) = r /\ Promise!Incident(d) = IdOf(d)
  BY SameTable DEF Promise!Rule, Promise!Incident, RuleOf, IdOf, eventID
<1>3. r \in RuleIndexes \cup {NoRule}
  BY MatchType DEF RuleOf
<1> HIDE DEF r
<1>4. Promise!Warranted(d) <=>
         /\ ~req[d].chaos /\ r # NoRule
         /\ ~Promise!ActedLately(IdOf(d), r)
         /\ Rules[r].dangerous => ConfirmsRollback(hist[d].verdict) /\ ~DryRun
  BY <1>2, SameTable DEF Promise!Warranted
<1>5. r # NoRule => (InCooldown(IdOf(d), r) <=> Promise!ActedLately(IdOf(d), r))
  BY <1>3, CooldownIsMemory
<1>6. Guard(d) = "none" <=>
         /\ ~req[d].chaos /\ r # NoRule
         /\ ~InCooldown(IdOf(d), r)
         /\ Rules[r].dangerous => ConfirmsRollback(hist[d].verdict) /\ ~DryRun
  BY <1>1 DEF Guard, r, ConfirmsRollback
<1> QED  BY <1>4, <1>5, <1>6

(* Stage, rate, answer and marks.                                          *)
LEMMA PromiseTuple ==
    Promise!remediation = << req, Stage, Rate, Verdict, MarksOfLife, now >>
  BY DEF Promise!remediation, Stage, Rate, Verdict

LEMMA RateStays ==
    ASSUME \A d \in Deliveries : event'[d].burn5m = event[d].burn5m PROVE Rate' = Rate
  BY DEF Rate

LEMMA VerdictStays ==
    ASSUME \A d \in Deliveries : hist'[d].verdict = hist[d].verdict PROVE Verdict' = Verdict
  BY DEF Verdict

LEMMA InitPromises == Init => Promise!Init
<1> SUFFICES ASSUME Init PROVE Promise!Init
  OBVIOUS
<1>1. Stage = [d \in Deliveries |-> "sent"]
  BY DEF Init, Stage, StageOf
<1>2. Rate = [d \in Deliveries |-> 0] /\ Verdict = [d \in Deliveries |-> NoResult]
  BY DEF Init, Rate, Verdict, NewEvent
<1>3. MarksOfLife = {}
  BY DEF Init, MarksOfLife, Marked
<1>4. now = 0 /\ Promise!NoResult = NoResult
  BY DEF Init, Promise!NoResult, NoResult
<1> QED  BY <1>1, <1>2, <1>3, <1>4 DEF Promise!Init, Stage, Rate, Verdict

LEMMA CrashPromised == ASSUME IInv, StartAnew PROVE Promise!Crash
<1>1. /\ UNCHANGED << req, now, event, hist, log >> /\ restarts' = restarts + 1
      /\ \A d \in Deliveries : pc'[d] = IF pc[d] \in InFlight THEN "lost" ELSE pc[d]
  BY DEF StartAnew
<1>2. \A d \in Deliveries : hist[d].life \in Nat /\ hist[d].life <= restarts /\ restarts \in Nat
  BY DEF IInv, TypeOK, Histories, Progress, ProgressOf
<1>3. MarksOfLife' = {}
  <2>1. \A d \in Deliveries : hist'[d].life # restarts'
    BY <1>1, <1>2
  <2> QED  BY <2>1 DEF MarksOfLife
<1>4. \A d \in Deliveries : pc[d] \in PCs
  BY DEF IInv, TypeOK
<1>5. \A d \in Deliveries :
         /\ StageOf(d)' \in Promise!Stages
         /\ CASE StageOf(d) \in Promise!Pending -> StageOf(d)' = "lost"
              [] StageOf(d) = "settled" -> StageOf(d)' \in {"settled", "lost"}
              [] OTHER -> StageOf(d)' = StageOf(d)
  BY <1>1, <1>4
     DEF StageOf, Promise!Stages, Promise!Pending, PCs, InFlight, Writing
<1>6. Stage' \in [Deliveries -> Promise!Stages]
  BY <1>5 DEF Stage
<1>7. Rate' = Rate /\ Verdict' = Verdict
  BY <1>1 DEF Rate, Verdict
<1> QED  BY <1>1, <1>3, <1>5, <1>6, <1>7 DEF Promise!Crash, Stage, Rate, Verdict

LEMMA ReceivePromised ==
    ASSUME IInv, NEW d \in Deliveries, Receive(d) PROVE Promise!Open(d)
<1>1. pc[d] = "wire" /\ ~Marked(d) /\ UNCHANGED << req, log, now, restarts >> /\ GoTo(d, "get")
  BY DEF Receive, IInv, Progress, ProgressOf, Unmarked
<1>2. \A e \in Deliveries : /\ hist'[e].markedAt = hist[e].markedAt
                            /\ hist'[e].verdict = hist[e].verdict
                            /\ e # d => hist'[e].life = hist[e].life
  BY DEF Receive, IInv, TypeOK, Histories
<1>3. MarksOfLife' = MarksOfLife /\ Verdict' = Verdict
  BY <1>1, <1>2, MarksStay, VerdictStays
<1>4. PICK b \in BurnLevels : event' = [event EXCEPT ![d].burn5m = b]
  BY DEF Receive
<1>5. Rate' = [Rate EXCEPT ![d] = b]
  BY <1>4 DEF Rate, IInv, TypeOK, Events
<1>6. Promise!Moves(d, "sent", "open")
  <2>1. StageOf(d) = "sent" /\ StageOf(d)' = "open"
    BY <1>1 DEF GoTo, IInv, TypeOK, StageOf
  <2> QED  BY <1>1, <2>1, StageMoves DEF IInv
<1> QED  BY <1>1, <1>3, <1>5, <1>6 DEF Promise!Open, Rate, Verdict

LEMMA InferPromised ==
    ASSUME IInv, NEW d \in Deliveries, Infer(d) PROVE Promise!Answer(d)
<1>1. pc[d] = "infer" /\ ~Resolved(d) /\ UNCHANGED << req, log, now, restarts >>
      /\ GoTo(d, "check")
  BY DEF Infer, IInv, Progress, ProgressOf, Processing
<1>2. Promise!Firing(d)
  <2>1. req[d] \in Payload
    BY PayloadsAssumption DEF IInv, TypeOK
  <2> QED  BY <1>1, <2>1 DEF Payload, Resolved, Promise!Firing
<1>3. PICK v \in Verdicts : /\ event' = [event EXCEPT ![d].llm = Assigned(d, v)]
                            /\ hist' = [hist EXCEPT ![d].verdict = v]
  BY DEF Infer
<1>4. \A e \in Deliveries : /\ hist'[e].markedAt = hist[e].markedAt
                            /\ hist'[e].life = hist[e].life
                            /\ event'[e].burn5m = event[e].burn5m
  BY <1>3 DEF IInv, TypeOK, Histories, Events
<1>5. MarksOfLife' = MarksOfLife /\ Rate' = Rate
  BY <1>1, <1>4, MarksStay, RateStays
<1>6. Verdict' = [Verdict EXCEPT ![d] = v]
  <2>1. \A e \in Deliveries : hist'[e].verdict = IF e = d THEN v ELSE hist[e].verdict
    BY <1>3 DEF IInv, TypeOK, Histories
  <2> QED  BY <2>1 DEF Verdict
<1>7. Promise!Moves(d, "open", "answered")
  <2>1. StageOf(d) = "open" /\ StageOf(d)' = "answered"
    BY <1>1 DEF GoTo, IInv, TypeOK, StageOf
  <2> QED  BY <1>1, <2>1, StageMoves DEF IInv
<1> QED  BY <1>1, <1>2, <1>5, <1>6, <1>7 DEF Promise!Answer, Rate, Verdict

LEMMA CheckPromised ==
    ASSUME IInv, PInv, NEW d \in Deliveries, Check(d) PROVE Promise!Decide(d)
<1>1. /\ pc[d] = "check" /\ UNCHANGED << req, event, now, restarts >> /\ ~Marked(d)
      /\ GoTo(d, IF Guard(d) = "none" THEN "mark" ELSE "append")
  BY DEF Check, IInv, Progress, ProgressOf, Unmarked
<1>2. \A e \in Deliveries : /\ hist'[e].life = hist[e].life
                            /\ hist'[e].markedAt = hist[e].markedAt
                            /\ hist'[e].verdict = hist[e].verdict
                            /\ e # d => log'[e] = log[e]
  BY DEF Check, IInv, TypeOK, Histories
<1>3. MarksOfLife' = MarksOfLife /\ Rate' = Rate /\ Verdict' = Verdict
  BY <1>1, <1>2, MarksStay, RateStays, VerdictStays
<1>4. Promise!Moves(d, "answered", IF Promise!Warranted(d) THEN "due" ELSE "settled")
  <2>1. StageOf(d) = "answered"
    BY <1>1 DEF StageOf
  <2>2. StageOf(d)' = IF Guard(d) = "none" THEN "due" ELSE "settled"
    BY <1>1 DEF GoTo, IInv, TypeOK, StageOf
  <2>3. StageOf(d)' = IF Promise!Warranted(d) THEN "due" ELSE "settled"
    BY <1>1, <2>2, GuardIsWarrant
  <2>4. Promise!Moves(d, StageOf(d), StageOf(d)')
    BY <1>1, StageMoves DEF IInv
  <2> QED  BY <2>1, <2>3, <2>4
<1> QED  BY <1>1, <1>3, <1>4 DEF Promise!Decide, Rate, Verdict

LEMMA MarkPromised ==
    ASSUME IInv, PInv, NEW d \in Deliveries, Mark(d) PROVE Promise!Take(d)
<1>1. /\ pc[d] = "mark" /\ UNCHANGED << req, event, log, now, restarts >> /\ ~Marked(d)
      /\ now \in Nat /\ hist[d].life = restarts /\ log[d].rule = RuleOf(d) /\ GoTo(d, "act")
  BY DEF Mark, IInv, Progress, ProgressOf, Unmarked, InFlight, Writing, TypeOK, PInv, RuleKept
<1>2. \A e \in Deliveries : /\ hist'[e].life = hist[e].life
                            /\ hist'[e].markedAt = IF e = d THEN now ELSE hist[e].markedAt
                            /\ hist'[e].verdict = hist[e].verdict
  BY DEF Mark, IInv, TypeOK, Histories
<1> DEFINE m == [incident |-> IdOf(d), rule |-> RuleOf(d), at |-> now]
<1>3. /\ \A e \in Deliveries : e # d => Marked(e)' = Marked(e) /\ MarkRecord(e)' = MarkRecord(e)
      /\ Marked(d)' /\ MarkRecord(d)' = m
  BY <1>1, <1>2 DEF Marked, MarkRecord, IdOf, Never
<1> HIDE DEF m
<1>4. MarksOfLife' = MarksOfLife \cup {m}
  <2>1. \A x : x \in MarksOfLife' <=>
                  \E e \in Deliveries : Marked(e)' /\ (hist[e].life = restarts)' /\ x = MarkRecord(e)'
    BY DEF MarksOfLife, MarkRecord
  <2>2. \A x : x \in MarksOfLife' <=> x \in MarksOfLife \/ x = m
    BY <1>1, <1>2, <1>3, <2>1, InMarks
  <2> QED  BY <2>2
<1>5. Rate' = Rate /\ Verdict' = Verdict
  BY <1>1, <1>2, RateStays, VerdictStays
<1>6. m = [incident |-> Promise!Incident(d), rule |-> Promise!Rule(d), at |-> now]
  BY SameTable DEF m, Promise!Incident, Promise!Rule, RuleOf, IdOf, eventID
<1>7. Promise!Moves(d, "due", "acting")
  <2>1. StageOf(d) = "due" /\ StageOf(d)' = "acting"
    BY <1>1 DEF GoTo, IInv, TypeOK, StageOf
  <2> QED  BY <1>1, <2>1, StageMoves DEF IInv
<1> QED  BY <1>1, <1>4, <1>5, <1>6, <1>7 DEF Promise!Take, Rate, Verdict

(* A step that moves one delivery and touches nothing that is promised.    *)
LEMMA QuietPromised ==
    ASSUME IInv, NEW d \in Deliveries, NEW there, GoTo(d, there),
           UNCHANGED << req, now, restarts >>,
           \A e \in Deliveries :
              /\ hist'[e].markedAt = hist[e].markedAt
              /\ hist'[e].verdict = hist[e].verdict
              /\ hist'[e].life = hist[e].life
              /\ log'[e].rule = log[e].rule
              /\ event'[e].burn5m = event[e].burn5m
    PROVE  /\ UNCHANGED << req, Rate, Verdict, MarksOfLife, now >>
           /\ Promise!Moves(d, StageOf(d), StageOf(d)')
           /\ StageOf(d)' = StageOf(d) => UNCHANGED Promise!remediation
<1>1. Rate' = Rate /\ Verdict' = Verdict /\ MarksOfLife' = MarksOfLife
  BY RateStays, VerdictStays, MarksStay
<1>2. Promise!Moves(d, StageOf(d), StageOf(d)') /\ (StageOf(d)' = StageOf(d) => Stage' = Stage)
  BY StageMoves DEF IInv
<1>3. StageOf(d)' = StageOf(d) => UNCHANGED << req, Stage, Rate, Verdict, MarksOfLife, now >>
  BY <1>1, <1>2
<1>4. Promise!remediation' = << req, Stage, Rate, Verdict, MarksOfLife, now >>'
  BY DEF Promise!remediation, Stage, Rate, Verdict
<1> QED  BY <1>1, <1>2, <1>3, <1>4, PromiseTuple
(* Every step of the pipeline is a step that Remediation allows, or none.  *)
LEMMA StepPromised ==
    IInv /\ PInv /\ [Next]_vars => [Promise!Next]_(Promise!remediation)
<1> SUFFICES ASSUME IInv, PInv, [Next]_vars
             PROVE  Promise!Next \/ UNCHANGED Promise!remediation
  OBVIOUS
<1> DEFINE Quiet == /\ UNCHANGED << req, now, restarts >>
                    /\ \A e \in Deliveries :
                          /\ hist'[e].markedAt = hist[e].markedAt
                          /\ hist'[e].verdict = hist[e].verdict
                          /\ hist'[e].life = hist[e].life
                          /\ log'[e].rule = log[e].rule
                          /\ event'[e].burn5m = event[e].burn5m
<1>1. ASSUME NEW d \in Deliveries, NEW there, GoTo(d, there), Quiet, StageOf(d)' = StageOf(d)
      PROVE  UNCHANGED Promise!remediation
  BY <1>1, QuietPromised
<1>2. ASSUME NEW d \in Deliveries, Refuse(d) PROVE Promise!Refuse(d)
  <2>1. GoTo(d, "refused") /\ Quiet /\ StageOf(d) = "sent" /\ StageOf(d)' = "refused"
    BY <1>2 DEF Refuse, GoTo, StageOf, IInv, TypeOK
  <2>2. UNCHANGED << req, Rate, Verdict, MarksOfLife, now >> /\ Promise!Moves(d, "sent", "refused")
    BY <2>1, QuietPromised
  <2> QED  BY <2>2 DEF Promise!Refuse, Rate, Verdict
<1>3. ASSUME NEW d \in Deliveries, TriageGet(d) PROVE UNCHANGED Promise!remediation
  <2>1. \A e \in Deliveries : event'[e].burn5m = event[e].burn5m
    <3>1. \/ event' = event
          \/ \E v, s : event' = [event EXCEPT ![d].llm = v, ![d].rem = s]
      BY <1>3 DEF TriageGet
    <3>2. ASSUME NEW v, NEW s, event' = [event EXCEPT ![d].llm = v, ![d].rem = s],
                 NEW e \in Deliveries
          PROVE  event'[e].burn5m = event[e].burn5m
      BY <3>2 DEF Events, IInv, TypeOK
    <3> QED  BY <3>1, <3>2
  <2>2. GoTo(d, "put") /\ Quiet
    BY <1>3, <2>1, TriageGetHistory DEF TriageGet, IInv
  <2>3. StageOf(d)' = StageOf(d)
    BY <1>3 DEF TriageGet, GoTo, StageOf, IInv, TypeOK
  <2> QED  BY <1>1, <2>2, <2>3
<1>4. ASSUME NEW d \in Deliveries, TriagePut(d)
      PROVE  Promise!Close(d) \/ UNCHANGED Promise!remediation
  <2>1. /\ GoTo(d, IF Resolved(d) THEN "rca" ELSE "infer") /\ Quiet
        /\ StageOf(d) = "open" /\ StageOf(d)' = IF Resolved(d) THEN "settled" ELSE "open"
    BY <1>4 DEF TriagePut, GoTo, StageOf, IInv, TypeOK
  <2>2. CASE Resolved(d)
    <3>1. /\ UNCHANGED << req, Rate, Verdict, MarksOfLife, now >>
          /\ Promise!Moves(d, "open", "settled")
      BY <2>1, <2>2, QuietPromised
    <3>2. ~Promise!Firing(d)
      BY <2>2 DEF Resolved, Promise!Firing
    <3> QED  BY <3>1, <3>2 DEF Promise!Close, Rate, Verdict
  <2>3. CASE ~Resolved(d)
    BY <1>1, <2>1, <2>3
  <2> QED  BY <2>2, <2>3
<1>5. ASSUME NEW d \in Deliveries, Act(d) PROVE Promise!Finish(d)
  <2>1. GoTo(d, "append") /\ Quiet /\ StageOf(d) = "acting" /\ StageOf(d)' = "settled"
    BY <1>5 DEF Act, GoTo, StageOf, IInv, TypeOK, RemediationLogs
  <2>2. /\ UNCHANGED << req, Rate, Verdict, MarksOfLife, now >>
        /\ Promise!Moves(d, "acting", "settled")
    BY <2>1, QuietPromised
  <2> QED  BY <2>2 DEF Promise!Finish, Rate, Verdict
<1>6. ASSUME NEW d \in Deliveries, AppendLog(d) PROVE UNCHANGED Promise!remediation
  <2>1. \A e \in Deliveries : event'[e].burn5m = event[e].burn5m
    BY <1>6, AppendTypes DEF IInv
  <2>2. GoTo(d, "save") /\ Quiet /\ StageOf(d)' = StageOf(d)
    BY <1>6, <2>1, AppendHistory DEF AppendLog, GoTo, StageOf, IInv, TypeOK
  <2> QED  BY <1>1, <2>2
<1>7. ASSUME NEW d \in Deliveries, SaveLog(d) \/ GeneratePostmortem(d)
      PROVE  UNCHANGED Promise!remediation
  <2>1. GoTo(d, "done") /\ Quiet /\ StageOf(d)' = StageOf(d)
    BY <1>7, AppendHistory DEF SaveLog, GeneratePostmortem, GoTo, StageOf, IInv, TypeOK
  <2> QED  BY <1>1, <2>1
<1>8. CASE Advance
  <2>1. now' \in Nat /\ now < now'
    BY <1>8, BoundsAssumption DEF Advance, IInv, TypeOK
  <2>2. Stage' = Stage /\ Rate' = Rate /\ Verdict' = Verdict /\ MarksOfLife' = MarksOfLife
    BY <1>8, RateStays, VerdictStays, MarksStay DEF Advance, Stage, StageOf
  <2>3. Promise!Pass
    BY <1>8, <2>1, <2>2 DEF Advance, Promise!Pass, Stage, Rate, Verdict
  <2> QED  BY <2>3 DEF Promise!Next
<1>9. CASE UNCHANGED vars
  BY <1>9 DEF vars, Promise!remediation, StageOf, MarksOfLife, Marked, IdOf
<1>10. ASSUME NEW d \in Deliveries, Refuse(d) \/ Receive(d) \/ Process(d)
       PROVE  Promise!Next \/ UNCHANGED Promise!remediation
  <2>1. CASE Refuse(d) \/ Receive(d) \/ Infer(d) \/ Check(d) \/ Mark(d) \/ Act(d)
    BY <1>2, <1>5, <2>1, ReceivePromised, InferPromised, CheckPromised, MarkPromised
       DEF Promise!Next
  <2>2. CASE TriageGet(d) \/ TriagePut(d) \/ AppendLog(d) \/ SaveLog(d) \/ GeneratePostmortem(d)
    BY <1>3, <1>4, <1>6, <1>7, <2>2 DEF Promise!Next
  <2>3. CASE Fault(d)
    BY <2>3, CrashPromised DEF Fault, Promise!Next
  <2> QED  BY <1>10, <2>1, <2>2, <2>3 DEF Process
<1>11. CASE Restart
  BY <1>11, CrashPromised DEF Restart, Promise!Next
<1> QED  BY <1>8, <1>9, <1>10, <1>11 DEF Next

(* Whatever goroutines make of the event store, of shared logs and of the  *)
(* map of cooldowns, each notification is decided on once, from its own    *)
(* burn rate, the answer given to it and the actions this process took     *)
(* before, for any number of deliveries, restarts and faults.              *)
THEOREM DecisionsAsPromised == Spec => DecidesAsPromised
<1>1. IInv /\ [Next]_vars => IInv'
  BY TypeNext, OwnNext, ProgressNext, GuardedNext, CooldownNext DEF IInv
<1> QED
  BY <1>1, Initially, PromiseInit, PromiseNext, InitPromises, StepPromised, PTL
     DEF Spec, DecidesAsPromised, Promise!Spec
=============================================================================
