-------------------------- MODULE RemediatorProofs --------------------------
(***************************************************************************)
(* Proofs about Remediator for every set of deliveries, payloads, burn     *)
(* rates and answers, and for any number of restarts.                      *)
(***************************************************************************)
EXTENDS Remediator, RemediateRulesProofs, TLAPS, SequenceTheorems

-----------------------------------------------------------------------------
(* The inductive invariant.                                                *)

(* pcs of a delivery that has not allocated its backing array.             *)
Early == {"wire", "get", "put", "infer", "check", "mark", "act", "append", "rca", "refused"}

(* A header names an array that exists, and one that was just written has  *)
(* an entry.                                                               *)
Fresh ==
    /\ \A a, d \in Deliveries : pc[a] \in Early => event[d].rem.arr # a
    /\ \A d \in Deliveries : pc[d] = "save" => event[d].rem.len > 0

(* Pointers and headers stay within one event, whatever the lengths and    *)
(* capacities that were read with them.                                    *)
OwnPointers ==
    /\ \A id \in Ids : store[id] # None => IdOf(store[id]) = id
    /\ \A d \in Deliveries : event[d].rem.arr # None => IdOf(event[d].rem.arr) = IdOf(d)

(* Arrays and drafts do, until an access goes behind an array.             *)
OwnEntries ==
    /\ \A a \in Deliveries : \A i \in 1..Len(heap[a]) :
          heap[a][i] # None => IdOf(heap[a][i]) = IdOf(a)
    /\ \A id \in Ids : \A e \in draft[id] \ {None} : IdOf(e) = id

OwnEvent == OwnPointers /\ (~Stray => OwnEntries)

(* pcs before Mark, and those after the guards of Evaluate.                *)
Unmarked == {"wire", "get", "put", "infer", "check", "mark"}
Processing == {"infer", "check", "mark", "act", "append", "save"}

(* What each delivery knows of itself.                                     *)
ProgressOf(d) ==
    /\ pc[d] \in Unmarked => ~Marked(d)
    /\ pc[d] \in InFlight => hist[d].life = restarts
    /\ hist[d].life <= restarts
    /\ pc[d] \in Processing => ~Resolved(d)
    /\ pc[d] \in {"mark", "act"} \/ Marked(d) => log[d].rule \in RuleIndexes
    /\ \A e \in hist[d].seen : Marked(e)
    /\ pc[d] \in Unmarked \ {"mark"} => hist[d].seen = {}

Progress == \A d \in Deliveries : ProgressOf(d)

(* Justified d: the guards of Evaluate held for d.                         *)
Justified(d) ==
    /\ ~req[d].chaos /\ ~Resolved(d)
    /\ Rules[log[d].rule].dangerous =>
          /\ ConfirmsRollback(hist[d].verdict)
          /\ event[d].burn5m >= 500
          /\ ~DryRun

Guarded ==
    \A d \in Deliveries :
        /\ pc[d] = "check" => event[d].llm = hist[d].verdict
        /\ pc[d] = "mark" \/ Marked(d) => Justified(d)

(* The cooldown map is no older than any mark of this life, and a delivery *)
(* that passed the check lies a cooldown after every mark it could see.    *)
CooldownMap ==
    /\ \A d \in Deliveries : hist[d].markedAt <= now
    /\ \A d \in Deliveries :
          (Marked(d) /\ hist[d].life = restarts) => last[MarkedKey(d)] >= hist[d].markedAt
    /\ \A d, e \in Deliveries :
          ( /\ pc[e] = "mark" /\ d \in hist[e].seen
            /\ MarkedKey(d) = MarkedKey(e) )
          => now - hist[d].markedAt >= Rules[log[d].rule].cooldown

IInv ==
    TypeOK /\ Fresh /\ OwnEvent /\ Progress /\ Guarded /\ CooldownMap
    /\ CooldownUnlessOverlapped

-----------------------------------------------------------------------------
(* Backing arrays.                                                         *)

LEMMA ArrayCells ==
    ASSUME NEW a \in Arrays
    PROVE  /\ a \in Seq(Deliveries \cup {None}) /\ Len(a) \in Nat
           /\ DOMAIN a = 1..Len(a)
           /\ \A i \in 1..Len(a) : a[i] \in Deliveries \cup {None}
<1>1. a \in Seq(Deliveries \cup {None})
  BY DEF Arrays
<1>2. Len(a) \in Nat /\ DOMAIN a = 1..Len(a) /\ a \in [1..Len(a) -> Deliveries \cup {None}]
  BY <1>1, LenProperties
<1> QED  BY <1>1, <1>2

LEMMA CellsOf ==
    ASSUME TypeOK, NEW arr \in Deliveries \cup {None}
    PROVE  /\ Cells(arr) \in Arrays /\ Len(Cells(arr)) \in Nat
           /\ arr # None => arr \in Deliveries /\ Cells(arr) = heap[arr]
           /\ arr = None => Len(Cells(arr)) = 0
<1>1. CASE arr = None
  BY <1>1, EmptySeq DEF Cells, Arrays
<1>2. CASE arr # None
  <2>1. heap[arr] \in Arrays /\ Cells(arr) = heap[arr] /\ arr \in Deliveries
    BY <1>2 DEF Cells, TypeOK
  <2> QED  BY <1>2, <2>1, ArrayCells
<1> QED  BY <1>1, <1>2

LEMMA HeaderType ==
    ASSUME TypeOK, NEW d \in Deliveries
    PROVE  /\ event[d].rem \in Slices
           /\ event[d].rem.arr \in Deliveries \cup {None}
           /\ event[d].rem.len \in Nat /\ event[d].rem.cap \in Nat
  BY DEF TypeOK, Events, Slices

LEMMA CapacityOf ==
    ASSUME NEW n \in Nat, NEW cap \in Nat
    PROVE  Capacity(n, cap) \in Nat /\ n <= Capacity(n, cap)
<1>1. Capacity(n, cap) = IF n > 2 * cap THEN n ELSE 2 * cap
  BY DEF Capacity
<1> QED  BY <1>1

(* One cell is overwritten.                                                *)
LEMMA CellWritten ==
    ASSUME NEW h \in [Deliveries -> Arrays], NEW a \in Deliveries, NEW i \in 1..Len(h[a]),
           NEW v \in Deliveries \cup {None}, NEW k, k = [h EXCEPT ![a][i] = v]
    PROVE  /\ k \in [Deliveries -> Arrays]
           /\ \A b \in Deliveries \ {a} : k[b] = h[b]
           /\ Len(k[a]) = Len(h[a])
           /\ \A j \in 1..Len(h[a]) : k[a][j] = IF j = i THEN v ELSE h[a][j]
<1>1. h[a] \in Seq(Deliveries \cup {None})
  BY DEF Arrays
<1> DEFINE w == [h[a] EXCEPT ![i] = v]
<1>2. /\ w \in Seq(Deliveries \cup {None}) /\ Len(w) = Len(h[a])
      /\ \A j \in 1..Len(h[a]) : w[j] = IF j = i THEN v ELSE h[a][j]
  BY <1>1, ExceptSeq
<1>3. k = [h EXCEPT ![a] = w]
  OBVIOUS
<1> HIDE DEF w
<1> QED  BY <1>2, <1>3 DEF Arrays

LEMMA ContentsOf ==
    ASSUME TypeOK, NEW s \in Slices, NEW c \in Contents(s)
    PROVE  /\ s.len \in Nat /\ s.cap \in Nat /\ s.arr \in Deliveries \cup {None}
           /\ c \in [1..s.len -> Deliveries \cup {None}]
           /\ \A i \in 1..s.len : i <= Len(Cells(s.arr)) => c[i] = Cells(s.arr)[i]
<1>1. s.len \in Nat /\ s.cap \in Nat /\ s.arr \in Deliveries \cup {None}
  BY DEF Slices
<1>2. Len(Cells(s.arr)) \in Nat
  BY <1>1, CellsOf
<1> QED  BY <1>1, <1>2 DEF Contents

LEMMA GrownArray ==
    ASSUME TypeOK, NEW s \in Slices, NEW c \in Contents(s), NEW d \in Deliveries,
           NEW g, g = Grown(s, c, d)
    PROVE  /\ g \in Arrays
           /\ s.len + 1 <= Len(g)
           /\ g[s.len + 1] = d
           /\ \A i \in 1..s.len : g[i] = c[i]
           /\ \A i \in 1..Len(g) : i \notin 1..(s.len + 1) => g[i] = None
<1> DEFINE m == Capacity(s.len + 1, s.cap)
<1>1. s.len \in Nat /\ s.cap \in Nat /\ c \in [1..s.len -> Deliveries \cup {None}]
  BY ContentsOf
<1>2. m \in Nat /\ s.len + 1 <= m
  <2>1. s.len + 1 \in Nat
    BY <1>1
  <2> QED  BY <1>1, <2>1, CapacityOf, Zenon
<1>3. g = [i \in 1..m |-> IF i <= s.len THEN c[i] ELSE IF i = s.len + 1 THEN d ELSE None]
  BY DEF Grown
<1> HIDE DEF m
<1>4. \A i \in 1..m : i <= s.len => c[i] \in Deliveries \cup {None}
  BY <1>1, <1>2
<1>5. g \in [1..m -> Deliveries \cup {None}]
  BY <1>3, <1>4
<1>6. g \in Seq(Deliveries \cup {None})
  BY <1>2, <1>5, SeqDef
<1>7. Len(g) = m
  <2>1. DOMAIN g = 1..m /\ DOMAIN g = 1..Len(g) /\ Len(g) \in Nat
    BY <1>3, <1>6, LenProperties
  <2> QED  BY <1>2, <2>1
<1>8. /\ s.len + 1 \in 1..m /\ \A i \in 1..s.len : i \in 1..m
  BY <1>1, <1>2
<1>9. g[s.len + 1] = d
  BY <1>1, <1>3, <1>8
<1>10. \A i \in 1..s.len : g[i] = c[i]
  BY <1>1, <1>3, <1>8
<1>11. \A i \in 1..m : i \notin 1..(s.len + 1) => g[i] = None
  BY <1>1, <1>2, <1>3
<1> QED  BY <1>2, <1>6, <1>7, <1>9, <1>10, <1>11 DEF Arrays

(* What an append does, behind an array or not.                            *)
LEMMA AppendTypes ==
    ASSUME TypeOK, NEW d \in Deliveries, AppendLog(d)
    PROVE  /\ event' \in [Deliveries -> Events]
           /\ heap' \in [Deliveries -> Arrays]
           /\ event'[d].rem.len = event[d].rem.len + 1
           /\ event'[d].rem.arr \in {d, event[d].rem.arr}
           /\ event'[d].llm = event[d].llm /\ event'[d].burn5m = event[d].burn5m
           /\ \A e \in Deliveries \ {d} : event'[e] = event[e]
<1> DEFINE s == event[d].rem
<1>1. s \in Slices /\ s.len \in Nat /\ s.cap \in Nat /\ s.arr \in Deliveries \cup {None}
  BY HeaderType
<1>2. CASE Full(s)
  <2> DEFINE t == [arr |-> d, len |-> s.len + 1, cap |-> Capacity(s.len + 1, s.cap)]
  <2>1. event' = [event EXCEPT ![d].rem = t]
    BY <1>2 DEF AppendLog
  <2>2. t \in Slices /\ t.arr = d /\ t.len = s.len + 1
    <3>1. s.len + 1 \in Nat
      BY <1>1
    <3>2. Capacity(s.len + 1, s.cap) \in Nat
      BY <1>1, <3>1, CapacityOf, Zenon
    <3> QED  BY <3>1, <3>2 DEF Slices
  <2>3. PICK c \in Contents(s) : heap' = [heap EXCEPT ![d] = Grown(s, c, d)]
    BY <1>2 DEF AppendLog
  <2>4. Grown(s, c, d) \in Arrays
    BY <1>1, GrownArray
  <2>5. heap' \in [Deliveries -> Arrays]
    BY <2>3, <2>4 DEF TypeOK
  <2> HIDE DEF t
  <2>6. /\ [event[d] EXCEPT !.rem = t] \in Events /\ [event[d] EXCEPT !.rem = t].rem = t
        /\ [event[d] EXCEPT !.rem = t].llm = event[d].llm
        /\ [event[d] EXCEPT !.rem = t].burn5m = event[d].burn5m
    BY <2>2 DEF TypeOK, Events
  <2> QED  BY <2>1, <2>2, <2>5, <2>6 DEF TypeOK
<1>3. CASE ~Full(s)
  <2> DEFINE t == [s EXCEPT !.len = s.len + 1]
  <2>1. event' = [event EXCEPT ![d].rem.len = s.len + 1]
    BY <1>3 DEF AppendLog
  <2>2. event' = [event EXCEPT ![d] = [event[d] EXCEPT !.rem = t]]
    BY <2>1 DEF TypeOK, Events
  <2>3. t \in Slices /\ t.arr = s.arr /\ t.len = s.len + 1
    BY <1>1 DEF Slices
  <2>4. heap' \in [Deliveries -> Arrays]
    <3>1. CASE WritesBehind(s)
      <4>1. heap' \in Smeared(d)
        BY <1>3, <3>1 DEF AppendLog
      <4>2. CASE heap' = heap
        BY <4>2 DEF TypeOK
      <4>3. CASE heap' # heap
        <5>1. PICK a \in Deliveries : \E i \in 1..Len(heap[a]), v \in {d, None} :
                  heap' = [heap EXCEPT ![a][i] = v]
          BY <4>1, <4>3 DEF Smeared
        <5>2. PICK i \in 1..Len(heap[a]) : \E v \in {d, None} :
                  heap' = [heap EXCEPT ![a][i] = v]
          BY <5>1
        <5>3. PICK v \in {d, None} : heap' = [heap EXCEPT ![a][i] = v]
          BY <5>2
        <5>4. heap \in [Deliveries -> Arrays] /\ v \in Deliveries \cup {None}
          BY DEF TypeOK
        <5> QED  BY <5>3, <5>4, CellWritten
      <4> QED  BY <4>2, <4>3
    <3>2. CASE ~WritesBehind(s)
      <4>1. heap' = [heap EXCEPT ![s.arr][s.len + 1] = d]
        BY <1>3, <3>2 DEF AppendLog, Placed
      <4>2. s.len < Len(Cells(s.arr)) /\ Len(Cells(s.arr)) \in Nat
        BY <1>1, <1>3, <3>2, CellsOf DEF WritesBehind
      <4>3. s.arr \in Deliveries /\ Cells(s.arr) = heap[s.arr]
        BY <1>1, <4>2, CellsOf
      <4>4. s.len + 1 \in 1..Len(heap[s.arr])
        BY <1>1, <4>2, <4>3
      <4>5. PICK a \in Deliveries : a = s.arr
        BY <4>3
      <4>6. PICK i \in 1..Len(heap[a]) : i = s.len + 1
        BY <4>4, <4>5
      <4>7. heap' = [heap EXCEPT ![a][i] = d]
        BY <4>1, <4>5, <4>6
      <4>8. heap \in [Deliveries -> Arrays] /\ d \in Deliveries \cup {None}
        BY DEF TypeOK
      <4> QED  BY <4>7, <4>8, CellWritten
    <3> QED  BY <3>1, <3>2
  <2> HIDE DEF t
  <2>5. /\ [event[d] EXCEPT !.rem = t] \in Events /\ [event[d] EXCEPT !.rem = t].rem = t
        /\ [event[d] EXCEPT !.rem = t].llm = event[d].llm
        /\ [event[d] EXCEPT !.rem = t].burn5m = event[d].burn5m
    BY <2>3 DEF TypeOK, Events
  <2> QED  BY <2>2, <2>3, <2>4, <2>5 DEF TypeOK
<1> QED  BY <1>2, <1>3

(* What an append does that does not go behind its array: the entry lies   *)
(* in cell s.len + 1, the cells before it are those of the old header.     *)
LEMMA AppendWithin ==
    ASSUME TypeOK, NEW d \in Deliveries, AppendLog(d), ~AppendsBehind(event[d].rem),
           NEW s, s = event[d].rem, NEW t, t = event'[d].rem.arr
    PROVE  /\ s.len \in Nat /\ s.arr \in Deliveries \cup {None}
           /\ t \in Deliveries /\ t \in {d, s.arr}
           /\ s.len <= Len(Cells(s.arr))
           /\ s.len + 1 <= Len(heap'[t])
           /\ heap'[t][s.len + 1] = d
           /\ \A i \in 1..s.len : heap'[t][i] = Cells(s.arr)[i]
           /\ \A i \in 1..Len(heap'[t]) :
                 \/ heap'[t][i] \in {d, None}
                 \/ i \in 1..Len(Cells(s.arr)) /\ heap'[t][i] = Cells(s.arr)[i]
           /\ t # d => Len(heap'[t]) = Len(heap[t])
           /\ \A a \in Deliveries \ {t} : heap'[a] = heap[a]
<1>1. s \in Slices /\ s.len \in Nat /\ s.cap \in Nat /\ s.arr \in Deliveries \cup {None}
  BY HeaderType
<1>2. Cells(s.arr) \in Arrays /\ Len(Cells(s.arr)) \in Nat
  BY <1>1, CellsOf
<1>3. CASE Full(s)
  <2>1. t = d
    <3>1. event' = [event EXCEPT ![d].rem = [arr |-> d, len |-> s.len + 1,
                                             cap |-> Capacity(s.len + 1, s.cap)]]
      BY <1>3 DEF AppendLog
    <3> QED  BY <3>1 DEF TypeOK, Events
  <2>2. PICK c \in Contents(s) : heap' = [heap EXCEPT ![d] = Grown(s, c, d)]
    BY <1>3 DEF AppendLog
  <2> DEFINE g == Grown(s, c, d)
  <2>3. /\ g \in Arrays /\ s.len + 1 <= Len(g) /\ g[s.len + 1] = d
        /\ \A i \in 1..s.len : g[i] = c[i]
        /\ \A i \in 1..Len(g) : i \notin 1..(s.len + 1) => g[i] = None
    BY <1>1, GrownArray
  <2>4. \A i \in 1..s.len : i <= Len(Cells(s.arr)) => c[i] = Cells(s.arr)[i]
    BY <1>1, ContentsOf
  <2>5. s.len <= Len(Cells(s.arr))
    BY <1>1, <1>2, <1>3 DEF AppendsBehind, ReadsBehind
  <2>6. heap'[d] = g /\ \A a \in Deliveries \ {d} : heap'[a] = heap[a]
    BY <2>2 DEF TypeOK
  <2> HIDE DEF g
  <2>7. \A i \in 1..s.len : g[i] = Cells(s.arr)[i] /\ i \in 1..Len(Cells(s.arr))
    BY <1>1, <1>2, <2>3, <2>4, <2>5
  <2>8. Len(g) \in Nat
    BY <2>3, ArrayCells
  <2>9. \A i \in 1..Len(g) : \/ g[i] \in {d, None}
                             \/ i \in 1..Len(Cells(s.arr)) /\ g[i] = Cells(s.arr)[i]
    <3> TAKE i \in 1..Len(g)
    <3>1. i \in 1..s.len \/ i = s.len + 1 \/ i \notin 1..(s.len + 1)
      BY <1>1, <2>8
    <3> QED  BY <2>3, <2>7, <3>1
  <2> QED  BY <1>1, <2>1, <2>3, <2>5, <2>6, <2>7, <2>9
<1>4. CASE ~Full(s)
  <2>1. t = s.arr
    <3>1. event' = [event EXCEPT ![d].rem.len = s.len + 1]
      BY <1>4 DEF AppendLog
    <3> QED  BY <3>1 DEF TypeOK, Events, Slices
  <2>2. ~WritesBehind(s) /\ s.len < Len(Cells(s.arr))
    BY <1>1, <1>2, <1>4 DEF AppendsBehind, WritesBehind
  <2>3. s.arr \in Deliveries /\ Cells(s.arr) = heap[s.arr]
    BY <1>1, <1>2, <2>2, CellsOf
  <2>4. heap' = [heap EXCEPT ![s.arr][s.len + 1] = d]
    BY <1>4, <2>2 DEF AppendLog, Placed
  <2>5. s.len + 1 \in 1..Len(heap[s.arr])
    BY <1>1, <1>2, <2>2, <2>3
  <2>6. /\ \A b \in Deliveries \ {s.arr} : heap'[b] = heap[b]
        /\ Len(heap'[s.arr]) = Len(heap[s.arr])
        /\ \A j \in 1..Len(heap[s.arr]) :
              heap'[s.arr][j] = IF j = s.len + 1 THEN d ELSE heap[s.arr][j]
    <3>1. PICK a \in Deliveries : a = s.arr
      BY <2>3
    <3>2. PICK i \in 1..Len(heap[a]) : i = s.len + 1
      BY <2>5, <3>1
    <3>3. PICK v \in Deliveries \cup {None} : v = d
      OBVIOUS
    <3>4. heap' = [heap EXCEPT ![a][i] = v]
      BY <2>4, <3>1, <3>2, <3>3
    <3>5. /\ \A b \in Deliveries \ {a} : heap'[b] = heap[b]
          /\ Len(heap'[a]) = Len(heap[a])
          /\ \A j \in 1..Len(heap[a]) : heap'[a][j] = IF j = i THEN v ELSE heap[a][j]
      BY <3>4, CellWritten DEF TypeOK
    <3> QED  BY <3>1, <3>2, <3>3, <3>5
  <2>7. \A i \in 1..s.len : i \in 1..Len(heap[s.arr]) /\ i # s.len + 1
    BY <1>1, <1>2, <2>2, <2>3
  <2> QED  BY <1>1, <1>2, <2>1, <2>2, <2>3, <2>5, <2>6, <2>7
<1> QED  BY <1>3, <1>4

-----------------------------------------------------------------------------
(* Types and backing arrays.                                               *)

LEMMA FreshFrame ==
    ASSUME Fresh,
           \A d \in Deliveries : event'[d].rem = event[d].rem,
           \A d \in Deliveries : /\ pc'[d] \in Early => pc[d] \in Early
                                 /\ pc'[d] = "save" => pc[d] = "save"
    PROVE  Fresh'
  BY DEF Fresh

LEMMA InitTypes == Init => TypeOK /\ Fresh
<1> SUFFICES ASSUME Init PROVE TypeOK /\ Fresh
  OBVIOUS
<1>1. NoResult \in Verdicts /\ 0 \in BurnLevels
  BY InputsAssumption
<1>2. << >> \in Seq(Deliveries \cup {None})
  BY EmptySeq
<1>3. TypeOK
  BY <1>1, <1>2 DEF Init, TypeOK, PCs, Outcomes, NewEvent, NilSlice, Slices, Times, Never,
     NoRule, Events, Arrays, RemediationLogs, Histories
<1>4. Fresh
  BY DeliveriesAssumption DEF Init, Fresh, NewEvent, NilSlice
<1> QED  BY <1>3, <1>4

LEMMA IdsOfDeliveries == TypeOK => \A d \in Deliveries : IdOf(d) \in Ids
  BY DEF TypeOK, IdOf, Ids

LEMMA MatchType ==
    ASSUME NEW a, NEW b
    PROVE  Match(a, b) \in RuleIndexes \cup {NoRule}
  BY MatchFound

(* What may be read of a header names the same array.                      *)
LEMMA ReadsOf ==
    ASSUME TypeOK, Fresh, NEW x \in Deliveries, NEW s \in HeaderReads(x)
    PROVE  /\ s \in Slices /\ s.arr = event[x].rem.arr
           /\ \/ s.len = event[x].rem.len
              \/ pc[x] = "append" /\ s.len = event[x].rem.len + 1
              \/ pc[x] = "save" /\ s.len = event[x].rem.len - 1
<1> DEFINE h == event[x].rem
<1>1. h \in Slices /\ h.len \in Nat /\ h.cap \in Nat
  BY HeaderType
<1>2. CASE pc[x] = "append" /\ Full(h)
  <2>1. PICK l \in {h.len, h.len + 1}, c \in {h.cap, Capacity(h.len + 1, h.cap)} :
            s = [arr |-> h.arr, len |-> l, cap |-> c]
    <3>1. s \in Words(h, {h.len, h.len + 1}, {h.cap, Capacity(h.len + 1, h.cap)})
      BY <1>2 DEF HeaderReads
    <3> QED  BY <3>1 DEF Words
  <2>2. l \in Nat /\ c \in Nat
    <3>1. h.len + 1 \in Nat
      BY <1>1
    <3>2. Capacity(h.len + 1, h.cap) \in Nat
      BY <1>1, <3>1, CapacityOf, Zenon
    <3> QED  BY <1>1, <2>1, <3>1, <3>2
  <2>3. s \in Slices /\ s.arr = h.arr /\ s.len = l
    BY <1>1, <2>1, <2>2 DEF Slices
  <2> QED  BY <1>2, <2>1, <2>3
<1>3. CASE pc[x] = "save" /\ h.arr = x
  <2>0. OldCaps(h) \subseteq Nat /\ pc[x] # "append"
    BY <1>1, <1>3 DEF OldCaps
  <2>1. PICK l \in {h.len - 1, h.len}, c \in {h.cap} \cup OldCaps(h) :
            s = [arr |-> h.arr, len |-> l, cap |-> c]
    <3>1. s \in Words(h, {h.len - 1, h.len}, {h.cap} \cup OldCaps(h))
      BY <1>3, <2>0 DEF HeaderReads
    <3> QED  BY <3>1 DEF Words
  <2>2. l \in Nat /\ c \in Nat
    BY <1>1, <1>3, <2>0, <2>1 DEF Fresh
  <2>3. s \in Slices /\ s.arr = h.arr /\ s.len = l
    BY <1>1, <2>1, <2>2 DEF Slices
  <2> QED  BY <1>3, <2>1, <2>3
<1>4. CASE ~(pc[x] = "append" /\ Full(h)) /\ ~(pc[x] = "save" /\ h.arr = x)
  <2>1. s = h
    BY <1>4 DEF HeaderReads
  <2> QED  BY <1>1, <2>1
<1> QED  BY <1>2, <1>3, <1>4

LEMMA TypeNext == TypeOK /\ Fresh /\ [Next]_vars => TypeOK' /\ Fresh'
<1> SUFFICES ASSUME TypeOK, Fresh, [Next]_vars PROVE TypeOK' /\ Fresh'
  OBVIOUS
<1> USE DEF GoTo, Early
<1>1. ASSUME NEW d \in Deliveries, Refuse(d) PROVE TypeOK' /\ Fresh'
  <2>1. TypeOK'
    BY <1>1 DEF Refuse, TypeOK, PCs
  <2> QED  BY <1>1, <2>1, FreshFrame DEF Refuse, TypeOK
<1>2. ASSUME NEW d \in Deliveries, Receive(d) PROVE TypeOK' /\ Fresh'
  <2>1. PICK b \in BurnLevels : event' = [event EXCEPT ![d].burn5m = b]
    BY <1>2 DEF Receive
  <2>2. [event[d] EXCEPT !.burn5m = b] \in Events /\ [hist[d] EXCEPT !.life = restarts] \in Histories
    <3>1. event[d] \in Events /\ hist[d] \in Histories /\ restarts \in Nat
      BY DEF TypeOK
    <3> QED  BY <3>1 DEF Events, Histories
  <2>3. event' \in [Deliveries -> Events] /\ hist' \in [Deliveries -> Histories]
    BY <1>2, <2>1, <2>2 DEF Receive, TypeOK
  <2>4. TypeOK'
    BY <1>2, <2>3 DEF Receive, TypeOK, PCs
  <2>5. \A e \in Deliveries : event'[e].rem = event[e].rem
    BY <2>1 DEF TypeOK, Events
  <2> QED  BY <1>2, <2>4, <2>5, FreshFrame DEF Receive, TypeOK
<1>3. ASSUME NEW d \in Deliveries, TriageGet(d) PROVE TypeOK' /\ Fresh'
  <2> DEFINE x == Existing(d)
  <2>1. x \in Deliveries \cup {None}
    BY IdsOfDeliveries DEF Existing, TypeOK
  <2>2. /\ UNCHANGED << req, heap, log, store, last, now, draft, restarts >>
        /\ pc[d] = "get" /\ pc' = [pc EXCEPT ![d] = "put"]
    BY <1>3 DEF TriageGet
  <2>3. hist' \in [Deliveries -> Histories]
    <3> DEFINE others == {e \in Deliveries \ {d} : IdOf(e) = IdOf(d) /\ pc[e] \in Writing}
               over(e) == CASE e = d -> others
                            [] e \in others -> hist[e].overlaps \cup {d}
                            [] OTHER -> hist[e].overlaps
               from(e) == IF e = d THEN x ELSE hist[e].from
               alone == {b \in Deliveries : IdOf(b) = IdOf(d) /\ SettledAlone(b)}
               before(e) == IF e = d THEN alone ELSE hist[e].before
    <3>1. hist' = [e \in Deliveries |-> [hist[e] EXCEPT !.from = from(e),
                                          !.before = before(e), !.overlaps = over(e)]]
      BY <1>3 DEF TriageGet, TypeOK, Histories
    <3>2. ASSUME NEW e \in Deliveries
          PROVE  [hist[e] EXCEPT !.from = from(e), !.before = before(e),
                                 !.overlaps = over(e)] \in Histories
      <4>1. hist[e] \in Histories
        BY DEF TypeOK
      <4>2. over(e) \in SUBSET Deliveries
        BY <4>1 DEF Histories
      <4>3. from(e) \in Deliveries \cup {None}
        BY <2>1, <4>1 DEF Histories
      <4>4. before(e) \in SUBSET Deliveries
        BY <4>1 DEF Histories
      <4> HIDE DEF over, from, before
      <4> QED  BY <4>1, <4>2, <4>3, <4>4 DEF Histories
    <3> HIDE DEF over, from, before
    <3> QED  BY <3>1, <3>2
  <2>4. CASE event' = event
    <3>1. TypeOK'
      BY <2>2, <2>3, <2>4 DEF TypeOK, PCs
    <3> QED  BY <2>2, <2>4, <3>1, FreshFrame DEF TypeOK
  <2>5. CASE event' # event
    <3>1. PICK s \in HeaderReads(x) :
             event' = [event EXCEPT ![d].llm = event[x].llm, ![d].rem = s]
      BY <1>3, <2>5 DEF TriageGet
    <3>2. x \in Deliveries
      BY <1>3, <2>1, <2>5 DEF TriageGet
    <3> HIDE DEF x
    <3>3. event[x].llm \in Verdicts /\ s \in Slices /\ s.arr = event[x].rem.arr
      BY <3>1, <3>2, ReadsOf DEF TypeOK, Events
    <3>4. event' \in [Deliveries -> Events]
      <4>1. [event[d] EXCEPT !.llm = event[x].llm, !.rem = s] \in Events
        <5>1. event[d] \in Events
          BY DEF TypeOK
        <5> QED  BY <3>3, <5>1 DEF Events
      <4>2. event' = [event EXCEPT ![d] = [event[d] EXCEPT !.llm = event[x].llm, !.rem = s]]
        BY <3>1 DEF TypeOK
      <4> QED  BY <4>1, <4>2 DEF TypeOK
    <3>5. TypeOK'
      BY <2>2, <2>3, <3>4 DEF TypeOK, PCs
    <3>6. \A e \in Deliveries : event'[e].rem = IF e = d THEN s ELSE event[e].rem
      BY <3>1 DEF TypeOK, Events
    <3>7. /\ \A a \in Deliveries : pc'[a] \in Early => pc[a] \in Early
          /\ \A a \in Deliveries : pc'[a] = "save" => pc[a] = "save" /\ a # d
      BY <2>2 DEF TypeOK
    <3>8. Fresh'
      <4>1. \A a, e \in Deliveries : pc'[a] \in Early => event'[e].rem.arr # a
        <5>1. \A a \in Deliveries : pc[a] \in Early => s.arr # a
          BY <3>2, <3>3 DEF Fresh
        <5>2. \A a, e \in Deliveries : pc[a] \in Early => event'[e].rem.arr # a
          BY <3>6, <5>1 DEF Fresh
        <5> HIDE DEF Early
        <5> QED  BY <3>7, <5>2
      <4>2. \A e \in Deliveries : pc'[e] = "save" => event'[e].rem.len > 0
        BY <3>6, <3>7 DEF Fresh
      <4> HIDE DEF Early
      <4> QED  BY <4>1, <4>2 DEF Fresh
    <3> QED  BY <3>5, <3>8
  <2> QED  BY <2>4, <2>5
<1>4. ASSUME NEW d \in Deliveries, TriagePut(d) PROVE TypeOK' /\ Fresh'
  <2>1. TypeOK'
    BY <1>4, IdsOfDeliveries DEF TriagePut, Upsert, TypeOK, PCs
  <2> QED  BY <1>4, <2>1, FreshFrame DEF TriagePut, TypeOK
<1>5. ASSUME NEW d \in Deliveries, Infer(d) PROVE TypeOK' /\ Fresh'
  <2>1. PICK v \in Verdicts : /\ event' = [event EXCEPT ![d].llm = v]
                             /\ hist' = [hist EXCEPT ![d].verdict = v]
    BY <1>5 DEF Infer, Assigned
  <2>2. [event[d] EXCEPT !.llm = v] \in Events /\ [hist[d] EXCEPT !.verdict = v] \in Histories
    <3>1. event[d] \in Events /\ hist[d] \in Histories
      BY DEF TypeOK
    <3> QED  BY <3>1 DEF Events, Histories
  <2>3. event' \in [Deliveries -> Events] /\ hist' \in [Deliveries -> Histories]
    BY <2>1, <2>2 DEF TypeOK
  <2>4. TypeOK'
    BY <1>5, <2>3, IdsOfDeliveries DEF Infer, Upsert, TypeOK, PCs
  <2>5. \A e \in Deliveries : event'[e].rem = event[e].rem
    BY <2>1 DEF TypeOK, Events
  <2> QED  BY <1>5, <2>4, <2>5, FreshFrame DEF Infer, TypeOK
<1>6. ASSUME NEW d \in Deliveries, Check(d) PROVE TypeOK' /\ Fresh'
  <2>1. RuleOf(d) \in RuleIndexes \cup {NoRule}
    BY MatchType DEF RuleOf
  <2>2. Guard(d) \in Outcomes
    BY DEF Guard, Outcomes
  <2>3. (IF req[d].chaos THEN NoRule ELSE RuleOf(d)) \in RuleIndexes \cup {NoRule}
    BY <2>1
  <2>4. log' \in [Deliveries -> RemediationLogs]
    BY <1>6, <2>2, <2>3 DEF Check, TypeOK, RemediationLogs
  <2>5. hist' \in [Deliveries -> Histories]
    <3> DEFINE seen == {e \in Deliveries : hist[e].markedAt # Never /\ hist[e].life = restarts}
    <3>1. [hist[d] EXCEPT !.seen = seen] \in Histories
      <4>1. hist[d] \in Histories /\ seen \in SUBSET Deliveries
        BY DEF TypeOK
      <4> HIDE DEF seen
      <4> QED  BY <4>1 DEF Histories
    <3>2. hist' = [hist EXCEPT ![d] = [hist[d] EXCEPT !.seen = seen]]
      BY <1>6 DEF Check, TypeOK
    <3> QED  BY <3>1, <3>2 DEF TypeOK
  <2>6. pc' \in [Deliveries -> PCs]
    BY <1>6 DEF Check, TypeOK, PCs
  <2>7. TypeOK'
    BY <1>6, <2>4, <2>5, <2>6 DEF Check, TypeOK
  <2> QED  BY <1>6, <2>7, FreshFrame DEF Check, TypeOK
<1>7. ASSUME NEW d \in Deliveries, Mark(d) PROVE TypeOK' /\ Fresh'
  <2>1. now \in Times
    BY DEF TypeOK, Times
  <2>2. [hist[d] EXCEPT !.markedAt = now] \in Histories
    <3>1. hist[d] \in Histories
      BY DEF TypeOK
    <3> QED  BY <2>1, <3>1 DEF Histories
  <2>3. hist' \in [Deliveries -> Histories] /\ last' \in [Ids \X RuleIndexes -> Times]
    BY <1>7, <2>1, <2>2 DEF Mark, TypeOK
  <2>4. TypeOK'
    BY <1>7, <2>3 DEF Mark, TypeOK, PCs
  <2> QED  BY <1>7, <2>4, FreshFrame DEF Mark, TypeOK
<1>8. ASSUME NEW d \in Deliveries, Act(d) PROVE TypeOK' /\ Fresh'
  <2>1. log' \in [Deliveries -> RemediationLogs]
    <3>1. PICK o \in {"executed", "failed"} : log' = [log EXCEPT ![d].outcome = o]
      BY <1>8 DEF Act, ExecutorResults
    <3>2. [log[d] EXCEPT !.outcome = o] \in RemediationLogs
      BY DEF TypeOK, RemediationLogs, Outcomes
    <3> QED  BY <3>1, <3>2 DEF TypeOK
  <2>2. TypeOK'
    BY <1>8, <2>1 DEF Act, ExecutorResults, TypeOK, PCs
  <2> QED  BY <1>8, <2>2, FreshFrame DEF Act, ExecutorResults, TypeOK
<1>9. ASSUME NEW d \in Deliveries, AppendLog(d) PROVE TypeOK' /\ Fresh'
  <2>1. /\ event' \in [Deliveries -> Events]
        /\ heap' \in [Deliveries -> Arrays]
        /\ event'[d].rem.len = event[d].rem.len + 1
        /\ event'[d].rem.arr \in {d, event[d].rem.arr}
        /\ \A e \in Deliveries \ {d} : event'[e] = event[e]
    BY <1>9, AppendTypes
  <2>2. [hist[d] EXCEPT !.stray = hist[d].stray \/ AppendsBehind(event[d].rem)] \in Histories
    <3>1. hist[d] \in Histories /\ (hist[d].stray \/ AppendsBehind(event[d].rem)) \in BOOLEAN
      BY DEF TypeOK, Histories
    <3> QED  BY <3>1 DEF Histories
  <2>3. hist' \in [Deliveries -> Histories]
    BY <1>9, <2>2 DEF AppendLog, TypeOK
  <2>4. TypeOK'
    BY <1>9, <2>1, <2>3 DEF AppendLog, TypeOK, PCs
  <2>5. pc[d] = "append" /\ pc' = [pc EXCEPT ![d] = "save"]
    BY <1>9 DEF AppendLog
  <2>6. event[d].rem.len \in Nat
    BY HeaderType
  <2>7. \A a \in Deliveries : pc'[a] = IF a = d THEN "save" ELSE pc[a]
    BY <2>5 DEF TypeOK
  <2>8. \A a, e \in Deliveries : pc'[a] \in Early => event'[e].rem.arr # a
    BY <2>1, <2>5, <2>7 DEF Fresh
  <2>9. \A e \in Deliveries : pc'[e] = "save" => event'[e].rem.len > 0
    BY <2>1, <2>6, <2>7 DEF Fresh
  <2> HIDE DEF Early
  <2> QED  BY <2>4, <2>8, <2>9 DEF Fresh
<1>10. ASSUME NEW d \in Deliveries, SaveLog(d) PROVE TypeOK' /\ Fresh'
  <2>1. TypeOK'
    BY <1>10, IdsOfDeliveries DEF SaveLog, Upsert, TypeOK, PCs
  <2> QED  BY <1>10, <2>1, FreshFrame DEF SaveLog, TypeOK
<1>11. ASSUME NEW d \in Deliveries, GeneratePostmortem(d) PROVE TypeOK' /\ Fresh'
  <2> DEFINE s == event[d].rem
  <2>1. draft' \in [Ids -> SUBSET (Deliveries \cup {None})]
    <3>1. CASE draft' = draft
      BY <3>1 DEF TypeOK
    <3>2. CASE draft' # draft
      <4>1. PICK c \in Contents(s) :
                draft' = [draft EXCEPT ![IdOf(d)] = {c[i] : i \in 1..s.len}]
        BY <1>11, <3>2 DEF GeneratePostmortem
      <4>2. c \in [1..s.len -> Deliveries \cup {None}]
        BY HeaderType, ContentsOf
      <4> HIDE DEF s
      <4>3. {c[i] : i \in 1..s.len} \in SUBSET (Deliveries \cup {None})
        BY <4>2
      <4> QED  BY <4>1, <4>3 DEF TypeOK
    <3> QED  BY <3>1, <3>2
  <2>2. [hist[d] EXCEPT !.stray = hist[d].stray \/ ReadsBehind(s)] \in Histories
    <3>1. hist[d] \in Histories /\ (hist[d].stray \/ ReadsBehind(s)) \in BOOLEAN
      BY DEF TypeOK, Histories
    <3> QED  BY <3>1 DEF Histories
  <2>3. hist' \in [Deliveries -> Histories]
    BY <1>11, <2>2 DEF GeneratePostmortem, TypeOK
  <2>4. TypeOK'
    BY <1>11, <2>1, <2>3 DEF GeneratePostmortem, TypeOK, PCs
  <2> QED  BY <1>11, <2>4, FreshFrame DEF GeneratePostmortem, TypeOK
<1>12. ASSUME StartAnew PROVE TypeOK' /\ Fresh'
  <2>1. TypeOK'
    BY <1>12 DEF StartAnew, TypeOK, PCs, Times, Never
  <2> QED  BY <1>12, <2>1, FreshFrame DEF StartAnew, TypeOK
<1>13. ASSUME Advance PROVE TypeOK' /\ Fresh'
  <2>1. TypeOK'
    BY <1>13, BoundsAssumption DEF Advance, TypeOK
  <2> QED  BY <1>13, <2>1, FreshFrame DEF Advance, TypeOK
<1>14. CASE UNCHANGED vars
  <2>1. TypeOK'
    BY <1>14 DEF vars, TypeOK
  <2> QED  BY <1>14, <2>1, FreshFrame DEF vars
<1> QED
  BY <1>1, <1>2, <1>3, <1>4, <1>5, <1>6, <1>7, <1>8, <1>9, <1>10, <1>11, <1>12, <1>13, <1>14
     DEF Next, Process, Fault, Restart

-----------------------------------------------------------------------------
(* Events keep apart.                                                      *)

(* Triage writes only who was found, what was settled and who overlaps     *)
(* into the history.                                                       *)
LEMMA TriageGetHistory ==
    ASSUME TypeOK, NEW d \in Deliveries, TriageGet(d)
    PROVE  \A e \in Deliveries :
              /\ hist'[e].life = hist[e].life
              /\ hist'[e].verdict = hist[e].verdict
              /\ hist'[e].markedAt = hist[e].markedAt
              /\ hist'[e].seen = hist[e].seen
              /\ hist'[e].stray = hist[e].stray
              /\ hist'[e].from = IF e = d THEN Existing(d) ELSE hist[e].from
              /\ hist'[e].before = IF e = d
                                   THEN {b \in Deliveries : IdOf(b) = IdOf(d) /\ SettledAlone(b)}
                                   ELSE hist[e].before
<1> DEFINE others == {e \in Deliveries \ {d} : IdOf(e) = IdOf(d) /\ pc[e] \in Writing}
           over(e) == CASE e = d -> others
                        [] e \in others -> hist[e].overlaps \cup {d}
                        [] OTHER -> hist[e].overlaps
           from(e) == IF e = d THEN Existing(d) ELSE hist[e].from
           alone == {b \in Deliveries : IdOf(b) = IdOf(d) /\ SettledAlone(b)}
           before(e) == IF e = d THEN alone ELSE hist[e].before
<1>1. hist' = [e \in Deliveries |-> [hist[e] EXCEPT !.from = from(e), !.before = before(e),
                                                    !.overlaps = over(e)]]
  BY DEF TriageGet, TypeOK, Histories
<1>2. \A e \in Deliveries : /\ from(e) = IF e = d THEN Existing(d) ELSE hist[e].from
                            /\ before(e) = IF e = d THEN alone ELSE hist[e].before
  OBVIOUS
<1> HIDE DEF over, from, before, alone
<1>3. TAKE e \in Deliveries
<1>4. /\ hist[e] \in Histories
      /\ hist'[e] = [hist[e] EXCEPT !.from = from(e), !.before = before(e), !.overlaps = over(e)]
  BY <1>1 DEF TypeOK
<1>5. /\ hist'[e].life = hist[e].life /\ hist'[e].verdict = hist[e].verdict
      /\ hist'[e].markedAt = hist[e].markedAt /\ hist'[e].seen = hist[e].seen
      /\ hist'[e].stray = hist[e].stray
      /\ hist'[e].from = from(e) /\ hist'[e].before = before(e)
  BY <1>4 DEF Histories
<1> QED  BY <1>2, <1>5 DEF alone

(* The other steps write the history of their own delivery.                *)
LEMMA AppendHistory ==
    ASSUME TypeOK, NEW d \in Deliveries, AppendLog(d) \/ GeneratePostmortem(d)
    PROVE  \A e \in Deliveries :
              /\ hist'[e].life = hist[e].life
              /\ hist'[e].from = hist[e].from
              /\ hist'[e].verdict = hist[e].verdict
              /\ hist'[e].markedAt = hist[e].markedAt
              /\ hist'[e].seen = hist[e].seen
              /\ hist'[e].overlaps = hist[e].overlaps
              /\ hist'[e].before = hist[e].before
              /\ hist[e].stray => hist'[e].stray
  BY DEF AppendLog, GeneratePostmortem, TypeOK, Histories

(* An access behind an array is not forgotten.                             *)
LEMMA StrayStays == ASSUME TypeOK, [Next]_vars, Stray PROVE Stray'
<1>1. PICK e \in Deliveries : hist[e].stray
  BY DEF Stray
<1>2. hist'[e].stray
  <2>1. hist[e] \in Histories
    BY DEF TypeOK
  <2>2. ASSUME NEW d \in Deliveries, Receive(d) PROVE hist'[e].stray
    BY <1>1, <2>1, <2>2 DEF Receive, TypeOK, Histories
  <2>3. ASSUME NEW d \in Deliveries, TriageGet(d) PROVE hist'[e].stray
    BY <1>1, <2>3, TriageGetHistory
  <2>4. ASSUME NEW d \in Deliveries, Infer(d) PROVE hist'[e].stray
    BY <1>1, <2>1, <2>4 DEF Infer, TypeOK, Histories
  <2>5. ASSUME NEW d \in Deliveries, Check(d) PROVE hist'[e].stray
    BY <1>1, <2>1, <2>5 DEF Check, TypeOK, Histories
  <2>6. ASSUME NEW d \in Deliveries, Mark(d) PROVE hist'[e].stray
    BY <1>1, <2>1, <2>6 DEF Mark, TypeOK, Histories
  <2>7. ASSUME NEW d \in Deliveries, AppendLog(d) \/ GeneratePostmortem(d)
        PROVE  hist'[e].stray
    BY <1>1, <2>7, AppendHistory
  <2>8. CASE hist' = hist
    BY <1>1, <2>8
  <2> QED  BY <2>2, <2>3, <2>4, <2>5, <2>6, <2>7, <2>8
           DEF Next, Process, Fault, Restart, StartAnew, Advance, Refuse, TriagePut, Act,
               SaveLog, vars
<1> QED  BY <1>2 DEF Stray

LEMMA AppendNotStray ==
    ASSUME TypeOK, NEW d \in Deliveries, AppendLog(d), ~Stray'
    PROVE  ~AppendsBehind(event[d].rem)
<1>1. hist'[d].stray = (hist[d].stray \/ AppendsBehind(event[d].rem))
  BY DEF AppendLog, TypeOK, Histories
<1> QED  BY <1>1 DEF Stray

LEMMA DraftNotStray ==
    ASSUME TypeOK, NEW d \in Deliveries, GeneratePostmortem(d), ~Stray'
    PROVE  ~ReadsBehind(event[d].rem)
<1>1. hist'[d].stray = (hist[d].stray \/ ReadsBehind(event[d].rem))
  BY DEF GeneratePostmortem, TypeOK, Histories
<1> QED  BY <1>1 DEF Stray

LEMMA InitOwn == Init => OwnEvent
  BY EmptySeq DEF Init, OwnEvent, OwnPointers, OwnEntries, NewEvent, NilSlice

LEMMA OwnFrame ==
    ASSUME OwnEvent, UNCHANGED << req, heap, draft >>, Stray => Stray',
           \A id \in Ids : store'[id] # None => IdOf(store'[id]) = id,
           \A d \in Deliveries : event'[d].rem.arr # None => IdOf(event'[d].rem.arr) = IdOf(d)
    PROVE  OwnEvent'
  BY DEF OwnEvent, OwnPointers, OwnEntries, IdOf

LEMMA UpsertOwn ==
    ASSUME TypeOK, OwnEvent, NEW d \in Deliveries, Upsert(d)
    PROVE  \A id \in Ids : store'[id] # None => IdOf(store'[id]) = id
  BY IdsOfDeliveries DEF TypeOK, OwnEvent, OwnPointers, Upsert

LEMMA EntriesOwn ==
    ASSUME TypeOK, OwnEvent, ~Stray, NEW d \in Deliveries,
           NEW i \in 1..Len(Cells(event[d].rem.arr)),
           Cells(event[d].rem.arr)[i] # None
    PROVE  IdOf(Cells(event[d].rem.arr)[i]) = IdOf(d)
<1> DEFINE arr == event[d].rem.arr
<1>1. arr \in Deliveries \cup {None}
  BY HeaderType
<1>2. arr # None /\ Cells(arr) = heap[arr] /\ arr \in Deliveries
  <2>1. Len(Cells(arr)) # 0
    BY <1>1, CellsOf
  <2> QED  BY <1>1, <2>1, CellsOf
<1> QED  BY <1>2 DEF OwnEvent, OwnPointers, OwnEntries

LEMMA AppendOwn ==
    ASSUME TypeOK, Fresh, OwnEvent, NEW d \in Deliveries, AppendLog(d), Stray => Stray'
    PROVE  OwnEvent'
<1> DEFINE s == event[d].rem
           t == event'[d].rem.arr
<1>1. UNCHANGED << req, store, draft >> /\ \A x : IdOf(x)' = IdOf(x)
  BY DEF AppendLog, IdOf
<1>2. OwnPointers'
  <2>1. \A e \in Deliveries \ {d} : event'[e] = event[e]
    BY AppendTypes
  <2>2. t \in {d, s.arr}
    BY AppendTypes
  <2>3. t # None => IdOf(t) = IdOf(d)
    BY <2>2 DEF OwnEvent, OwnPointers
  <2> QED  BY <1>1, <2>1, <2>3 DEF OwnEvent, OwnPointers
<1>3. ASSUME ~Stray' PROVE OwnEntries'
  <2>1. ~Stray /\ ~AppendsBehind(s)
    BY <1>3, AppendNotStray
  <2>2. /\ t \in Deliveries /\ t \in {d, s.arr}
        /\ \A i \in 1..Len(heap'[t]) :
              \/ heap'[t][i] \in {d, None}
              \/ i \in 1..Len(Cells(s.arr)) /\ heap'[t][i] = Cells(s.arr)[i]
        /\ \A a \in Deliveries \ {t} : heap'[a] = heap[a]
    BY <2>1, AppendWithin
  <2>3. IdOf(t) = IdOf(d)
    BY <2>2, DeliveriesAssumption DEF OwnEvent, OwnPointers
  <2>4. ASSUME NEW i \in 1..Len(heap'[t]), heap'[t][i] # None PROVE IdOf(heap'[t][i]) = IdOf(t)
    BY <2>1, <2>2, <2>3, <2>4, EntriesOwn
  <2> HIDE DEF s, t
  <2> QED  BY <1>1, <2>1, <2>2, <2>4 DEF OwnEvent, OwnEntries
<1> QED  BY <1>2, <1>3 DEF OwnEvent

LEMMA DraftOwn ==
    ASSUME TypeOK, OwnEvent, NEW d \in Deliveries, GeneratePostmortem(d), Stray => Stray'
    PROVE  OwnEvent'
<1> DEFINE s == event[d].rem
<1>1. UNCHANGED << req, event, heap, store >> /\ \A x : IdOf(x)' = IdOf(x)
  BY DEF GeneratePostmortem, IdOf
<1>2. ASSUME ~Stray' PROVE \A id \in Ids : \A e \in draft'[id] \ {None} : IdOf(e) = id
  <2>1. ~Stray /\ ~ReadsBehind(s)
    BY <1>2, DraftNotStray
  <2>2. CASE draft' = draft
    BY <2>1, <2>2 DEF OwnEvent, OwnEntries
  <2>3. CASE draft' # draft
    <3>1. PICK c \in Contents(s) :
              draft' = [draft EXCEPT ![IdOf(d)] = {c[i] : i \in 1..s.len}]
      BY <2>3 DEF GeneratePostmortem
    <3>2. /\ s.len \in Nat /\ s.arr \in Deliveries \cup {None}
          /\ \A i \in 1..s.len : i <= Len(Cells(s.arr)) => c[i] = Cells(s.arr)[i]
      BY HeaderType, ContentsOf
    <3>3. s.len <= Len(Cells(s.arr)) /\ Len(Cells(s.arr)) \in Nat
      BY <2>1, <3>2, CellsOf DEF ReadsBehind
    <3>4. \A i \in 1..s.len : i \in 1..Len(Cells(s.arr)) /\ c[i] = Cells(s.arr)[i]
      BY <3>2, <3>3
    <3>5. \A i \in 1..s.len : c[i] # None => IdOf(c[i]) = IdOf(d)
      BY <2>1, <3>4, EntriesOwn
    <3> QED  BY <2>1, <3>1, <3>5 DEF TypeOK, OwnEvent, OwnEntries
  <2> QED  BY <2>2, <2>3
<1> QED  BY <1>1, <1>2 DEF OwnEvent, OwnPointers, OwnEntries

LEMMA OwnNext == TypeOK /\ Fresh /\ OwnEvent /\ [Next]_vars => OwnEvent'
<1> SUFFICES ASSUME TypeOK, Fresh, OwnEvent, [Next]_vars PROVE OwnEvent'
  OBVIOUS
<1>0. Stray => Stray'
  BY StrayStays
<1>1. ASSUME NEW d \in Deliveries, Receive(d) PROVE OwnEvent'
  <2>1. \A e \in Deliveries : event'[e].rem = event[e].rem
    BY <1>1 DEF Receive, TypeOK, Events
  <2> QED  BY <1>0, <1>1, <2>1, OwnFrame DEF Receive, OwnEvent, OwnPointers
<1>2. ASSUME NEW d \in Deliveries, TriageGet(d) PROVE OwnEvent'
  <2> DEFINE x == Existing(d)
  <2>1. x \in Deliveries \cup {None} /\ (x # None => IdOf(x) = IdOf(d))
    BY IdsOfDeliveries DEF Existing, TypeOK, OwnEvent, OwnPointers
  <2>2. UNCHANGED << req, heap, store, draft >>
    BY <1>2 DEF TriageGet
  <2>3. CASE event' = event
    BY <1>0, <2>2, <2>3, OwnFrame DEF OwnEvent, OwnPointers
  <2>4. CASE event' # event
    <3>1. x # None
      BY <1>2, <2>4 DEF TriageGet
    <3>2. PICK s \in HeaderReads(x) :
             event' = [event EXCEPT ![d].llm = event[x].llm, ![d].rem = s]
      BY <1>2, <2>4 DEF TriageGet
    <3> HIDE DEF x
    <3>3. s.arr = event[x].rem.arr
      BY <2>1, <3>1, <3>2, ReadsOf
    <3>4. \A e \in Deliveries : event'[e].rem = IF e = d THEN s ELSE event[e].rem
      BY <3>2 DEF TypeOK, Events
    <3>5. s.arr # None => IdOf(s.arr) = IdOf(d)
      BY <2>1, <3>1, <3>3 DEF OwnEvent, OwnPointers
    <3>6. \A e \in Deliveries : event'[e].rem.arr # None => IdOf(event'[e].rem.arr) = IdOf(e)
      BY <3>4, <3>5 DEF OwnEvent, OwnPointers
    <3> QED  BY <1>0, <2>2, <3>6, OwnFrame DEF OwnEvent, OwnPointers
  <2> QED  BY <2>3, <2>4
<1>3. ASSUME NEW d \in Deliveries, TriagePut(d) \/ SaveLog(d) PROVE OwnEvent'
  BY <1>0, <1>3, UpsertOwn, OwnFrame DEF TriagePut, SaveLog, OwnEvent, OwnPointers
<1>4. ASSUME NEW d \in Deliveries, Infer(d) PROVE OwnEvent'
  <2>1. \A e \in Deliveries : event'[e].rem = event[e].rem
    BY <1>4 DEF Infer, Assigned, TypeOK, Events
  <2>2. UNCHANGED << req, heap, draft >> /\ Upsert(d)
    BY <1>4 DEF Infer
  <2> QED  BY <1>0, <2>1, <2>2, UpsertOwn, OwnFrame DEF OwnEvent, OwnPointers
<1>5. ASSUME NEW d \in Deliveries, GeneratePostmortem(d) PROVE OwnEvent'
  BY <1>0, <1>5, DraftOwn
<1>6. CASE StartAnew
  BY <1>0, <1>6, OwnFrame DEF StartAnew, OwnEvent, OwnPointers
<1>7. CASE UNCHANGED << req, event, heap, store, draft >>
  BY <1>0, <1>7, OwnFrame DEF OwnEvent, OwnPointers
<1>8. ASSUME NEW d \in Deliveries, AppendLog(d) PROVE OwnEvent'
  BY <1>0, <1>8, AppendOwn
<1> QED
  BY <1>1, <1>2, <1>3, <1>4, <1>5, <1>6, <1>7, <1>8
     DEF Next, Process, Fault, Restart, Refuse, Check, Mark, Act, ExecutorResults, Advance, vars

-----------------------------------------------------------------------------
(* What a delivery knows of itself.                                        *)

LEMMA GuardPassed ==
    ASSUME TypeOK, NEW d \in Deliveries, Guard(d) = "none"
    PROVE  /\ ~req[d].chaos
           /\ RuleOf(d) \in RuleIndexes
           /\ ~InCooldown(IdOf(d), RuleOf(d))
           /\ Rules[RuleOf(d)].dangerous => ConfirmsRollback(event[d].llm) /\ ~DryRun
<1>1. RuleOf(d) \in RuleIndexes \cup {NoRule}
  BY MatchType DEF RuleOf
<1> QED  BY <1>1 DEF Guard

(* A step of d that leaves every delivery's history alone, but for its     *)
(* overlaps.                                                               *)
LEMMA ProgressFrame ==
    ASSUME TypeOK, Progress, UNCHANGED << req, restarts >>, NEW d \in Deliveries,
           \A e \in Deliveries \ {d} : pc'[e] = pc[e],
           \A e \in Deliveries :
              /\ hist'[e].life = hist[e].life
              /\ hist'[e].markedAt = hist[e].markedAt
              /\ hist'[e].seen = hist[e].seen
              /\ log'[e].rule = log[e].rule,
           pc'[d] \in Unmarked \ {"mark"} => pc[d] \in Unmarked \ {"mark"},
           pc'[d] \in InFlight => pc[d] \in InFlight,
           pc'[d] \in Processing => ~Resolved(d),
           pc'[d] \notin {"mark", "act"}
    PROVE  Progress'
<1>1. \A e \in Deliveries : Marked(e)' = Marked(e) /\ Resolved(e)' = Resolved(e)
  BY DEF Marked, Resolved
<1>2. \A e \in Deliveries : hist[e].seen \subseteq Deliveries
  BY DEF TypeOK, Histories
<1>3. ProgressOf(d)'
  BY <1>1, <1>2 DEF Progress, ProgressOf, Unmarked
<1>4. ASSUME NEW e \in Deliveries, e # d PROVE ProgressOf(e)'
  BY <1>1, <1>2, <1>4 DEF Progress, ProgressOf
<1> QED  BY <1>3, <1>4 DEF Progress

LEMMA ProgressNext == TypeOK /\ Progress /\ [Next]_vars => Progress'
<1> SUFFICES ASSUME TypeOK, Progress, [Next]_vars PROVE Progress'
  OBVIOUS
<1>0. \A e \in Deliveries : hist[e].seen \subseteq Deliveries
  BY DEF TypeOK, Histories
<1> USE DEF GoTo, Unmarked, Processing, InFlight, Writing
<1>1. ASSUME NEW d \in Deliveries, Refuse(d) PROVE Progress'
  <2>1. /\ \A e \in Deliveries \ {d} : pc'[e] = pc[e]
        /\ pc'[d] = "refused" /\ UNCHANGED << req, restarts, hist, log >>
    BY <1>1 DEF Refuse, TypeOK
  <2> QED  BY <2>1, ProgressFrame
<1>2. ASSUME NEW d \in Deliveries, Receive(d) PROVE Progress'
  <2>1. \A e \in Deliveries : pc'[e] = IF e = d THEN "get" ELSE pc[e]
    BY <1>2 DEF Receive, TypeOK
  <2>2. \A e \in Deliveries : /\ hist'[e].life = IF e = d THEN restarts ELSE hist[e].life
                              /\ hist'[e].markedAt = hist[e].markedAt
                              /\ hist'[e].seen = hist[e].seen
    BY <1>2 DEF Receive, TypeOK, Histories
  <2>3. \A e \in Deliveries : Marked(e)' = Marked(e) /\ Resolved(e)' = Resolved(e)
    BY <1>2, <2>2 DEF Receive, Marked, Resolved
  <2>4. pc[d] = "wire" /\ UNCHANGED << log, restarts >> /\ restarts \in Nat
    BY <1>2 DEF Receive, TypeOK
  <2> QED  BY <1>0, <2>1, <2>2, <2>3, <2>4 DEF Progress, ProgressOf
<1>3. ASSUME NEW d \in Deliveries, TriageGet(d) PROVE Progress'
  <2>1. /\ \A e \in Deliveries \ {d} : pc'[e] = pc[e]
        /\ pc[d] = "get" /\ pc'[d] = "put" /\ UNCHANGED << req, restarts, log >>
    BY <1>3 DEF TriageGet, TypeOK
  <2> QED  BY <1>3, <2>1, TriageGetHistory, ProgressFrame
<1>4. ASSUME NEW d \in Deliveries, TriagePut(d) PROVE Progress'
  <2>1. /\ \A e \in Deliveries \ {d} : pc'[e] = pc[e]
        /\ pc[d] = "put" /\ pc'[d] = IF Resolved(d) THEN "rca" ELSE "infer"
        /\ UNCHANGED << req, restarts, log, hist >>
    BY <1>4 DEF TriagePut, TypeOK
  <2> QED  BY <2>1, ProgressFrame
<1>5. ASSUME NEW d \in Deliveries, Infer(d) PROVE Progress'
  <2>1. \A e \in Deliveries : /\ hist'[e].life = hist[e].life
                              /\ hist'[e].markedAt = hist[e].markedAt
                              /\ hist'[e].seen = hist[e].seen
    BY <1>5 DEF Infer, TypeOK, Histories
  <2>2. /\ \A e \in Deliveries \ {d} : pc'[e] = pc[e]
        /\ pc[d] = "infer" /\ pc'[d] = "check" /\ UNCHANGED << req, restarts, log >>
    BY <1>5 DEF Infer, TypeOK
  <2>3. ~Resolved(d)
    BY <2>2 DEF Progress, ProgressOf
  <2> QED  BY <2>1, <2>2, <2>3, ProgressFrame
<1>6. ASSUME NEW d \in Deliveries, Check(d) PROVE Progress'
  <2> DEFINE seen == {e \in Deliveries : Marked(e) /\ hist[e].life = restarts}
             there == IF Guard(d) = "none" THEN "mark" ELSE "append"
  <2>1. \A e \in Deliveries : pc'[e] = IF e = d THEN there ELSE pc[e]
    BY <1>6 DEF Check, TypeOK
  <2>2. \A e \in Deliveries : /\ hist'[e].life = hist[e].life
                              /\ hist'[e].markedAt = hist[e].markedAt
                              /\ hist'[e].seen = IF e = d THEN seen ELSE hist[e].seen
    BY <1>6 DEF Check, TypeOK, Histories, Marked
  <2>3. \A e \in Deliveries : Marked(e)' = Marked(e) /\ Resolved(e)' = Resolved(e)
    BY <1>6, <2>2 DEF Check, Marked, Resolved
  <2>4. pc[d] = "check" /\ UNCHANGED restarts
    BY <1>6 DEF Check
  <2>5. \A e \in Deliveries : e # d => log'[e] = log[e]
    BY <1>6 DEF Check, TypeOK
  <2>6. Guard(d) = "none" => log'[d].rule \in RuleIndexes
    <3>1. Guard(d) = "none" => log'[d].rule = RuleOf(d)
      BY <1>6, GuardPassed DEF Check, TypeOK
    <3> QED  BY <3>1, GuardPassed
  <2> HIDE DEF seen
  <2>7. seen \subseteq Deliveries /\ \A e \in seen : Marked(e)
    BY DEF seen
  <2> QED  BY <2>1, <2>2, <2>3, <2>4, <2>5, <2>6, <2>7, <1>0 DEF Progress, ProgressOf
<1>7. ASSUME NEW d \in Deliveries, Mark(d) PROVE Progress'
  <2>1. \A e \in Deliveries : pc'[e] = IF e = d THEN "act" ELSE pc[e]
    BY <1>7 DEF Mark, TypeOK
  <2>2. \A e \in Deliveries : /\ hist'[e].life = hist[e].life
                              /\ hist'[e].markedAt = IF e = d THEN now ELSE hist[e].markedAt
                              /\ hist'[e].seen = hist[e].seen
    BY <1>7 DEF Mark, TypeOK, Histories
  <2>3. \A e \in Deliveries : Marked(e)' = (e = d \/ Marked(e)) /\ Resolved(e)' = Resolved(e)
    BY <1>7, <2>2 DEF Mark, Marked, Resolved, TypeOK, Never
  <2>4. pc[d] = "mark" /\ UNCHANGED << log, restarts >>
    BY <1>7 DEF Mark
  <2>5. ProgressOf(d)'
    BY <1>0, <2>1, <2>2, <2>3, <2>4 DEF Progress, ProgressOf
  <2>6. ASSUME NEW e \in Deliveries, e # d PROVE ProgressOf(e)'
    BY <1>0, <2>1, <2>2, <2>3, <2>4, <2>6 DEF Progress, ProgressOf
  <2> QED  BY <2>5, <2>6 DEF Progress
<1>8. ASSUME NEW d \in Deliveries, Act(d) PROVE Progress'
  <2>1. \A e \in Deliveries : log'[e].rule = log[e].rule
    BY <1>8 DEF Act, ExecutorResults, TypeOK, RemediationLogs
  <2>2. \A e \in Deliveries : pc'[e] = IF e = d THEN "append" ELSE pc[e]
    BY <1>8 DEF Act, ExecutorResults, TypeOK
  <2>3. pc[d] = "act" /\ UNCHANGED << req, restarts, hist >>
    BY <1>8 DEF Act, ExecutorResults
  <2>4. \A e \in Deliveries : Marked(e)' = Marked(e) /\ Resolved(e)' = Resolved(e)
    BY <2>3 DEF Marked, Resolved
  <2> QED  BY <1>0, <2>1, <2>2, <2>3, <2>4 DEF Progress, ProgressOf
<1>9. ASSUME NEW d \in Deliveries, AppendLog(d) \/ SaveLog(d) \/ GeneratePostmortem(d)
      PROVE  Progress'
  <2>1. /\ \A e \in Deliveries \ {d} : pc'[e] = pc[e]
        /\ pc'[d] \in {"save", "done"} /\ UNCHANGED << req, restarts, log >>
        /\ pc'[d] = "save" => pc[d] = "append"
    BY <1>9 DEF AppendLog, SaveLog, GeneratePostmortem, TypeOK
  <2>2. pc'[d] = "save" => ~Resolved(d)
    BY <2>1 DEF Progress, ProgressOf
  <2>3. \A e \in Deliveries : /\ hist'[e].life = hist[e].life
                              /\ hist'[e].markedAt = hist[e].markedAt
                              /\ hist'[e].seen = hist[e].seen
    BY <1>9, AppendHistory DEF SaveLog
  <2> QED  BY <2>1, <2>2, <2>3, ProgressFrame
<1>10. ASSUME StartAnew PROVE Progress'
  <2>1. \A e \in Deliveries : pc'[e] = IF pc[e] \in InFlight THEN "lost" ELSE pc[e]
    BY <1>10 DEF StartAnew
  <2>2. UNCHANGED << hist, log, req >> /\ restarts' = restarts + 1 /\ restarts \in Nat
    BY <1>10 DEF StartAnew, TypeOK
  <2>3. \A e \in Deliveries : Marked(e)' = Marked(e) /\ Resolved(e)' = Resolved(e)
    BY <2>2 DEF Marked, Resolved
  <2>4. \A e \in Deliveries : hist[e].life \in Nat
    BY DEF TypeOK, Histories
  <2> QED  BY <1>0, <2>1, <2>2, <2>3, <2>4 DEF Progress, ProgressOf
<1>11. CASE UNCHANGED << req, pc, log, restarts, hist >>
  BY <1>11 DEF Progress, ProgressOf, Marked, Resolved
<1> QED
  BY <1>1, <1>2, <1>3, <1>4, <1>5, <1>6, <1>7, <1>8, <1>9, <1>10, <1>11
     DEF Next, Process, Fault, Restart, Advance, vars

-----------------------------------------------------------------------------
(* Actions are justified.                                                  *)

(* A step of d that leaves what justifies the other deliveries alone.      *)
LEMMA GuardedFrame ==
    ASSUME TypeOK, Progress, Guarded, UNCHANGED req, NEW d \in Deliveries,
           pc[d] \in Unmarked,
           \A e \in Deliveries : Marked(e)' => Marked(e) \/ e = d,
           \A e \in Deliveries \ {d} :
              /\ pc'[e] = pc[e]
              /\ event'[e] = event[e]
              /\ log'[e] = log[e]
              /\ hist'[e].verdict = hist[e].verdict,
           pc'[d] = "check" => event'[d].llm = hist'[d].verdict,
           pc'[d] = "mark" \/ Marked(d)' => Justified(d)'
    PROVE  Guarded'
<1> SUFFICES ASSUME NEW e \in Deliveries, e # d
             PROVE  /\ pc'[e] = "check" => event'[e].llm = hist'[e].verdict
                    /\ pc'[e] = "mark" \/ Marked(e)' => Justified(e)'
  BY DEF Guarded
<1>1. (Justified(e) => Justified(e)')
  BY DEF Justified, Resolved
<1> QED  BY <1>1 DEF Guarded

LEMMA GuardedNext == TypeOK /\ Progress /\ Guarded /\ [Next]_vars => Guarded'
<1> SUFFICES ASSUME TypeOK, Progress, Guarded, [Next]_vars PROVE Guarded'
  OBVIOUS
<1> USE DEF GoTo, Unmarked
<1>1. ASSUME NEW d \in Deliveries, Receive(d) PROVE Guarded'
  <2>1. pc[d] = "wire" /\ pc' = [pc EXCEPT ![d] = "get"] /\ UNCHANGED << req, log >>
    BY <1>1 DEF Receive
  <2>2. \A e \in Deliveries : /\ hist'[e].verdict = hist[e].verdict
                              /\ hist'[e].markedAt = hist[e].markedAt
    BY <1>1 DEF Receive, TypeOK, Histories
  <2>3. \A e \in Deliveries : Marked(e)' = Marked(e)
    BY <2>2 DEF Marked
  <2>4. \A e \in Deliveries \ {d} : event'[e] = event[e] /\ pc'[e] = pc[e]
    BY <1>1, <2>1 DEF Receive, TypeOK
  <2>5. ~Marked(d) /\ pc'[d] = "get"
    BY <2>1 DEF Progress, ProgressOf, TypeOK
  <2> QED  BY <2>1, <2>2, <2>3, <2>4, <2>5, GuardedFrame
<1>2. ASSUME NEW d \in Deliveries, TriageGet(d) PROVE Guarded'
  <2>1. pc[d] = "get" /\ pc' = [pc EXCEPT ![d] = "put"] /\ UNCHANGED << req, log >>
    BY <1>2 DEF TriageGet
  <2>2. \A e \in Deliveries : /\ hist'[e].verdict = hist[e].verdict
                              /\ hist'[e].markedAt = hist[e].markedAt
    BY <1>2, TriageGetHistory
  <2>3. \A e \in Deliveries : Marked(e)' = Marked(e)
    BY <2>2 DEF Marked
  <2>4. \A e \in Deliveries \ {d} : event'[e] = event[e] /\ pc'[e] = pc[e]
    BY <1>2, <2>1 DEF TriageGet, TypeOK
  <2>5. ~Marked(d) /\ pc'[d] = "put"
    BY <2>1 DEF Progress, ProgressOf, TypeOK
  <2> QED  BY <2>1, <2>2, <2>3, <2>4, <2>5, GuardedFrame
<1>3. ASSUME NEW d \in Deliveries, Infer(d) PROVE Guarded'
  <2>1. PICK v \in Verdicts : /\ event' = [event EXCEPT ![d].llm = v]
                              /\ hist' = [hist EXCEPT ![d].verdict = v]
    BY <1>3 DEF Infer, Assigned
  <2>2. pc[d] = "infer" /\ pc' = [pc EXCEPT ![d] = "check"] /\ UNCHANGED << req, log >>
    BY <1>3 DEF Infer
  <2>3. \A e \in Deliveries : hist'[e].markedAt = hist[e].markedAt
    BY <2>1 DEF TypeOK, Histories
  <2>4. \A e \in Deliveries \ {d} : /\ event'[e] = event[e] /\ pc'[e] = pc[e]
                                    /\ hist'[e] = hist[e]
    BY <2>1, <2>2 DEF TypeOK
  <2>5. event'[d].llm = v /\ hist'[d].verdict = v
    BY <2>1 DEF TypeOK, Events, Histories
  <2>6. \A e \in Deliveries : Marked(e)' = Marked(e)
    BY <2>3 DEF Marked
  <2>7. ~Marked(d) /\ pc'[d] = "check"
    BY <2>2 DEF Progress, ProgressOf, TypeOK
  <2> QED  BY <2>2, <2>4, <2>5, <2>6, <2>7, GuardedFrame
<1>4. ASSUME NEW d \in Deliveries, Check(d) PROVE Guarded'
  <2>1. pc[d] = "check" /\ UNCHANGED << req, event >> /\ ~Marked(d) /\ ~Resolved(d)
    BY <1>4 DEF Check, Progress, ProgressOf, Processing
  <2>2. pc' = [pc EXCEPT ![d] = IF Guard(d) = "none" THEN "mark" ELSE "append"]
    BY <1>4 DEF Check
  <2>3. \A e \in Deliveries : /\ hist'[e].verdict = hist[e].verdict
                              /\ hist'[e].markedAt = hist[e].markedAt
    BY <1>4 DEF Check, TypeOK, Histories
  <2>4. \A e \in Deliveries \ {d} : log'[e] = log[e] /\ pc'[e] = pc[e]
    BY <1>4, <2>2 DEF Check, TypeOK
  <2>5. \A e \in Deliveries : Marked(e)' = Marked(e)
    BY <2>3 DEF Marked
  <2>6. pc'[d] # "check" /\ (pc'[d] = "mark" => Guard(d) = "none")
    BY <2>2 DEF TypeOK
  <2>7. ASSUME Guard(d) = "none" PROVE Justified(d)'
    <3>1. ~req[d].chaos /\ (Rules[RuleOf(d)].dangerous => ConfirmsRollback(event[d].llm) /\ ~DryRun)
      BY <2>7, GuardPassed
    <3>2. log'[d].rule = RuleOf(d) /\ event[d].llm = hist[d].verdict
      BY <1>4, <2>1, <3>1 DEF Check, TypeOK, Guarded
    <3>3. Rules[RuleOf(d)].dangerous => event[d].burn5m >= 500
      <4>1. RuleOf(d) \in RuleIndexes
        BY <2>7, GuardPassed
      <4>2. Matches(RuleOf(d), req[d].alertName, event[d].burn5m)
        BY <4>1, MatchFound DEF RuleOf, RuleIndexes, NoRule
      <4>3. Rules[RuleOf(d)].dangerous => RuleOf(d) = 1
        BY <4>1, RuleTable
      <4>4. event[d].burn5m >= Rules[RuleOf(d)].burn
        BY <4>2 DEF Matches
      <4>5. Rules[1].burn = 500
        BY DEF Rules
      <4> QED  BY <4>3, <4>4, <4>5
    <3> QED  BY <2>1, <2>3, <3>1, <3>2, <3>3 DEF Justified, Resolved
  <2> QED  BY <2>1, <2>3, <2>4, <2>5, <2>6, <2>7, GuardedFrame
<1>5. ASSUME NEW d \in Deliveries, Mark(d) PROVE Guarded'
  <2>1. /\ UNCHANGED << req, event, log >>
        /\ pc[d] = "mark" /\ pc' = [pc EXCEPT ![d] = "act"]
    BY <1>5 DEF Mark
  <2>2. \A e \in Deliveries : hist'[e].verdict = hist[e].verdict
    BY <1>5 DEF Mark, TypeOK, Histories
  <2>3. \A e \in Deliveries \ {d} : hist'[e] = hist[e] /\ pc'[e] = pc[e]
    BY <1>5, <2>1 DEF Mark, TypeOK
  <2>4. \A e \in Deliveries : Marked(e)' => Marked(e) \/ e = d
    BY <2>3 DEF Marked
  <2>5. Justified(d)' /\ pc'[d] # "check"
    BY <2>1, <2>2 DEF Guarded, Justified, Resolved, TypeOK
  <2> QED  BY <2>1, <2>2, <2>3, <2>4, <2>5, GuardedFrame
<1>6. ASSUME UNCHANGED << req >>,
             \A e \in Deliveries :
                /\ hist'[e].verdict = hist[e].verdict /\ hist'[e].markedAt = hist[e].markedAt
                /\ event'[e].llm = event[e].llm /\ event'[e].burn5m = event[e].burn5m
                /\ log'[e].rule = log[e].rule,
             \A e \in Deliveries : pc'[e] \in {"check", "mark"} => pc'[e] = pc[e]
      PROVE  Guarded'
  <2>1. \A e \in Deliveries : Marked(e)' = Marked(e) /\ (Justified(e) => Justified(e)')
    BY <1>6 DEF Marked, Justified, Resolved
  <2> QED  BY <1>6, <2>1 DEF Guarded
<1>7. ASSUME NEW d \in Deliveries, Act(d) PROVE Guarded'
  BY <1>6, <1>7 DEF Act, ExecutorResults, TypeOK, RemediationLogs
<1>8. ASSUME NEW d \in Deliveries, AppendLog(d) PROVE Guarded'
  <2>1. \A e \in Deliveries : event'[e].llm = event[e].llm /\ event'[e].burn5m = event[e].burn5m
    BY <1>8, AppendTypes
  <2>2. /\ UNCHANGED << req, log >>
        /\ \A e \in Deliveries : pc'[e] \in {"check", "mark"} => pc'[e] = pc[e]
    BY <1>8 DEF AppendLog, TypeOK
  <2> QED  BY <1>6, <1>8, <2>1, <2>2, AppendHistory
<1>9. ASSUME NEW d \in Deliveries, Refuse(d) \/ TriagePut(d) \/ SaveLog(d) PROVE Guarded'
  BY <1>6, <1>9 DEF Refuse, TriagePut, SaveLog, TypeOK
<1>12. ASSUME NEW d \in Deliveries, GeneratePostmortem(d) PROVE Guarded'
  <2>1. /\ UNCHANGED << req, event, log >>
        /\ \A e \in Deliveries : pc'[e] \in {"check", "mark"} => pc'[e] = pc[e]
    BY <1>12 DEF GeneratePostmortem, TypeOK
  <2> QED  BY <1>6, <1>12, <2>1, AppendHistory
<1>10. CASE StartAnew
  BY <1>6, <1>10 DEF StartAnew
<1>11. CASE Advance \/ UNCHANGED vars
  BY <1>6, <1>11 DEF Advance, vars
<1> QED
  BY <1>1, <1>2, <1>3, <1>4, <1>5, <1>7, <1>8, <1>9, <1>10, <1>11, <1>12
     DEF Next, Process, Fault, Restart

-----------------------------------------------------------------------------
(* Actions lie a cooldown apart.                                           *)

(* What holds of the cooldown map after a step that marks nothing, starts  *)
(* no check and no process, and turns no clock back.                       *)
LEMMA CooldownFrame ==
    ASSUME TypeOK, Progress, CooldownMap, CooldownUnlessOverlapped,
           UNCHANGED << req, last >>, now' >= now, now' \in Nat, restarts' = restarts,
           \A d \in Deliveries :
              /\ hist'[d].markedAt = hist[d].markedAt
              /\ hist'[d].seen = hist[d].seen
              /\ log'[d].rule = log[d].rule
              /\ Marked(d) => hist'[d].life = hist[d].life
              /\ pc'[d] = "mark" => pc[d] = "mark"
    PROVE  CooldownMap' /\ CooldownUnlessOverlapped'
<1>1. \A d \in Deliveries : Marked(d)' = Marked(d) /\ MarkedKey(d)' = MarkedKey(d)
  BY DEF Marked, MarkedKey, IdOf
<1>2. \A d \in Deliveries : /\ hist[d].markedAt \in Int
                            /\ log[d].rule \in RuleIndexes => Rules[log[d].rule].cooldown \in Nat
  BY RuleTable DEF TypeOK, Histories, Times, Never
<1>3. now \in Int
  BY DEF TypeOK
<1>4. \A d \in Deliveries : hist'[d].markedAt <= now'
  BY <1>2, <1>3 DEF CooldownMap
<1>5. CooldownUnlessOverlapped'
  BY <1>1 DEF CooldownUnlessOverlapped
<1>6. \A d \in Deliveries :
         (Marked(d)' /\ hist'[d].life = restarts') => last'[MarkedKey(d)'] >= hist'[d].markedAt
  BY <1>1 DEF CooldownMap
<1>7. ASSUME NEW d \in Deliveries, NEW e \in Deliveries,
             pc'[e] = "mark", d \in hist'[e].seen, MarkedKey(d)' = MarkedKey(e)'
      PROVE  now' - hist'[d].markedAt >= Rules[log'[d].rule].cooldown
  <2>1. now - hist[d].markedAt >= Rules[log[d].rule].cooldown
    BY <1>1, <1>7 DEF CooldownMap
  <2>2. Rules[log[d].rule].cooldown \in Nat
    BY <1>2, <1>7 DEF Progress, ProgressOf
  <2> QED  BY <1>2, <1>3, <2>1, <2>2
<1> QED  BY <1>4, <1>5, <1>6, <1>7 DEF CooldownMap

LEMMA CheckCooldown ==
    ASSUME TypeOK, Progress, CooldownMap, CooldownUnlessOverlapped,
           NEW d \in Deliveries, Check(d)
    PROVE  CooldownMap' /\ CooldownUnlessOverlapped'
<1> DEFINE seen == {e \in Deliveries : Marked(e) /\ hist[e].life = restarts}
<1>1. pc[d] = "check" /\ UNCHANGED << req, last, now, restarts >> /\ ~Marked(d)
  BY DEF Check, Progress, ProgressOf, Unmarked
<1>2. \A e \in Deliveries : /\ hist'[e].life = hist[e].life
                            /\ hist'[e].markedAt = hist[e].markedAt
                            /\ hist'[e].seen = IF e = d THEN seen ELSE hist[e].seen
  BY DEF Check, TypeOK, Histories, Marked
<1>3. \A e \in Deliveries : e # d => log'[e] = log[e] /\ pc'[e] = pc[e]
  BY DEF Check, GoTo, TypeOK
<1>4. \A e \in Deliveries : /\ Marked(e)' = Marked(e)
                            /\ IdOf(e)' = IdOf(e)
                            /\ e # d => MarkedKey(e)' = MarkedKey(e)
  <2>1. \A e \in Deliveries : Marked(e)' = Marked(e)
    BY <1>2 DEF Marked
  <2>2. \A e \in Deliveries : IdOf(e)' = IdOf(e)
    BY <1>1 DEF IdOf
  <2>3. \A e \in Deliveries : e # d => MarkedKey(e)' = MarkedKey(e)
    BY <1>3, <2>2 DEF MarkedKey
  <2> QED  BY <2>1, <2>2, <2>3
<1> HIDE DEF seen
<1>5. CooldownUnlessOverlapped'
  <2> SUFFICES ASSUME NEW b \in Deliveries, NEW e \in Deliveries, b # e,
                      Marked(b)', Marked(e)', MarkedKey(b)' = MarkedKey(e)',
                      b \in hist'[e].seen
               PROVE  hist'[e].markedAt - hist'[b].markedAt >= Rules[log'[b].rule].cooldown
    BY DEF CooldownUnlessOverlapped
  <2>1. b # d /\ e # d
    BY <1>1, <1>4
  <2>2. MarkedKey(b) = MarkedKey(e) /\ Marked(b) /\ Marked(e) /\ b \in hist[e].seen
    BY <1>2, <1>4, <2>1
  <2> QED  BY <1>2, <1>3, <2>1, <2>2 DEF CooldownUnlessOverlapped
<1>6. \A e \in Deliveries : hist'[e].markedAt <= now'
  BY <1>1, <1>2 DEF CooldownMap
<1>7. \A e \in Deliveries :
         (Marked(e)' /\ hist'[e].life = restarts') => last'[MarkedKey(e)'] >= hist'[e].markedAt
  BY <1>1, <1>2, <1>4 DEF CooldownMap
<1>8. ASSUME NEW c \in Deliveries, NEW e \in Deliveries,
             pc'[e] = "mark", c \in hist'[e].seen, MarkedKey(c)' = MarkedKey(e)'
      PROVE  now' - hist'[c].markedAt >= Rules[log'[c].rule].cooldown
  <2>1. c # d
    <3>1. CASE e = d
      BY <1>1, <1>2, <1>8, <3>1 DEF seen
    <3>2. CASE e # d
      BY <1>1, <1>2, <1>8, <3>2 DEF Progress, ProgressOf
    <3> QED  BY <3>1, <3>2
  <2>2. CASE e # d
    <3>1. MarkedKey(c) = MarkedKey(e) /\ pc[e] = "mark" /\ c \in hist[e].seen
      BY <1>2, <1>3, <1>4, <1>8, <2>1, <2>2
    <3>2. now - hist[c].markedAt >= Rules[log[c].rule].cooldown
      BY <3>1 DEF CooldownMap
    <3> QED  BY <1>1, <1>2, <1>3, <2>1, <3>2
  <2>3. CASE e = d
    <3>1. Guard(d) = "none"
      BY <1>8, <2>3 DEF Check, GoTo, TypeOK
    <3>2. ~req[d].chaos /\ RuleOf(d) \in RuleIndexes /\ ~InCooldown(IdOf(d), RuleOf(d))
      BY <3>1, GuardPassed
    <3>3. log'[d].rule = RuleOf(d)
      BY <3>2 DEF Check, TypeOK
    <3>4. MarkedKey(c) = << IdOf(d), RuleOf(d) >>
      BY <1>1, <1>4, <1>8, <2>1, <2>3, <3>3 DEF MarkedKey, IdOf
    <3>5. log[c].rule = RuleOf(d)
      BY <3>4 DEF MarkedKey
    <3>6. Marked(c) /\ hist[c].life = restarts
      BY <1>2, <1>8, <2>3 DEF seen
    <3>7. last[MarkedKey(c)] >= hist[c].markedAt
      BY <3>6 DEF CooldownMap
    <3>8. hist[c].markedAt \in Nat
      BY <3>6 DEF TypeOK, Histories, Times, Marked
    <3>9. last[MarkedKey(c)] \in Times
      BY <3>2, <3>4, IdsOfDeliveries DEF TypeOK
    <3>10. last[MarkedKey(c)] # Never
      BY <3>7, <3>8 DEF Never
    <3>11. ~(now - last[MarkedKey(c)] < Rules[RuleOf(d)].cooldown)
      BY <3>2, <3>4, <3>10 DEF InCooldown
    <3>12. now \in Nat /\ Rules[RuleOf(d)].cooldown \in Nat
      BY <3>2, RuleTable DEF TypeOK
    <3>13. now - hist[c].markedAt >= Rules[RuleOf(d)].cooldown
      BY <3>7, <3>8, <3>9, <3>10, <3>11, <3>12 DEF Times
    <3> QED  BY <1>1, <1>2, <1>3, <2>1, <3>5, <3>13
  <2> QED  BY <2>2, <2>3
<1> QED  BY <1>5, <1>6, <1>7, <1>8 DEF CooldownMap

LEMMA MarkCooldown ==
    ASSUME TypeOK, Progress, CooldownMap, CooldownUnlessOverlapped,
           NEW d \in Deliveries, Mark(d)
    PROVE  CooldownMap' /\ CooldownUnlessOverlapped'
<1>1. /\ pc[d] = "mark" /\ UNCHANGED << req, log, now, restarts >> /\ ~Marked(d)
      /\ now \in Nat
  BY DEF Mark, Progress, ProgressOf, Unmarked, TypeOK
<1>2. \A e \in Deliveries : /\ hist'[e].life = hist[e].life
                            /\ hist'[e].markedAt = IF e = d THEN now ELSE hist[e].markedAt
                            /\ hist'[e].seen = hist[e].seen
  BY DEF Mark, TypeOK, Histories
<1>3. \A e \in Deliveries : /\ Marked(e)' = (e = d \/ Marked(e))
                            /\ MarkedKey(e)' = MarkedKey(e)
  BY <1>1, <1>2 DEF Marked, MarkedKey, IdOf, Never
<1>4. \A e \in Deliveries : d \notin hist[e].seen
  BY <1>1 DEF Progress, ProgressOf
<1>5. \A e \in Deliveries : pc'[e] = "mark" => pc[e] = "mark"
  BY DEF Mark, GoTo, TypeOK
<1>6. \A e \in Deliveries : Marked(e) => MarkedKey(e) \in Ids \X RuleIndexes
  BY IdsOfDeliveries DEF Progress, ProgressOf, MarkedKey
<1>7. MarkedKey(d) \in Ids \X RuleIndexes
  BY <1>1, IdsOfDeliveries DEF Progress, ProgressOf, MarkedKey
<1>8. \A k \in Ids \X RuleIndexes : last'[k] = IF k = MarkedKey(d) THEN now ELSE last[k]
  BY <1>7 DEF Mark, MarkedKey, TypeOK
<1>9. \A e \in Deliveries : hist'[e].markedAt <= now'
  BY <1>1, <1>2 DEF CooldownMap
<1>10. \A e \in Deliveries :
          (Marked(e)' /\ hist'[e].life = restarts') => last'[MarkedKey(e)'] >= hist'[e].markedAt
  BY <1>1, <1>2, <1>3, <1>6, <1>7, <1>8, <1>9 DEF CooldownMap
<1>11. \A c, e \in Deliveries :
          ( /\ pc'[e] = "mark" /\ c \in hist'[e].seen
            /\ MarkedKey(c)' = MarkedKey(e)' )
          => now' - hist'[c].markedAt >= Rules[log'[c].rule].cooldown
  BY <1>1, <1>2, <1>3, <1>4, <1>5 DEF CooldownMap
<1>12. CooldownUnlessOverlapped'
  <2> SUFFICES ASSUME NEW c \in Deliveries, NEW e \in Deliveries, c # e,
                      Marked(c)', Marked(e)', MarkedKey(c)' = MarkedKey(e)',
                      c \in hist'[e].seen
               PROVE  hist'[e].markedAt - hist'[c].markedAt >= Rules[log'[c].rule].cooldown
    BY DEF CooldownUnlessOverlapped
  <2>1. c # d
    BY <1>2, <1>4
  <2>2. CASE e = d
    BY <1>1, <1>2, <1>3, <2>1, <2>2 DEF CooldownMap
  <2>3. CASE e # d
    BY <1>1, <1>2, <1>3, <2>1, <2>3 DEF CooldownUnlessOverlapped
  <2> QED  BY <2>2, <2>3
<1> QED  BY <1>9, <1>10, <1>11, <1>12 DEF CooldownMap

LEMMA RestartCooldown ==
    ASSUME TypeOK, Progress, CooldownMap, CooldownUnlessOverlapped, StartAnew
    PROVE  CooldownMap' /\ CooldownUnlessOverlapped'
<1>1. UNCHANGED << req, log, now, hist >> /\ restarts' = restarts + 1 /\ restarts \in Nat
  BY DEF StartAnew, TypeOK
<1>2. \A e \in Deliveries : Marked(e)' = Marked(e) /\ MarkedKey(e)' = MarkedKey(e)
  BY <1>1 DEF Marked, MarkedKey, IdOf
<1>3. \A e \in Deliveries : pc'[e] # "mark"
  BY DEF StartAnew, InFlight, Writing
<1>4. \A e \in Deliveries : hist[e].life \in Nat /\ hist[e].life <= restarts
  BY DEF Progress, ProgressOf, TypeOK, Histories
<1>5. \A e \in Deliveries : hist'[e].life # restarts'
  BY <1>1, <1>4
<1>6. CooldownUnlessOverlapped'
  BY <1>1, <1>2 DEF CooldownUnlessOverlapped
<1> QED  BY <1>1, <1>3, <1>5, <1>6 DEF CooldownMap

LEMMA CooldownNext ==
    TypeOK /\ Progress /\ CooldownMap /\ CooldownUnlessOverlapped /\ [Next]_vars
    => CooldownMap' /\ CooldownUnlessOverlapped'
<1> SUFFICES ASSUME TypeOK, Progress, CooldownMap, CooldownUnlessOverlapped, [Next]_vars
             PROVE  CooldownMap' /\ CooldownUnlessOverlapped'
  OBVIOUS
<1> USE DEF GoTo
<1>0. now \in Nat /\ now >= now
  BY DEF TypeOK
<1>1. ASSUME NEW d \in Deliveries, Receive(d)
      PROVE  CooldownMap' /\ CooldownUnlessOverlapped'
  <2>1. \A e \in Deliveries : /\ hist'[e].markedAt = hist[e].markedAt
                              /\ hist'[e].seen = hist[e].seen
                              /\ e # d => hist'[e].life = hist[e].life
    BY <1>1 DEF Receive, TypeOK, Histories
  <2>2. ~Marked(d)
    BY <1>1 DEF Receive, Progress, ProgressOf, Unmarked
  <2>3. /\ UNCHANGED << req, last, log, restarts, now >>
        /\ \A e \in Deliveries : pc'[e] = "mark" => pc[e] = "mark"
    BY <1>1 DEF Receive, TypeOK
  <2> QED  BY <1>0, <2>1, <2>2, <2>3, CooldownFrame
<1>2. ASSUME NEW d \in Deliveries, TriageGet(d)
      PROVE  CooldownMap' /\ CooldownUnlessOverlapped'
  <2>1. \A e \in Deliveries : /\ hist'[e].markedAt = hist[e].markedAt
                              /\ hist'[e].seen = hist[e].seen
                              /\ hist'[e].life = hist[e].life
    BY <1>2, TriageGetHistory
  <2>2. /\ UNCHANGED << req, last, log, restarts, now >>
        /\ \A e \in Deliveries : pc'[e] = "mark" => pc[e] = "mark"
    BY <1>2 DEF TriageGet, TypeOK
  <2> QED  BY <1>0, <2>1, <2>2, CooldownFrame
<1>3. ASSUME NEW d \in Deliveries, Infer(d)
      PROVE  CooldownMap' /\ CooldownUnlessOverlapped'
  <2>1. \A e \in Deliveries : /\ hist'[e].markedAt = hist[e].markedAt
                              /\ hist'[e].seen = hist[e].seen
                              /\ hist'[e].life = hist[e].life
    BY <1>3 DEF Infer, TypeOK, Histories
  <2>2. /\ UNCHANGED << req, last, log, restarts, now >>
        /\ \A e \in Deliveries : pc'[e] = "mark" => pc[e] = "mark"
    BY <1>3 DEF Infer, TypeOK
  <2> QED  BY <1>0, <2>1, <2>2, CooldownFrame
<1>4. ASSUME UNCHANGED << req, last, restarts, hist >>, now' >= now, now' \in Nat,
             \A e \in Deliveries : log'[e].rule = log[e].rule,
             \A e \in Deliveries : pc'[e] = "mark" => pc[e] = "mark"
      PROVE  CooldownMap' /\ CooldownUnlessOverlapped'
  BY <1>4, CooldownFrame
<1>5. ASSUME NEW d \in Deliveries, Act(d)
      PROVE  CooldownMap' /\ CooldownUnlessOverlapped'
  BY <1>0, <1>4, <1>5 DEF Act, ExecutorResults, TypeOK, RemediationLogs
<1>6. ASSUME NEW d \in Deliveries,
             Refuse(d) \/ TriagePut(d) \/ SaveLog(d)
      PROVE  CooldownMap' /\ CooldownUnlessOverlapped'
  BY <1>0, <1>4, <1>6 DEF Refuse, TriagePut, SaveLog, TypeOK
<1>9. ASSUME NEW d \in Deliveries, AppendLog(d) \/ GeneratePostmortem(d)
      PROVE  CooldownMap' /\ CooldownUnlessOverlapped'
  <2>1. /\ UNCHANGED << req, last, log, restarts, now >>
        /\ \A e \in Deliveries : pc'[e] = "mark" => pc[e] = "mark"
    BY <1>9 DEF AppendLog, GeneratePostmortem, TypeOK
  <2> QED  BY <1>0, <1>9, <2>1, AppendHistory, CooldownFrame
<1>7. CASE Advance
  BY <1>0, <1>4, <1>7, BoundsAssumption DEF Advance
<1>8. CASE UNCHANGED vars
  BY <1>0, <1>4, <1>8 DEF vars
<1> QED
  BY <1>1, <1>2, <1>3, <1>5, <1>6, <1>7, <1>8, <1>9, CheckCooldown, MarkCooldown,
     RestartCooldown
     DEF Next, Process, Fault, Restart

-----------------------------------------------------------------------------
(* The theorems.                                                           *)

LEMMA Initially == Init => IInv
<1> SUFFICES ASSUME Init PROVE IInv
  OBVIOUS
<1>1. \A d \in Deliveries : pc[d] = "wire" /\ ~Marked(d) /\ hist[d].life = restarts
                            /\ hist[d].seen = {} /\ hist[d].markedAt = -1 /\ now = 0
                            /\ restarts = 0
  BY DEF Init, Marked, Never
<1>2. Progress /\ Guarded /\ CooldownMap /\ CooldownUnlessOverlapped
  BY <1>1 DEF Progress, ProgressOf, Guarded, CooldownMap, CooldownUnlessOverlapped, InFlight, Writing,
     Unmarked, Processing
<1> QED  BY <1>2, InitTypes, InitOwn DEF IInv

(* The inductive invariant holds in every reachable state.                 *)
THEOREM Invariance == Spec => []IInv
<1>1. IInv /\ [Next]_vars => IInv'
  BY TypeNext, OwnNext, ProgressNext, GuardedNext, CooldownNext DEF IInv
<1> QED  BY <1>1, Initially, PTL DEF Spec

(* Every header names an array a delivery allocated and every stored       *)
(* pointer an event, for any number of deliveries and restarts (Triage and *)
(* processEvent keep the types of the event store and of the cooldown).    *)
THEOREM TypeCorrect == Spec => []TypeOK
<1>1. IInv => TypeOK
  BY DEF IInv
<1> QED  BY <1>1, Invariance, PTL

(* Every action taken passed the guards of Evaluate, and a rollback rests  *)
(* on the answer the LLM gave to the very delivery that rolled back.       *)
THEOREM EveryActionJustified == Spec => []ActionsJustified
<1>1. IInv => ActionsJustified
  BY DEF IInv, Guarded, Justified, ActionsJustified
<1> QED  BY <1>1, Invariance, PTL

(* Two actions of one rule on one event lie a cooldown apart whenever the  *)
(* check of the second could see the mark of the first (cooldown.go).      *)
THEOREM CooldownKept == Spec => []CooldownUnlessOverlapped
<1>1. IInv => CooldownUnlessOverlapped
  BY DEF IInv
<1> QED  BY <1>1, Invariance, PTL
=============================================================================
