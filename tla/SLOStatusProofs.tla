--------------------------- MODULE SLOStatusProofs ---------------------------
(***************************************************************************)
(* Proofs about SLOStatus and its history, for any specs, errors and lag.  *)
(***************************************************************************)
EXTENDS SLOStatusHistory, TLAPS, SequenceTheorems

Quotations == Errors \cup {RuleCounts[v] : v \in Specs}
Reasons == {"CRDMissing", "Reconciled", "ConfigMapError"}
Words == {"PrometheusRule CRD not installed", "recording + alert rules", ""}
ConditionRecords == [reason : Reasons, message : Words \X Quotations]
ConditionSets == UNION {[S -> ConditionRecords] : S \in SUBSET ConditionTypes}
Objects == [spec : Specs, rules : Statuses, conds : ConditionSets]
Versions == Objects \cup {None}
Works == [base : Objects, pr : Errors \cup {Ok}, cm : Errors \cup {Ok}]

(* The types of what the watch and the worker hand on.                     *)
Typed ==
    /\ obj \in Versions /\ seen \in Versions
    /\ stream \in Seq(Versions) /\ Len(stream) <= MaxLag
    /\ queued \in BOOLEAN
    /\ work \in Works \cup {None}
    /\ writable \subseteq Parts
    /\ events \in 0..MaxEvents

-----------------------------------------------------------------------------
LEMMA CreatedType == \A v \in Specs : Created(v) \in Objects
<1>1. NoConditions \in [{} -> ConditionRecords]
  BY DEF NoConditions
<1>2. NoConditions \in ConditionSets
  BY <1>1 DEF ConditionSets
<1> QED  BY <1>2 DEF Created, Objects, Statuses

LEMMA SetStatusConditionType ==
    ASSUME NEW c \in ConditionSets, NEW t \in ConditionTypes, NEW m \in ConditionRecords
    PROVE  SetStatusCondition(c, t, m) \in ConditionSets
<1>1. PICK S \in SUBSET ConditionTypes : c \in [S -> ConditionRecords]
  BY DEF ConditionSets
<1>2. SetStatusCondition(c, t, m) \in [S \cup {t} -> ConditionRecords]
  BY <1>1 DEF SetStatusCondition
<1>3. S \cup {t} \in SUBSET ConditionTypes
  BY <1>1
<1> QED  BY <1>2, <1>3 DEF ConditionSets

LEMMA ConditionType ==
    ASSUME NEW of \in Quotations
    PROVE  /\ Condition("CRDMissing", "PrometheusRule CRD not installed", of) \in ConditionRecords
           /\ Condition("Reconciled", "recording + alert rules", of) \in ConditionRecords
           /\ Condition("ConfigMapError", "", of) \in ConditionRecords
BY DEF Condition, ConditionRecords, Reasons, Words

LEMMA ConditionsType == ASSUME NEW w \in Works PROVE Conditions(w) \in ConditionSets
<1>1. /\ w.base.conds \in ConditionSets /\ w.base.spec \in Specs
      /\ w.pr # Ok => w.pr \in Quotations
      /\ w.cm # Ok => w.cm \in Quotations
      /\ RuleCounts[w.base.spec] \in Quotations
  BY DEF Works, Objects, Quotations
<1>2. /\ "RulesGenerated" \in ConditionTypes
      /\ Failed("pr") \in ConditionTypes /\ Failed("cm") \in ConditionTypes
  BY DEF ConditionTypes, Parts
<1>3. PRCondition(w) \in ConditionSets
  <2>1. CASE w.pr # Ok
    <3>1. Condition("CRDMissing", "PrometheusRule CRD not installed", w.pr) \in ConditionRecords
      BY <1>1, <2>1, ConditionType
    <3> QED  BY <1>1, <1>2, <2>1, <3>1, SetStatusConditionType DEF PRCondition
  <2>2. CASE w.pr = Ok
    <3>1. Condition("Reconciled", "recording + alert rules", RuleCounts[w.base.spec])
             \in ConditionRecords
      BY <1>1, ConditionType
    <3> QED  BY <1>1, <1>2, <2>2, <3>1, SetStatusConditionType DEF PRCondition
  <2> QED  BY <2>1, <2>2
<1>4. w.cm # Ok => Condition("ConfigMapError", "", w.cm) \in ConditionRecords
  BY <1>1, ConditionType
<1> QED  BY <1>2, <1>3, <1>4, SetStatusConditionType DEF Conditions

LEMMA BecomesType ==
    ASSUME Typed, NEW o \in Versions, Becomes(o), Len(stream) < MaxLag
    PROVE  obj' \in Versions /\ stream' \in Seq(Versions) /\ Len(stream') <= MaxLag
<1>1. /\ Append(stream, o) \in Seq(Versions)
      /\ Len(Append(stream, o)) = Len(stream) + 1
      /\ Len(stream) \in Nat
  BY AppendProperties, LenProperties DEF Typed
<1> QED  BY <1>1, BoundsAssumption DEF Becomes

LEMMA PatchedType ==
    ASSUME Typed, obj # None, work # None
    PROVE  [spec  |-> obj.spec,
            rules |-> Merge(obj.rules, work.base.rules, RuleNames[work.base.spec]),
            conds |-> Merge(obj.conds, work.base.conds, Conditions(work))] \in Objects
<1>1. obj \in Objects /\ work \in Works
  BY DEF Typed, Versions
<1>2. Conditions(work) \in ConditionSets
  BY <1>1, ConditionsType
<1>3. RuleNames[work.base.spec] \in Statuses
  BY <1>1 DEF Works, Objects, Statuses
<1> QED  BY <1>1, <1>2, <1>3 DEF Objects, Merge

LEMMA TypedInit == Init => Typed
<1> SUFFICES ASSUME Init PROVE Typed
  OBVIOUS
<1>1. << >> \in Seq(Versions) /\ Len(<< >>) = 0
  BY EmptySeq
<1>2. obj \in Versions
  BY CreatedType DEF Init, Versions
<1> QED  BY <1>1, <1>2, BoundsAssumption DEF Init, Typed

LEMMA TypedNext == Typed /\ [Next]_vars => Typed'
<1> SUFFICES ASSUME Typed, [Next]_vars PROVE Typed'
  OBVIOUS
<1> USE BoundsAssumption
<1>1. ASSUME NEW v \in Specs, Apply(v) PROVE Typed'
  <2>1. PICK o \in Versions : Becomes(o)
    <3>1. CASE obj = None
      BY <1>1, <3>1, CreatedType DEF Apply, Versions
    <3>2. CASE obj # None
      <4>1. [obj EXCEPT !.spec = v] \in Versions
        BY <3>2 DEF Typed, Versions, Objects
      <4> QED  BY <1>1, <3>2, <4>1 DEF Apply
    <3> QED  BY <3>1, <3>2
  <2> QED  BY <1>1, <2>1, BecomesType DEF Apply, Typed, operator
<1>2. CASE Delete
  <2>1. None \in Versions
    BY DEF Versions
  <2> QED  BY <1>2, <2>1, BecomesType DEF Delete, Typed, operator
<1>3. ASSUME NEW part \in Parts, Toggle(part) PROVE Typed'
  BY <1>3 DEF Toggle, Typed, operator
<1>4. CASE Deliver
  <2>1. /\ Head(stream) \in Versions /\ Tail(stream) \in Seq(Versions)
        /\ Len(Tail(stream)) = Len(stream) - 1 /\ Len(stream) \in Nat
    BY <1>4, HeadTailProperties, LenProperties DEF Deliver, Typed
  <2> QED  BY <1>4, <2>1 DEF Deliver, Typed
<1>5. CASE Resync
  BY <1>5 DEF Resync, Typed
<1>6. CASE Restart
  <2>1. << >> \in Seq(Versions) /\ Len(<< >>) = 0
    BY EmptySeq
  <2> QED  BY <1>6, <2>1 DEF Restart, Typed
<1>7. CASE WriteRules
  <2>1. work' \in Works \cup {None}
    BY <1>7 DEF WriteRules, Typed, Versions, Works, Outcomes
  <2> QED  BY <1>7, <2>1 DEF WriteRules, Typed
<1>8. CASE PatchStatus
  <2>1. \/ \E o \in Versions : Becomes(o)
        \/ UNCHANGED << obj, stream >>
    BY <1>8, PatchedType DEF PatchStatus, Versions
  <2>2. obj' \in Versions /\ stream' \in Seq(Versions) /\ Len(stream') <= MaxLag
    BY <1>8, <2>1, BecomesType DEF PatchStatus, Typed
  <2> QED  BY <1>8, <2>2 DEF PatchStatus, Typed
<1>9. CASE FailPatch
  BY <1>9 DEF FailPatch, Typed
<1>10. CASE UNCHANGED vars
  BY <1>10 DEF vars, Typed
<1> QED  BY <1>1, <1>2, <1>3, <1>4, <1>5, <1>6, <1>7, <1>8, <1>9, <1>10 DEF Next

(* What the cache, the watch and the patch hand on are resources with the  *)
(* rules of some submitted spec and the three conditions that Reconcile    *)
(* sets, although a patch mixes fields of two versions.                    *)
THEOREM StatusTypeCorrect == Spec => []TypeOK
<1>1. Typed => TypeOK
  <2> SUFFICES ASSUME Typed PROVE TypeOK
    OBVIOUS
  <2>1. \A o \in Objects : IsObject(o)
    <3> SUFFICES ASSUME NEW o \in Objects PROVE IsObject(o)
      OBVIOUS
    <3>1. DOMAIN o.conds \subseteq ConditionTypes
      BY DEF Objects, ConditionSets
    <3> QED  BY <3>1 DEF Objects, IsObject
  <2>2. \A k \in DOMAIN stream : stream[k] \in Versions
    BY ElementOfSeq, LenProperties DEF Typed
  <2>3. work # None => /\ work.base \in Objects
                       /\ \A part \in Parts : work[part] \in Errors \cup {Ok}
    BY DEF Typed, Works, Parts
  <2> QED  BY <2>1, <2>2, <2>3 DEF Typed, TypeOK, Versions
<1> QED  BY <1>1, TypedInit, TypedNext, PTL DEF Spec

-----------------------------------------------------------------------------
(* QuotesWhatHappened.  The next patch may carry over what any copy on its   *)
(* way shows: the invariant is about all of them.                          *)

Truthful(conds, facts) == \A t \in DOMAIN conds : << t, Quoted(conds[t]) >> \in facts

TruthfulObject(o, facts) ==
    o # None => /\ o.rules # None => << "GeneratedRules", o.rules >> \in facts
                /\ Truthful(o.conds, facts)

HInv ==
    /\ Typed
    /\ TruthfulObject(obj, done) /\ TruthfulObject(seen, done)
    /\ \A k \in 1..Len(stream) : TruthfulObject(stream[k], done)
    /\ work # None => /\ work.base # None /\ TruthfulObject(work.base, done)
                       /\ Facts(work) \subseteq done

(* What happened stays so.                                                 *)
LEMMA TruthStays ==
    ASSUME NEW o, NEW facts, NEW more, facts \subseteq more, TruthfulObject(o, facts)
    PROVE  TruthfulObject(o, more)
BY DEF TruthfulObject, Truthful

LEMMA CreatedTruthful == \A v \in Specs : TruthfulObject(Created(v), done)
<1>1. DOMAIN NoConditions = {}
  BY DEF NoConditions
<1> QED  BY <1>1 DEF TruthfulObject, Truthful, Created

LEMMA SetStatusConditionTruthful ==
    ASSUME NEW c, NEW facts, Truthful(c, facts),
           NEW t, NEW reason, NEW words, NEW of, << t, of >> \in facts
    PROVE  Truthful(SetStatusCondition(c, t, Condition(reason, words, of)), facts)
<1>1. Quoted(Condition(reason, words, of)) = of
  BY DEF Quoted, Condition
<1> QED  BY <1>1 DEF Truthful, SetStatusCondition

(* The conditions that a Reconcile makes of its copy tell of itself, or of *)
(* what the copy told.                                                     *)
LEMMA ConditionsTruthful ==
    ASSUME NEW w \in Works, NEW facts, Truthful(w.base.conds, facts), Facts(w) \subseteq facts
    PROVE  Truthful(Conditions(w), facts)
<1>1. \A part \in Parts : w[part] # Ok => << Failed(part), w[part] >> \in facts
  BY DEF Facts
<1>2. (w.pr # Ok => << Failed("pr"), w.pr >> \in facts)
      /\ (w.cm # Ok => << Failed("cm"), w.cm >> \in facts)
  BY <1>1 DEF Parts
<1>3. w.pr = Ok => << "RulesGenerated", RuleCounts[w.base.spec] >> \in facts
  BY DEF Facts
<1>4. Truthful(PRCondition(w), facts)
  BY <1>2, <1>3, SetStatusConditionTruthful DEF PRCondition
<1> QED  BY <1>2, <1>4, SetStatusConditionTruthful DEF Conditions

LEMMA BecomesTruthful ==
    ASSUME HInv, NEW o \in Versions, Becomes(o), TruthfulObject(o, done)
    PROVE  /\ TruthfulObject(obj', done)
           /\ \A k \in 1..Len(stream') : TruthfulObject(stream'[k], done)
<1>1. /\ Len(stream') = Len(stream) + 1 /\ Len(stream) \in Nat
      /\ \A k \in 1..Len(stream) : stream'[k] = stream[k]
      /\ stream'[Len(stream) + 1] = o
  BY AppendProperties, LenProperties DEF HInv, Typed, Becomes
<1>2. ASSUME NEW k \in 1..Len(stream') PROVE TruthfulObject(stream'[k], done)
  <2>1. k \in 1..Len(stream) \/ k = Len(stream) + 1
    BY <1>1
  <2> QED  BY <1>1, <2>1 DEF HInv
<1> QED  BY <1>2 DEF Becomes

(* A field of a patch is that of the resource as it is, or the new one.    *)
LEMMA PatchedTruthful ==
    ASSUME HInv, obj # None, work # None
    PROVE  TruthfulObject(
               [spec  |-> obj.spec,
                rules |-> Merge(obj.rules, work.base.rules, RuleNames[work.base.spec]),
                conds |-> Merge(obj.conds, work.base.conds, Conditions(work))], done)
<1> DEFINE r == Merge(obj.rules, work.base.rules, RuleNames[work.base.spec])
           c == Merge(obj.conds, work.base.conds, Conditions(work))
<1>1. work \in Works /\ work.base # None
  BY DEF HInv, Typed
<1>2. Truthful(Conditions(work), done)
  BY <1>1, ConditionsTruthful DEF HInv, TruthfulObject
<1>3. << "GeneratedRules", RuleNames[work.base.spec] >> \in done
  BY DEF HInv, Facts
<1>4. r # None => << "GeneratedRules", r >> \in done
  BY <1>3 DEF HInv, TruthfulObject, Merge
<1>5. Truthful(c, done)
  BY <1>2 DEF HInv, TruthfulObject, Merge
<1> HIDE DEF r, c
<1>6. TruthfulObject([spec |-> obj.spec, rules |-> r, conds |-> c], done)
  BY <1>4, <1>5 DEF TruthfulObject
<1> QED  BY <1>6 DEF r, c

(* A step that is no WriteRules adds nothing to the history.               *)
LEMMA SameHistory ==
    ASSUME HInv, Typed', done' = done,
           TruthfulObject(obj', done) /\ TruthfulObject(seen', done),
           \A k \in 1..Len(stream') : TruthfulObject(stream'[k], done),
           work' = work \/ work' = None
    PROVE  HInv'
BY DEF HInv

LEMMA HInvNext == HInv /\ [HNext]_hvars => HInv'
<1> SUFFICES ASSUME HInv, [HNext]_hvars PROVE HInv'
  OBVIOUS
<1>t. Typed'
  BY TypedNext DEF HInv, HNext, hvars
<1>u. CASE UNCHANGED hvars
  BY <1>t, <1>u DEF hvars, vars, HInv
<1>w. CASE HNext /\ WriteRules
  <2>1. UNCHANGED << obj, stream, seen >> /\ done \subseteq done'
    BY <1>w DEF HNext, WriteRules
  <2>2. TruthfulObject(obj, done') /\ TruthfulObject(seen, done')
    BY <2>1, TruthStays DEF HInv
  <2>3. \A k \in 1..Len(stream) : TruthfulObject(stream[k], done')
    BY <2>1, TruthStays DEF HInv
  <2>4. ASSUME work' # None
        PROVE  work'.base # None /\ TruthfulObject(work'.base, done') /\ Facts(work') \subseteq done'
    <3>1. work = None
      BY <1>w DEF WriteRules
    <3>2. Facts(work') \subseteq done'
      BY <1>w, <2>4, <3>1 DEF HNext
    <3>3. work'.base = seen /\ seen # None
      BY <1>w, <2>4 DEF WriteRules
    <3> QED  BY <2>2, <3>2, <3>3
  <2> QED  BY <1>t, <2>1, <2>2, <2>3, <2>4 DEF HInv
<1>n. CASE HNext /\ ~WriteRules
  <2>d. done' = done /\ (work' = work \/ work' = None)
    <3>1. work' = work \/ work' = None
      BY <1>n DEF HNext, Next, Apply, Delete, Toggle, Deliver, Resync, Restart, PatchStatus,
                  FailPatch, operator
    <3> QED  BY <1>n, <3>1 DEF HNext
  <2>1. ASSUME NEW v \in Specs, Apply(v) PROVE HInv'
    <3>1. PICK o \in Versions : Becomes(o) /\ TruthfulObject(o, done)
      <4>1. CASE obj = None
        BY <2>1, <4>1, CreatedType, CreatedTruthful DEF Apply, Versions
      <4>2. CASE obj # None
        <5>1. /\ [obj EXCEPT !.spec = v] \in Versions
              /\ [obj EXCEPT !.spec = v].rules = obj.rules
              /\ [obj EXCEPT !.spec = v].conds = obj.conds
          BY <4>2 DEF HInv, Typed, Versions, Objects
        <5>2. TruthfulObject([obj EXCEPT !.spec = v], done)
          BY <4>2, <5>1 DEF HInv, TruthfulObject
        <5> QED  BY <2>1, <4>2, <5>1, <5>2 DEF Apply
      <4> QED  BY <4>1, <4>2
    <3> QED  BY <1>t, <2>d, <2>1, <3>1, BecomesTruthful, SameHistory DEF Apply, operator, HInv
  <2>2. CASE Delete
    <3>1. None \in Versions /\ TruthfulObject(None, done)
      BY DEF Versions, TruthfulObject
    <3> QED  BY <1>t, <2>d, <2>2, <3>1, BecomesTruthful, SameHistory DEF Delete, operator, HInv
  <2>3. CASE \/ \E part \in Parts : Toggle(part)
             \/ Resync \/ FailPatch
    <3>1. UNCHANGED << obj, stream, seen >>
      BY <2>3 DEF Toggle, Resync, FailPatch, operator
    <3> QED  BY <1>t, <2>d, <3>1, SameHistory DEF HInv
  <2>4. CASE Deliver
    <3>1. /\ Head(stream) = stream[1] /\ 1 \in 1..Len(stream)
          /\ Len(Tail(stream)) = Len(stream) - 1 /\ Len(stream) \in Nat
          /\ \A k \in 1..Len(Tail(stream)) : Tail(stream)[k] = stream[k + 1]
      BY <2>4, HeadTailProperties, EmptySeq, LenProperties DEF Deliver, HInv, Typed
    <3>2. \A k \in 1..Len(Tail(stream)) : TruthfulObject(Tail(stream)[k], done)
      BY <3>1 DEF HInv
    <3>3. TruthfulObject(Head(stream), done)
      BY <3>1 DEF HInv
    <3> QED  BY <1>t, <2>d, <2>4, <3>2, <3>3, SameHistory DEF Deliver, HInv
  <2>5. CASE Restart
    <3>1. Len(<< >>) = 0
      OBVIOUS
    <3> QED  BY <1>t, <2>d, <2>5, <3>1, SameHistory DEF Restart, HInv
  <2>6. CASE PatchStatus
    <3> DEFINE patched ==
             [spec  |-> obj.spec,
              rules |-> Merge(obj.rules, work.base.rules, RuleNames[work.base.spec]),
              conds |-> Merge(obj.conds, work.base.conds, Conditions(work))]
    <3>1. obj # None /\ work # None /\ seen' = seen
      BY <2>6 DEF PatchStatus
    <3>2. patched \in Versions /\ TruthfulObject(patched, done)
      BY <3>1, PatchedType, PatchedTruthful DEF HInv, Versions
    <3>3. Becomes(patched) \/ UNCHANGED << obj, stream >>
      BY <2>6 DEF PatchStatus
    <3> HIDE DEF patched
    <3> QED  BY <1>t, <2>d, <3>1, <3>2, <3>3, BecomesTruthful, SameHistory DEF HInv
  <2> QED  BY <1>n, <2>1, <2>2, <2>3, <2>4, <2>5, <2>6 DEF HNext, Next
<1> QED  BY <1>u, <1>w, <1>n

(* The errors, counts and rules that the status shows which step 4 of      *)
(* Reconcile patches are those of Reconciles, each under the condition of  *)
(* the write it is about, for any specs, errors and lag of the watch,      *)
(* although the copies that patches are computed from may be of a resource *)
(* deleted since.  The words around an error are not vouched for.          *)
THEOREM StatusQuotes == HSpec => []QuotesWhatHappened
<1>1. HInit => HInv
  <2> SUFFICES ASSUME HInit PROVE HInv
    OBVIOUS
  <2>1. Typed /\ Len(stream) = 0
    BY TypedInit, EmptySeq DEF HInit, Init
  <2>2. TruthfulObject(None, done)
    BY DEF TruthfulObject
  <2>3. TruthfulObject(obj, done)
    BY <2>2, CreatedTruthful DEF HInit, Init
  <2> QED  BY <2>1, <2>3 DEF HInit, Init, HInv
<1>2. HInv => QuotesWhatHappened
  BY DEF HInv, TruthfulObject, Truthful, QuotesWhatHappened
<1> QED  BY <1>1, <1>2, HInvNext, PTL DEF HSpec
=============================================================================
