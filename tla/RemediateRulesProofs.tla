------------------------ MODULE RemediateRulesProofs ------------------------
(***************************************************************************)
(* Facts about the rule table of the remediator.                           *)
(***************************************************************************)
EXTENDS RemediateRules, TLAPS

LEMMA RuleTable ==
    ASSUME NEW i \in RuleIndexes
    PROVE  /\ Rules[i].cooldown \in Nat
           /\ Rules[i].cooldown >= 300
           /\ Rules[i].burn \in Nat
           /\ Rules[i].dangerous <=> i = 1
           /\ Rules[1].burn = 500
  BY DEF Rules, RuleIndexes

LEMMA FirstMatch ==
    ASSUME NEW a, NEW b, NEW i \in RuleIndexes, Matches(i, a, b)
    PROVE  \E k \in RuleIndexes :
              Matches(k, a, b) /\ \A j \in RuleIndexes : j < k => ~Matches(j, a, b)
<1>1. CASE Matches(1, a, b)
  BY <1>1 DEF RuleIndexes
<1>2. CASE ~Matches(1, a, b) /\ Matches(2, a, b)
  BY <1>2 DEF RuleIndexes
<1>3. CASE ~Matches(1, a, b) /\ ~Matches(2, a, b) /\ Matches(3, a, b)
  BY <1>3 DEF RuleIndexes
<1>4. CASE ~Matches(1, a, b) /\ ~Matches(2, a, b) /\ ~Matches(3, a, b)
  <2>1. i = 4
    BY <1>4 DEF RuleIndexes
  <2> QED  BY <1>4, <2>1 DEF RuleIndexes
<1> QED  BY <1>1, <1>2, <1>3, <1>4

LEMMA MatchFound ==
    ASSUME NEW a, NEW b, Match(a, b) # NoRule
    PROVE  /\ Match(a, b) \in RuleIndexes
           /\ Matches(Match(a, b), a, b)
           /\ \A j \in RuleIndexes : j < Match(a, b) => ~Matches(j, a, b)
<1> DEFINE First(k) == /\ Matches(k, a, b)
                       /\ \A j \in RuleIndexes : j < k => ~Matches(j, a, b)
<1>1. PICK i \in RuleIndexes : Matches(i, a, b)
  BY DEF Match
<1>2. \E k \in RuleIndexes : First(k)
  BY <1>1, FirstMatch
<1>3. Match(a, b) = CHOOSE k \in RuleIndexes : First(k)
  BY <1>1 DEF Match
<1> HIDE DEF First
<1>4. Match(a, b) \in RuleIndexes /\ First(Match(a, b))
  BY <1>2, <1>3
<1> QED  BY <1>4 DEF First

(* Match takes the matching row with the highest threshold, whatever the   *)
(* burn rate: the table of rules.go is sorted for it.                      *)
THEOREM MatchTakesHighest ==
    ASSUME NEW a, NEW b \in Int, NEW j \in RuleIndexes, Matches(j, a, b)
    PROVE  /\ Match(a, b) \in RuleIndexes
           /\ Matches(Match(a, b), a, b)
           /\ Rules[Match(a, b)].burn >= Rules[j].burn
<1>1. Match(a, b) # NoRule
  <2>1. \A k \in RuleIndexes : k # NoRule
    BY DEF RuleIndexes, NoRule
  <2>2. \E k \in RuleIndexes :
           Matches(k, a, b) /\ \A i \in RuleIndexes : i < k => ~Matches(i, a, b)
    BY FirstMatch
  <2> QED  BY <2>1, <2>2 DEF Match
<1>2. Match(a, b) \in RuleIndexes /\ Matches(Match(a, b), a, b) /\ ~(j < Match(a, b))
  BY <1>1, MatchFound
<1>3. \A k, l \in RuleIndexes : k <= l => Rules[k].burn >= Rules[l].burn
  BY DEF Rules, RuleIndexes
<1> QED  BY <1>2, <1>3 DEF RuleIndexes
=============================================================================
