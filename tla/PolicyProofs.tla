---------------------------- MODULE PolicyProofs ----------------------------
(***************************************************************************)
(* PolicyLaws for every policy and every number of rules.                  *)
(***************************************************************************)
EXTENDS PolicyLaws, ActionGateProofs, SequenceTheorems

PolicyTypeOK ==
  /\ policy \in [rules : Seq(Rules), actions : SUBSET Actions, origins : SUBSET Origins,
                 routes : SUBSET Patterns]
  /\ isAutomation \in BOOLEAN
  /\ request \in [action : Actions, origin : Origins, route : Routes, target : Targets,
                  declared : RiskTiers \cup {Undeclared}]

LEMMA SeqElement ==
  ASSUME NEW S, NEW s \in Seq(S), NEW i \in DOMAIN s
  PROVE  s[i] \in S
<1>1. DOMAIN s = 1..Len(s)
  OBVIOUS
<1>2. QED BY <1>1

(* The rules in another order. *)
Reordered(rules, order) == [k \in DOMAIN rules |-> rules[order[k]]]

(* They are still rules, as many, and the same ones. *)
LEMMA ReorderedFacts ==
  ASSUME NEW rules \in Seq(Rules), NEW order \in Surjection(DOMAIN rules, DOMAIN rules)
  PROVE  /\ Reordered(rules, order) \in Seq(Rules)
         /\ \A i \in DOMAIN Reordered(rules, order) : \E j \in DOMAIN rules :
              Reordered(rules, order)[i] = rules[j]
         /\ \A j \in DOMAIN rules : \E i \in DOMAIN Reordered(rules, order) :
              rules[j] = Reordered(rules, order)[i]
<1>1. PICK n \in Nat : DOMAIN rules = 1..n
  BY LenProperties
<1>2. /\ \A i \in 1..n : order[i] \in 1..n
      /\ \A j \in 1..n : \E i \in 1..n : order[i] = j
  BY <1>1 DEF Surjection
<1>3. /\ DOMAIN Reordered(rules, order) = 1..n
      /\ \A i \in 1..n : Reordered(rules, order)[i] = rules[order[i]]
  BY <1>1 DEF Reordered
<1>4. \A i \in 1..n : rules[i] \in Rules
  BY <1>1, SeqElement
<1>5. Reordered(rules, order) \in Seq(Rules)
  <2>1. Reordered(rules, order) \in [1..n -> Rules]
    BY <1>1, <1>2, <1>4 DEF Reordered
  <2>2. [1..n -> Rules] \subseteq Seq(Rules)
    BY SeqDef, Zenon
  <2>3. QED BY <2>1, <2>2, Zenon
<1> DEFINE t == Reordered(rules, order)
<1> HIDE DEF t
<1>6. ASSUME NEW i \in DOMAIN t PROVE \E j \in DOMAIN rules : t[i] = rules[j]
  BY <1>1, <1>2, <1>3 DEF t
<1>7. ASSUME NEW j \in DOMAIN rules PROVE \E i \in DOMAIN t : rules[j] = t[i]
  <2>1. PICK i \in 1..n : order[i] = j
    BY <1>1, <1>2
  <2>2. i \in DOMAIN t /\ t[i] = rules[j]
    BY <1>3, <2>1 DEF t
  <2>3. QED BY <2>2
<1>8. QED BY <1>5, <1>6, <1>7, Zenon DEF t

LEMMA PolicyStep == PolicyTypeOK /\ [Next]_vars => PolicyTypeOK'
<1> SUFFICES ASSUME PolicyTypeOK, [Next]_vars PROVE PolicyTypeOK'
  OBVIOUS
<1>1. CASE AddRule
  <2>1. PICK r \in Rules : policy' = [policy EXCEPT !.rules = Append(@, r)]
    BY <1>1 DEF AddRule
  <2>2. Append(policy.rules, r) \in Seq(Rules)
    BY DEF PolicyTypeOK
  <2>3. QED BY <1>1, <2>1, <2>2 DEF PolicyTypeOK, AddRule
<1>2. CASE Reorder
  <2>1. PICK order \in Surjection(DOMAIN policy.rules, DOMAIN policy.rules) :
          policy' = [policy EXCEPT !.rules = Reordered(policy.rules, order)]
    BY <1>2 DEF Reorder, Reordered
  <2>2. Reordered(policy.rules, order) \in Seq(Rules)
    BY ReorderedFacts DEF PolicyTypeOK
  <2>3. QED BY <1>2, <2>1, <2>2 DEF PolicyTypeOK, Reorder
<1>3. CASE Declare
  BY <1>3 DEF PolicyTypeOK, Declare
<1>4. CASE ChangeOwner
  BY <1>4 DEF PolicyTypeOK, ChangeOwner
<1>5. CASE UNCHANGED vars
  BY <1>5 DEF PolicyTypeOK, vars
<1>6. QED BY <1>1, <1>2, <1>3, <1>4, <1>5 DEF Next

LEMMA PolicyTyped == Spec => []PolicyTypeOK
<1>1. Init => PolicyTypeOK
  <2> SUFFICES ASSUME Init PROVE PolicyTypeOK
    OBVIOUS
  <2>1. PICK a \in {Actions, {}}, o \in SUBSET Origins, r \in {{p} : p \in Patterns} :
          policy = [rules |-> <<>>, actions |-> a, origins |-> o, routes |-> r]
    BY DEF Init
  <2>2. <<>> \in Seq(Rules) /\ a \in SUBSET Actions /\ r \in SUBSET Patterns
    OBVIOUS
  <2>3. QED BY <2>1, <2>2 DEF Init, PolicyTypeOK, Requests
<1>2. QED BY <1>1, PolicyStep, PTL DEF Spec

LEMMA RulesTyped ==
  ASSUME PolicyTypeOK
  PROVE  \A i \in DOMAIN policy.rules : policy.rules[i].risk \in RiskTiers
<1>1. policy.rules \in Seq(Rules)
  BY DEF PolicyTypeOK
<1>2. \A i \in DOMAIN policy.rules : policy.rules[i] \in Rules
  BY <1>1, SeqElement
<1>3. QED BY <1>2 DEF Rules

(* ALLOW is never the answer to what a matching rule or the artifact calls *)
(* IRREVERSIBLE, nor to anyone but automation: for every policy.           *)
THEOREM NeverSilentlyIrreversible == Spec => []NoSilentIrreversible
<1>1. PolicyTypeOK => NoSilentIrreversible
  <2> SUFFICES ASSUME PolicyTypeOK PROVE NoSilentIrreversible
    OBVIOUS
  <2>1. request.action \in ActionTypes /\ request.declared \in RiskTiers \cup {Undeclared}
    BY LawsAssumption DEF PolicyTypeOK
  <2>2. isAutomation \in BOOLEAN
        /\ \A i \in DOMAIN policy.rules : policy.rules[i].risk \in RiskTiers
    BY RulesTyped DEF PolicyTypeOK
  <2>3. QED BY <2>1, <2>2, AuthorizeFacts DEF NoSilentIrreversible, Answer, Matching
<1>2. QED BY <1>1, PolicyTyped, PTL

(* A declaration can only raise the tier. *)
THEOREM DeclarationsRaise == Spec => DeclarationOnlyRaises
<1>1. PolicyTypeOK /\ [Next]_vars =>
        [Declare => Severity[Answer'.risk] >= Severity[Answer.risk]]_vars
  <2> SUFFICES ASSUME PolicyTypeOK, Declare
               PROVE  Severity[Answer'.risk] >= Severity[Answer.risk]
    OBVIOUS
  <2> DEFINE p == ClassifyRisk(policy.rules, request)
  <2>1. PICK d \in RiskTiers : request' = [request EXCEPT !.declared = d]
    BY DEF Declare
  <2>2. /\ request'.action = request.action /\ request'.route = request.route
        /\ request'.target = request.target /\ request'.declared = d
        /\ policy' = policy /\ request.declared = Undeclared
    BY <2>1 DEF Declare, PolicyTypeOK
  <2>3. MatchedRisks(policy'.rules, request') = MatchedRisks(policy.rules, request)
    BY <2>2 DEF MatchedRisks, RuleMatches
  <2>4. ClassifyRisk(policy'.rules, request') = p
    BY <2>2, <2>3 DEF ClassifyRisk
  <2>5. Answer.risk = p
    BY <2>2 DEF Answer, Authorize, RequestRisk, EffectiveRisk
  <2>6. Answer'.risk = EffectiveRisk(p, d)
    BY <2>2, <2>4 DEF Answer, Authorize, RequestRisk
  <2>7. p \in RiskTiers
    BY ClassifyType, RulesTyped, LawsAssumption DEF PolicyTypeOK
  <2>8. QED BY <2>5, <2>6, <2>7, EffectiveRiskRaises
<1>2. QED BY <1>1, PolicyTyped, PTL DEF Spec, DeclarationOnlyRaises

(* The reasons to deny are not a matter of rules or declarations. *)
LEMMA DenyReasonStable ==
  ASSUME NEW p, NEW q, NEW auto, NEW r, NEW s,
         p.actions = q.actions, p.origins = q.origins, p.routes = q.routes,
         r.action = s.action, r.origin = s.origin, r.route = s.route
  PROVE  DenyReason(p, auto, r) = DenyReason(q, auto, s)
BY DEF DenyReason, AnyRouteMatches, RouteMatches

(* No rule, order of rules or declaration makes or unmakes a hard denial.  *)
THEOREM DenialsStayHard == Spec => DenialsAreHard
<1>1. PolicyTypeOK /\ [Next]_vars =>
        [AddRule \/ Reorder \/ Declare =>
           /\ Answer'.reason = Answer.reason
           /\ Answer'.decision = "DENY" <=> Answer.decision = "DENY"]_vars
  <2> SUFFICES ASSUME PolicyTypeOK, AddRule \/ Reorder \/ Declare
               PROVE  /\ Answer'.reason = Answer.reason
                      /\ Answer'.decision = "DENY" <=> Answer.decision = "DENY"
    OBVIOUS
  <2>1. /\ policy'.actions = policy.actions /\ policy'.origins = policy.origins
        /\ policy'.routes = policy.routes /\ isAutomation' = isAutomation
        /\ request'.action = request.action /\ request'.origin = request.origin
        /\ request'.route = request.route
    <3>1. CASE AddRule
      BY <3>1 DEF AddRule, PolicyTypeOK
    <3>2. CASE Reorder
      BY <3>2 DEF Reorder, PolicyTypeOK
    <3>3. CASE Declare
      BY <3>3 DEF Declare, PolicyTypeOK
    <3>4. QED BY <3>1, <3>2, <3>3
  <2>2. DenyReason(policy', isAutomation', request') = DenyReason(policy, isAutomation, request)
    BY <2>1, DenyReasonStable
  <2>3. QED BY <2>2 DEF Answer, Authorize
<1>2. QED BY <1>1, PolicyTyped, PTL DEF Spec, DenialsAreHard

(* More rules, in any order, match as much at least. *)
LEMMA MatchesMonotonic ==
  ASSUME NEW s, NEW t, NEW q, \A i \in DOMAIN s : \E j \in DOMAIN t : s[i] = t[j]
  PROVE  MatchedRisks(s, q) \subseteq MatchedRisks(t, q)
<1> SUFFICES ASSUME NEW r \in MatchedRisks(s, q) PROVE r \in MatchedRisks(t, q)
  OBVIOUS
<1>1. PICK i \in DOMAIN s : RuleMatches(s[i], q) /\ r = s[i].risk
  BY DEF MatchedRisks
<1>2. PICK j \in DOMAIN t : t[j] = s[i]
  BY <1>1
<1>3. QED BY <1>1, <1>2 DEF MatchedRisks

(* Whatever the order of the rules, the set of matching tiers is the same. *)
LEMMA ReorderKeepsMatches ==
  ASSUME NEW rules \in Seq(Rules), NEW order \in Surjection(DOMAIN rules, DOMAIN rules), NEW q
  PROVE  MatchedRisks(Reordered(rules, order), q) = MatchedRisks(rules, q)
<1> DEFINE t == Reordered(rules, order)
<1>1. /\ \A i \in DOMAIN t : \E j \in DOMAIN rules : t[i] = rules[j]
      /\ \A j \in DOMAIN rules : \E i \in DOMAIN t : rules[j] = t[i]
  BY ReorderedFacts
<1> HIDE DEF t
<1>2. MatchedRisks(t, q) \subseteq MatchedRisks(rules, q)
  BY <1>1, MatchesMonotonic
<1>3. MatchedRisks(rules, q) \subseteq MatchedRisks(t, q)
  BY <1>1, MatchesMonotonic
<1>4. QED BY <1>2, <1>3 DEF t

(* Any number of rules, rearranged in any way: the gate answers alike. *)
THEOREM OrderNeverMatters == Spec => OrderIsIrrelevant
<1>1. PolicyTypeOK /\ [Next]_vars => [Reorder => Answer' = Answer]_vars
  <2> SUFFICES ASSUME PolicyTypeOK, Reorder PROVE Answer' = Answer
    OBVIOUS
  <2>0. PICK order \in Surjection(DOMAIN policy.rules, DOMAIN policy.rules) :
          policy' = [policy EXCEPT !.rules = Reordered(policy.rules, order)]
    BY DEF Reorder, Reordered
  <2>1. /\ policy.rules \in Seq(Rules)
        /\ policy'.rules = Reordered(policy.rules, order)
        /\ policy'.actions = policy.actions /\ policy'.origins = policy.origins
        /\ policy'.routes = policy.routes /\ isAutomation' = isAutomation
        /\ request' = request
    BY <2>0 DEF PolicyTypeOK, Reorder
  <2>2. MatchedRisks(policy'.rules, request') = MatchedRisks(policy.rules, request)
    BY <2>1, ReorderKeepsMatches
  <2>3. RequestRisk(policy', request') = RequestRisk(policy, request)
    BY <2>1, <2>2 DEF RequestRisk, ClassifyRisk
  <2>4. DenyReason(policy', isAutomation', request') = DenyReason(policy, isAutomation, request)
    BY <2>1, DenyReasonStable
  <2>5. QED BY <2>3, <2>4 DEF Answer, Authorize
<1>2. QED BY <1>1, PolicyTyped, PTL DEF Spec, OrderIsIrrelevant

(* effective_risk is monotone in policy's tier. *)
LEMMA EffectiveRiskMonotone ==
  ASSUME NEW p \in RiskTiers, NEW r \in RiskTiers, Severity[p] <= Severity[r],
         NEW d \in RiskTiers \cup {Undeclared}
  PROVE  Severity[EffectiveRisk(p, d)] <= Severity[EffectiveRisk(r, d)]
<1>1. \A t \in RiskTiers : Severity[t] \in Int
  BY DEF Severity
<1>2. CASE d = Undeclared
  BY <1>2 DEF EffectiveRisk
<1>3. CASE d # Undeclared
  BY <1>1, <1>3 DEF EffectiveRisk
<1>4. QED BY <1>2, <1>3

(* Once a rule matches, a further rule can only raise the tier. *)
THEOREM MatchedRulesRaise == Spec => MatchedRulesOnlyRaise
<1>1. PolicyTypeOK /\ [Next]_vars =>
        [AddRule /\ Matching # {} => Severity[Answer'.risk] >= Severity[Answer.risk]]_vars
  <2> SUFFICES ASSUME PolicyTypeOK, PolicyTypeOK', AddRule, Matching # {}
               PROVE  Severity[Answer'.risk] >= Severity[Answer.risk]
    <3>1. PolicyTypeOK /\ AddRule => PolicyTypeOK'
      BY PolicyStep DEF Next
    <3>2. QED BY <3>1
  <2> DEFINE p == ClassifyRisk(policy.rules, request)
             r == ClassifyRisk(policy'.rules, request')
  <2>1. PICK x \in Rules : policy' = [policy EXCEPT !.rules = Append(@, x)]
    BY DEF AddRule
  <2>2. policy'.rules = Append(policy.rules, x) /\ policy.rules \in Seq(Rules)
        /\ request' = request
    BY <2>1 DEF AddRule, PolicyTypeOK
  <2>3. \A i \in DOMAIN policy.rules : \E j \in DOMAIN policy'.rules :
           policy.rules[i] = policy'.rules[j]
    BY <2>2
  <2>4. Matching \subseteq Matching'
    BY <2>2, <2>3, MatchesMonotonic DEF Matching
  <2>5. request.action \in ActionTypes /\ request.declared \in RiskTiers \cup {Undeclared}
    BY LawsAssumption DEF PolicyTypeOK
  <2>6. /\ \A i \in DOMAIN policy.rules : policy.rules[i].risk \in RiskTiers
        /\ \A i \in DOMAIN policy'.rules : policy'.rules[i].risk \in RiskTiers
    <3>1. \A i \in DOMAIN policy'.rules : policy'.rules[i] \in Rules
      <4>1. policy'.rules \in Seq(Rules)
        BY DEF PolicyTypeOK
      <4>2. QED BY <4>1, SeqElement
    <3>2. QED BY <3>1, RulesTyped DEF Rules
  <2>7. p \in RiskTiers /\ r \in RiskTiers
        /\ Matching \in SUBSET RiskTiers /\ Matching' \in SUBSET RiskTiers
    BY <2>2, <2>5, <2>6, ClassifyType DEF Matching
  <2>8. p = MostSevere(Matching) /\ r = MostSevere(Matching')
    BY <2>4 DEF ClassifyRisk, Matching
  <2>9. Severity[p] <= Severity[r]
    BY <2>4, <2>7, <2>8, MostSevereIsMax
  <2>10. Severity[EffectiveRisk(p, request.declared)]
           <= Severity[EffectiveRisk(r, request.declared)]
    BY <2>5, <2>7, <2>9, EffectiveRiskMonotone
  <2>11. /\ Severity[EffectiveRisk(p, request.declared)] \in Int
         /\ Severity[EffectiveRisk(r, request.declared)] \in Int
    BY <2>5, <2>7, EffectiveRiskRaises DEF Severity
  <2>12. /\ Answer.risk = EffectiveRisk(p, request.declared)
         /\ Answer'.risk = EffectiveRisk(r, request.declared)
    BY <2>2 DEF Answer, Authorize, RequestRisk
  <2>13. QED BY <2>10, <2>11, <2>12
<1>2. QED BY <1>1, PolicyTyped, PTL DEF Spec, MatchedRulesOnlyRaise
=============================================================================
