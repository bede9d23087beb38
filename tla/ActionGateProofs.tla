-------------------------- MODULE ActionGateProofs --------------------------
(***************************************************************************)
(* Facts about the gate's decision, for any policy and any request.        *)
(***************************************************************************)
EXTENDS ActionGate, TLAPS

(* The most severe of a non-empty set of tiers is one of them, and none is *)
(* more severe.                                                            *)
LEMMA MostSevereIsMax ==
  ASSUME NEW tiers \in SUBSET RiskTiers, tiers # {}
  PROVE  /\ MostSevere(tiers) \in tiers
         /\ \A q \in tiers : Severity[q] <= Severity[MostSevere(tiers)]
<1> DEFINE Top(r) == \A q \in tiers : Severity[q] <= Severity[r]
<1>1. \E r \in tiers : Top(r)
  <2>0. /\ \A r \in RiskTiers : Severity[r] \in 0..2
        /\ Severity["IRREVERSIBLE"] = 2 /\ Severity["REVERSIBLE_WRITE"] = 1
        /\ Severity["SAFE_READ"] = 0
    BY DEF Severity, RiskTiers
  <2>1. CASE "IRREVERSIBLE" \in tiers
    BY <2>0, <2>1
  <2>2. CASE "IRREVERSIBLE" \notin tiers /\ "REVERSIBLE_WRITE" \in tiers
    BY <2>0, <2>2 DEF RiskTiers
  <2>3. CASE "IRREVERSIBLE" \notin tiers /\ "REVERSIBLE_WRITE" \notin tiers
    <3>1. tiers = {"SAFE_READ"}
      BY <2>3 DEF RiskTiers
    <3>2. QED BY <2>0, <3>1
  <2>4. QED BY <2>1, <2>2, <2>3
<1>2. QED BY <1>1 DEF MostSevere

(* Policy's tier is a tier. *)
LEMMA ClassifyType ==
  ASSUME NEW rules, NEW q, q.action \in ActionTypes,
         \A i \in DOMAIN rules : rules[i].risk \in RiskTiers
  PROVE  /\ MatchedRisks(rules, q) \in SUBSET RiskTiers
         /\ ClassifyRisk(rules, q) \in RiskTiers
<1>1. MatchedRisks(rules, q) \in SUBSET RiskTiers
  BY DEF MatchedRisks
<1>2. CASE MatchedRisks(rules, q) = {}
  BY <1>1, <1>2 DEF ClassifyRisk, DefaultRisk, RiskTiers
<1>3. CASE MatchedRisks(rules, q) # {}
  BY <1>1, <1>3, MostSevereIsMax DEF ClassifyRisk
<1>4. QED BY <1>1, <1>2, <1>3

(* effective_risk is at least both of what it weighs. *)
LEMMA EffectiveRiskRaises ==
  ASSUME NEW p \in RiskTiers, NEW d \in RiskTiers \cup {Undeclared}
  PROVE  /\ EffectiveRisk(p, d) \in RiskTiers
         /\ Severity[EffectiveRisk(p, d)] >= Severity[p]
         /\ d # Undeclared => Severity[EffectiveRisk(p, d)] >= Severity[d]
BY DEF EffectiveRisk, Severity, RiskTiers, Undeclared

(* What the gate works with is IRREVERSIBLE as soon as a matching rule or  *)
(* the declaration says so.                                                *)
LEMMA IrreversibleStays ==
  ASSUME NEW pol, NEW q, q.action \in ActionTypes,
         q.declared \in RiskTiers \cup {Undeclared},
         \A i \in DOMAIN pol.rules : pol.rules[i].risk \in RiskTiers,
         "IRREVERSIBLE" \in MatchedRisks(pol.rules, q) \cup {q.declared}
  PROVE  RequestRisk(pol, q) = "IRREVERSIBLE"
<1> DEFINE p == ClassifyRisk(pol.rules, q)
<1>1. p \in RiskTiers /\ MatchedRisks(pol.rules, q) \in SUBSET RiskTiers
  BY ClassifyType
<1>2. EffectiveRisk(p, q.declared) \in RiskTiers
  BY <1>1, EffectiveRiskRaises
<1>3. \A r \in RiskTiers : Severity[r] >= 2 => r = "IRREVERSIBLE"
  BY DEF Severity, RiskTiers
<1>4. Severity["IRREVERSIBLE"] = 2
  BY DEF Severity, RiskTiers
<1>5. Severity[p] \in Int /\ Severity[EffectiveRisk(p, q.declared)] \in Int
  BY <1>1, <1>2 DEF Severity
<1>6. CASE "IRREVERSIBLE" \in MatchedRisks(pol.rules, q)
  <2>1. Severity[p] >= 2
    BY <1>1, <1>4, <1>5, <1>6, MostSevereIsMax DEF ClassifyRisk
  <2>2. Severity[EffectiveRisk(p, q.declared)] >= 2
    BY <1>1, <1>5, <2>1, EffectiveRiskRaises
  <2>3. QED BY <1>2, <1>3, <2>2 DEF RequestRisk
<1>7. CASE q.declared = "IRREVERSIBLE"
  <2>1. Severity[EffectiveRisk(p, q.declared)] >= 2
    BY <1>1, <1>4, <1>7, EffectiveRiskRaises DEF Undeclared
  <2>2. QED BY <1>2, <1>3, <2>1 DEF RequestRisk
<1>8. QED BY <1>6, <1>7

(* The answer has its type, and says ALLOW to automation only, and never   *)
(* to what a matching rule or the artifact calls IRREVERSIBLE.             *)
LEMMA AuthorizeFacts ==
  ASSUME NEW pol, NEW auto \in BOOLEAN, NEW q, q.action \in ActionTypes,
         q.declared \in RiskTiers \cup {Undeclared},
         \A i \in DOMAIN pol.rules : pol.rules[i].risk \in RiskTiers
  PROVE  LET a == Authorize(pol, auto, q)
         IN  /\ a.risk \in RiskTiers /\ a.risk = RequestRisk(pol, q)
             /\ a.decision # "DENY" => auto
             /\ a.decision = "ALLOW" =>
                  "IRREVERSIBLE" \notin MatchedRisks(pol.rules, q) \cup {q.declared}
             /\ a.decision = "DENY" <=> a.reason # "NONE"
<1>1. RequestRisk(pol, q) \in RiskTiers
  BY ClassifyType, EffectiveRiskRaises DEF RequestRisk
<1>2. "IRREVERSIBLE" \in MatchedRisks(pol.rules, q) \cup {q.declared}
        => RequestRisk(pol, q) = "IRREVERSIBLE"
  BY IrreversibleStays
<1>3. ~auto => DenyReason(pol, auto, q) = "CONTROL_NOT_OWNED"
  BY DEF DenyReason
<1>4. QED BY <1>1, <1>2, <1>3 DEF Authorize
=============================================================================
