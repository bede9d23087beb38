----------------------------- MODULE ActionGate -----------------------------
(***************************************************************************)
(* The authorization decision (src/cua/policy).  The gate is a pure        *)
(* function of the static policy, of who owns control and of a request     *)
(* built from the destination URL (NAVIGATE) or the observed page (every   *)
(* other action); its state lives in ControlOwner and in the recorder.     *)
(*                                                                         *)
(* A route is the sequence of its path segments, a pattern the same with   *)
(* Wild standing for "{name}"; NoName is a missing target or target_name,  *)
(* Undeclared a missing declared_risk.                                     *)
(***************************************************************************)
EXTENDS Integers, Sequences

ActionTypes == {"NAVIGATE", "READ", "FILL", "SELECT", "CLICK"}
RiskTiers   == {"SAFE_READ", "REVERSIBLE_WRITE", "IRREVERSIBLE"}
Undeclared  == "UNDECLARED"
NoName      == "NO_NAME"
Wild        == "{}"

Severity == [r \in RiskTiers |-> IF r = "SAFE_READ" THEN 0
                                 ELSE IF r = "REVERSIBLE_WRITE" THEN 1 ELSE 2]

DefaultRisk == [a \in ActionTypes |-> IF a \in {"NAVIGATE", "READ"}
                                      THEN "SAFE_READ" ELSE "REVERSIBLE_WRITE"]

------------------------------------------------------------------------------
(* Routes *)

(* route_matches: whole-path, one wildcard stands for exactly one segment. *)
RouteMatches(pattern, path) ==
  /\ Len(pattern) = Len(path)
  /\ \A i \in DOMAIN pattern : pattern[i] = Wild \/ pattern[i] = path[i]

AnyRouteMatches(patterns, path) == \E p \in patterns : RouteMatches(p, path)

------------------------------------------------------------------------------
(* Risk *)

(* RiskRule.matches *)
RuleMatches(rule, request) ==
  /\ rule.action = request.action
  /\ RouteMatches(rule.pattern, request.route)
  /\ rule.target \in {NoName, request.target}

MatchedRisks(rules, request) ==
  {rules[i].risk : i \in {j \in DOMAIN rules : RuleMatches(rules[j], request)}}

(* Seeded fault of MostSevere: min for max.                                *)
LeastSevere(tiers) ==
  CHOOSE r \in tiers : \A q \in tiers : Severity[r] <= Severity[q]

MostSevere(tiers) ==
  CHOOSE r \in tiers : \A q \in tiers : Severity[q] <= Severity[r]

(* Seeded fault of ClassifyRisk: the first matching rule decides.          *)
FirstMatch(rules, request) ==
  LET hits == {i \in DOMAIN rules : RuleMatches(rules[i], request)}
  IN  IF hits = {} THEN DefaultRisk[request.action]
      ELSE rules[CHOOSE i \in hits : \A j \in hits : i <= j].risk

(* classify_risk: the most severe matching rule, the default if none.      *)
ClassifyRisk(rules, request) ==
  IF MatchedRisks(rules, request) = {} THEN DefaultRisk[request.action]
  ELSE MostSevere(MatchedRisks(rules, request))

(* Seeded fault of EffectiveRisk: the declaration replaces policy's tier.  *)
DeclarationWins(policyRisk, declared) ==
  IF declared = Undeclared THEN policyRisk ELSE declared

(* Seeded fault of EffectiveRisk: the declaration is not looked at.        *)
PolicyOnly(policyRisk, declared) == policyRisk

(* effective_risk: an artifact's declaration may raise, never lower.       *)
EffectiveRisk(policyRisk, declared) ==
  IF declared = Undeclared THEN policyRisk
  ELSE IF Severity[declared] <= Severity[policyRisk] THEN policyRisk
  ELSE declared

RequestRisk(policy, request) ==
  EffectiveRisk(ClassifyRisk(policy.rules, request), request.declared)

------------------------------------------------------------------------------
(* The decision *)

(* Seeded fault of DenyReason: the owner is not asked.                     *)
OwnerNotAsked(policy, isAutomation, request) ==
  IF request.action \notin policy.actions THEN "ACTION_TYPE_NOT_ALLOWED"
  ELSE IF request.origin \notin policy.origins THEN "ORIGIN_NOT_ALLOWED"
  ELSE IF ~AnyRouteMatches(policy.routes, request.route) THEN "ROUTE_NOT_ALLOWED"
  ELSE "NONE"

(* PolicyConfig: everything that is not listed is denied. *)
DenyReason(policy, isAutomation, request) ==
  IF ~isAutomation THEN "CONTROL_NOT_OWNED"
  ELSE IF request.action \notin policy.actions THEN "ACTION_TYPE_NOT_ALLOWED"
  ELSE IF request.origin \notin policy.origins THEN "ORIGIN_NOT_ALLOWED"
  ELSE IF ~AnyRouteMatches(policy.routes, request.route) THEN "ROUTE_NOT_ALLOWED"
  ELSE "NONE"

(* Seeded fault of Authorize: risk is looked at before the denials.        *)
RiskBeforePolicy(policy, isAutomation, request) ==
  LET risk == RequestRisk(policy, request)
      deny == DenyReason(policy, isAutomation, request)
  IN  [decision |-> IF risk = "IRREVERSIBLE" THEN "REQUIRE_INTERVENTION"
                    ELSE IF deny # "NONE" THEN "DENY" ELSE "ALLOW",
       risk     |-> risk,
       reason   |-> deny]

(* ActionGate.authorize: every denial comes before the question of risk.   *)
Authorize(policy, isAutomation, request) ==
  LET risk == RequestRisk(policy, request)
      deny == DenyReason(policy, isAutomation, request)
  IN  [decision |-> IF deny # "NONE" THEN "DENY"
                    ELSE IF risk = "IRREVERSIBLE" THEN "REQUIRE_INTERVENTION"
                    ELSE "ALLOW",
       risk     |-> risk,
       reason   |-> deny]

Decisions == {"ALLOW", "DENY", "REQUIRE_INTERVENTION"}
=============================================================================
