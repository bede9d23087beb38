----------------------------- MODULE PolicyLaws -----------------------------
(***************************************************************************)
(* The gate's answer as policy, ownership and the artifact change around   *)
(* one request: what a rule added to the policy file, a reordered file, a  *)
(* declaration in the artifact or a change of owner may and may not do to  *)
(* the decision.                                                           *)
(***************************************************************************)
EXTENDS ActionGate, Functions

CONSTANTS Actions, Origins, Routes, Patterns, Targets, \* what requests and rules are made of
          MaxRules                                    \* bound on the rules of a policy

ASSUME LawsAssumption == /\ Actions \subseteq ActionTypes /\ NoName \in Targets
                         /\ MaxRules \in Nat

VARIABLES policy, isAutomation, request

vars == <<policy, isAutomation, request>>

Rules == [action : Actions, pattern : Patterns, target : Targets, risk : RiskTiers]

Requests == [action : Actions, origin : Origins, route : Routes, target : Targets,
             declared : {Undeclared}]

Init == /\ policy \in [rules : {<<>>}, actions : {Actions, {}},
                       origins : SUBSET Origins, routes : {{p} : p \in Patterns}]
        /\ isAutomation = TRUE
        /\ request \in Requests

AddRule == /\ Len(policy.rules) < MaxRules
           /\ \E r \in Rules : policy' = [policy EXCEPT !.rules = Append(@, r)]
           /\ UNCHANGED <<isAutomation, request>>

(* The same rules in any other order. *)
Reorder == /\ \E order \in Surjection(DOMAIN policy.rules, DOMAIN policy.rules) :
                policy' = [policy EXCEPT !.rules = [k \in DOMAIN @ |-> @[order[k]]]]
           /\ UNCHANGED <<isAutomation, request>>

Declare == /\ request.declared = Undeclared
           /\ \E d \in RiskTiers : request' = [request EXCEPT !.declared = d]
           /\ UNCHANGED <<policy, isAutomation>>

ChangeOwner == isAutomation' = ~isAutomation /\ UNCHANGED <<policy, request>>

Next == AddRule \/ Reorder \/ Declare \/ ChangeOwner

Spec == Init /\ [][Next]_vars

------------------------------------------------------------------------------
Answer == Authorize(policy, isAutomation, request)

Matching == MatchedRisks(policy.rules, request)

(* The order of the rules in the policy file does not matter: the most     *)
(* severe match decides, not the first.                                    *)
OrderIsIrrelevant == [][Reorder => Answer' = Answer]_vars

(* A hard denial is decided before any question of risk: no rule and no    *)
(* declaration turns one into a request for the human, or makes one.       *)
DenialsAreHard == [][AddRule \/ Reorder \/ Declare =>
                       /\ Answer'.reason = Answer.reason
                       /\ Answer'.decision = "DENY" <=> Answer.decision = "DENY"]_vars

(* Declaring a risk never lowers the tier the gate works with.             *)
DeclarationOnlyRaises == [][Declare => Severity[Answer'.risk] >= Severity[Answer.risk]]_vars

(* Once some rule matches, further rules never lower the tier.             *)
MatchedRulesOnlyRaise == [][AddRule /\ Matching # {} =>
                              Severity[Answer'.risk] >= Severity[Answer.risk]]_vars

(* ALLOW is never given to what a matching rule or the artifact calls      *)
(* IRREVERSIBLE, nor while the human owns control.                         *)
NoSilentIrreversible ==
  Answer.decision = "ALLOW" =>
    isAutomation /\ "IRREVERSIBLE" \notin Matching \cup {request.declared}
=============================================================================
