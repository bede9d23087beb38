--------------------------- MODULE ArtifactSchema ---------------------------
(***************************************************************************)
(* What an artifact may look like (src/cua/artifact/schema.py): the shape  *)
(* of a step, the references of the whole, and the texts that are not      *)
(* semantic.                                                               *)
(***************************************************************************)
EXTENDS InputBinding

CONSTANT Versions \* the texts of the form major.minor.patch

PersistedActions == {"NAVIGATE", "FILL", "SELECT", "CLICK", "READ"}
ValueActions     == {"FILL", "SELECT"}
RiskTiers        == {"SAFE_READ", "REVERSIBLE_WRITE", "IRREVERSIBLE"}

(* _reject_non_semantic *)
IsRef(text)      == Len(text) = 1 /\ text[1][1] = "ref"
IsSelector(text) == text # <<>> /\ text[1][1] = "selector"
Semantic(text)   == ~IsRef(text) /\ ~IsSelector(text)

Condition(type) == [type |-> type, route |-> {}, target |-> {}, value |-> {}, text |-> <<>>]

RouteMatches(path)         == [Condition("ROUTE_MATCHES") EXCEPT !.route = {path}]
ValueEquals(target, value) ==
  [Condition("VALUE_EQUALS") EXCEPT !.target = {target}, !.value = {value}]
TextPresent(text)          == [Condition("TEXT_PRESENT") EXCEPT !.text = text]

(* _condition_placeholders and _condition_input_refs; an InputRef is the   *)
(* value whose text is one placeholder.                                    *)
ConditionInputs(c) == HolesOf(ConditionTexts(c) \cup c.route)

(* Step.placeholders and Step.input_refs *)
StepInputs(s) ==
  HolesOf(StepTexts(s) \cup s.route) \cup UNION {ConditionInputs(c) : c \in s.post}

(* TargetStrategy *)
TargetIsSemantic(t) ==
  /\ \A f \in DOMAIN t : Semantic(t[f])
  /\ \E f \in DOMAIN t : t[f] # <<>>

ConditionIsValid(c) ==
  /\ \A p \in c.route : IsPath(p)
  /\ \A t \in c.target : TargetIsSemantic(t)
  /\ c.type = "TEXT_PRESENT" => c.text # <<>>

(* Step._persisted_only, _path and _shape_per_action *)
StepIsValid(s) ==
  /\ s.action \in PersistedActions
  /\ s.risk \in RiskTiers
  /\ \A p \in s.route : IsPath(p)
  /\ \A t \in s.target : TargetIsSemantic(t)
  /\ \A c \in s.post : ConditionIsValid(c)
  /\ (s.action = "NAVIGATE") = (s.route # {})
  /\ (s.action = "NAVIGATE") = (s.target = {})
  /\ (s.action \in ValueActions) = (s.value # {})
  /\ (s.action = "READ") = (s.output # {})
  /\ (s.action = "READ") = (s.post = {})

(* The references of CapabilityArtifact._invariants *)
References(a) ==
  (UNION {StepInputs(a.steps[i]) : i \in DOMAIN a.steps})
    \cup UNION {ConditionInputs(c) : c \in a.checkpoint \cup a.outcomes}

Reads(a) == {i \in DOMAIN a.steps : a.steps[i].action = "READ"}

(* CapabilityArtifact.model_validate.  The identity is assembled from name *)
(* and version, so that it agrees with them.                               *)
Valid(a) ==
  /\ a.version \in Versions
  /\ a.steps # <<>> /\ a.checkpoint # {}
  /\ \A i \in DOMAIN a.steps : StepIsValid(a.steps[i])
  /\ \A c \in a.checkpoint \cup a.outcomes : ConditionIsValid(c)
  /\ \A i, j \in DOMAIN a.steps : a.steps[i].id = a.steps[j].id => i = j
  /\ References(a) \subseteq DOMAIN a.inputs
  /\ {n \in DOMAIN a.inputs : a.inputs[n].required} \subseteq References(a)
  /\ \A i, j \in Reads(a) : a.steps[i].output = a.steps[j].output => i = j
  /\ UNION {a.steps[i].output : i \in Reads(a)} = DOMAIN a.outputs
=============================================================================
