-------------------------- MODULE ArtifactCompiler --------------------------
(***************************************************************************)
(* From the persisted record of a discovery run and the declaration of the *)
(* capability to an artifact, or to the closed set of reasons why not      *)
(* (src/cua/artifact/compiler.py).  One action per return of compile().    *)
(*                                                                         *)
(* The record: stop and satisfied, the goal and the declared inputs and    *)
(* outputs, the templated steps.  The declaration: name, inputs (with      *)
(* required), outputs (a type each), the detectors of the known outcomes.  *)
(* Both bring texts that are only passed on: descriptions, and what the    *)
(* provenance says of the run.                                             *)
(***************************************************************************)
EXTENDS ArtifactSchema

CONSTANTS Denotes,  \* type -> the texts that convert under it
          Calls     \* what compile() may be called with: record, declaration, version

AtMostOne(S) == \A x, y \in S : x = y

(* The record has the types of evidence/events.py, a list of steps with    *)
(* optional fields, and the declaration detectors of the schema; a target  *)
(* names its role, which the accessibility tree always has.                *)
ASSUME CallsAssumption ==
  \A call \in Calls :
    LET steps == call.record.steps
    IN  /\ steps \in Seq({steps[i] : i \in DOMAIN steps})
        /\ \A i \in DOMAIN steps :
             /\ AtMostOne(steps[i].route) /\ AtMostOne(steps[i].value)
             /\ AtMostOne(steps[i].output)
             /\ \A t \in steps[i].target : "role" \in DOMAIN t /\ t["role"] # <<>>
        /\ \A c \in call.declaration.outcomes : ConditionIsValid(c)

VARIABLES record, declaration, version, codes, artifact

vars == <<record, declaration, version, codes, artifact>>

Code(code, wrong) == IF wrong THEN {code} ELSE {}

Steps == record.steps

------------------------------------------------------------------------------
(* The record *)

(* _check_record *)
RecordErrors ==
  Code("TRACE_NOT_SUCCESSFUL", record.stop # "GOAL_REACHED" \/ ~record.satisfied)
    \cup Code("TRACE_EMPTY", Steps = <<>>)
    \cup Code("DECLARATION_MISMATCH",
              \/ record.goal # declaration.name
              \/ record.inputs # [n \in DOMAIN declaration.inputs |-> declaration.inputs[n].type]
              \/ record.outputs # declaration.outputs)

------------------------------------------------------------------------------
(* One step *)

(* _durable_problem *)
DurableErrors(texts) ==
  Code("TRANSIENT_REF", \E t \in texts : IsRef(t))
    \cup Code("SELECTOR_SYNTAX", \E t \in texts : IsSelector(t))
    \cup Code("TRACE_NOT_TEMPLATED", \E t \in texts : \E i \in DOMAIN t : t[i][1] = "model")

(* What _compile_steps looks at before the action. *)
HeadErrors(s, i) ==
  Code("STEP_ORDER_INVALID", s.index # i)
    \cup Code("UNSUPPORTED_ACTION", s.action \notin PersistedActions)
    \cup Code("STEP_NOT_DISPATCHED", s.gate # "ALLOW")
    \cup Code("RISK_INVALID", s.risk \notin RiskTiers)
    \cup Code("IRREVERSIBLE_STEP", s.risk = "IRREVERSIBLE")

(* _landing_path *)
LandingErrors(s) == Code("ROUTE_INVALID", ~IsPath(s.after))

(* _compile_navigate *)
NavigateErrors(s) ==
  Code("ROUTE_MISSING", s.route = {})
    \cup Code("ROUTE_INVALID", \E p \in s.route : ~IsPath(p))
    \cup LandingErrors(s)

Within(part, text) ==
  /\ part # <<>>
  /\ \E i \in DOMAIN text : SubSeq(text, i, i + Len(part) - 1) = part

(* _descriptor *)
DescriptorErrors(s) ==
  IF s.target = {} THEN {"TARGET_MISSING"}
  ELSE LET texts == UNION {{t[f] : f \in DOMAIN t} : t \in s.target}
       IN  Code("TARGET_IDENTITY_UNPROVEN", s.matches = {})
             \cup Code("TARGET_AMBIGUOUS", s.matches \notin {{}, {1}})
             \cup DurableErrors(texts)
             \cup Code("READ_VALUE_IN_TARGET",
                       \E r \in s.read : \E t \in texts : Within(r, t))

(* _binding: an INPUT_REF is the placeholder of its input, a LITERAL holds *)
(* none.                                                                   *)
BindingErrors(s) ==
  IF s.action \notin ValueActions THEN Code("BINDING_INVALID", s.value # {})
  ELSE IF s.value = {} THEN {"BINDING_MISSING"}
  ELSE LET v == CHOOSE v \in s.value : TRUE
           literal(t) == \A i \in DOMAIN t : t[i][1] \notin {"input", "model"}
       IN  CASE v.kind = "INPUT_REF" ->
                  Code("BINDING_INVALID", v.text = <<>>)
                    \cup Code("INPUT_UNDECLARED",
                              ~(Holes(v.text) \subseteq DOMAIN declaration.inputs))
             [] v.kind = "LITERAL" -> Code("BINDING_INVALID", ~literal(v.text))
             [] OTHER -> {"BINDING_INVALID"}

(* _check_read *)
ReadErrors(s) ==
  IF ~\E o \in s.output : o \in DOMAIN declaration.outputs THEN {"OUTPUT_UNDECLARED"}
  ELSE Code("OUTPUT_TRANSFORM_INCONSISTENT",
            ~\E r \in s.read : \A o \in s.output : r \in Denotes[declaration.outputs[o]])

(* _compile_targeted *)
TargetedErrors(s) ==
  DescriptorErrors(s) \cup BindingErrors(s)
    \cup (IF s.action = "READ" THEN ReadErrors(s) ELSE {})
    \cup (IF s.action = "CLICK" THEN LandingErrors(s) ELSE {})

(* _compile_steps *)
StepErrors(s, i) ==
  IF HeadErrors(s, i) # {} THEN HeadErrors(s, i)
  ELSE IF s.action = "NAVIGATE" THEN NavigateErrors(s) ELSE TargetedErrors(s)

StepsErrors == UNION {StepErrors(Steps[i], i) : i \in DOMAIN Steps}

(* The postcondition of a step is the route its action led to, or the      *)
(* value it left in the field.                                             *)
(* Seeded fault of Postcondition: the route the action started from.       *)
RouteItLeft(s) ==
  CASE s.action \in {"NAVIGATE", "CLICK"} -> {RouteMatches(s.before)}
    [] s.action \in ValueActions -> {ValueEquals(t, v) : t \in s.target, v \in s.value}
    [] OTHER -> {}

Postcondition(s) ==
  CASE s.action \in {"NAVIGATE", "CLICK"} -> {RouteMatches(s.after)}
    [] s.action \in ValueActions -> {ValueEquals(t, v) : t \in s.target, v \in s.value}
    [] OTHER -> {}

(* The step of the artifact. *)
CompiledStep(s) ==
  LET reads == s.action = "READ"
  IN  [id     |-> <<s.index, s.action, IF reads THEN s.output ELSE {}>>,
       action |-> s.action,
       route  |-> IF s.action = "NAVIGATE" THEN s.route ELSE {},
       target |-> IF s.action = "NAVIGATE" THEN {} ELSE s.target,
       value  |-> IF s.action \in ValueActions THEN s.value ELSE {},
       output |-> IF reads THEN s.output ELSE {},
       risk   |-> s.risk,
       post   |-> Postcondition(s)]

CompiledSteps == [i \in DOMAIN Steps |-> CompiledStep(Steps[i])]

------------------------------------------------------------------------------
(* The whole *)

RequiredInputs == {n \in DOMAIN declaration.inputs : declaration.inputs[n].required}

ReadSteps == {i \in DOMAIN Steps : Steps[i].action = "READ"}

(* _action_sites, the inputs it finds *)
ActedOn(steps) ==
  UNION {HolesOf(steps[i].route \cup {v.text : v \in {w \in steps[i].value : w.kind = "INPUT_REF"}})
         : i \in DOMAIN steps}

(* _check_inputs *)
InputErrors ==
  Code("INPUT_NOT_PARAMETERIZED", ~(RequiredInputs \subseteq ActedOn(CompiledSteps)))
    \cup Code("INPUT_UNDECLARED",
              \E i \in ReadSteps : ~(DOMAIN Steps[i].evidence \subseteq DOMAIN declaration.inputs))
    \cup Code("TRACE_NOT_TEMPLATED",
              \E i \in ReadSteps : \E n \in DOMAIN Steps[i].evidence \cap DOMAIN declaration.inputs :
                 Steps[i].evidence[n] = "ROUTE" /\ n \notin Holes(Steps[i].before))

Producers(o) == {i \in ReadSteps : o \in Steps[i].output}

(* Seeded fault of OutputErrors: the last producer silently wins.          *)
MissingOutputs ==
  Code("OUTPUT_NOT_PRODUCED", \E o \in DOMAIN declaration.outputs : Producers(o) = {})

(* _map_outputs *)
OutputErrors ==
  Code("OUTPUT_DUPLICATE_PRODUCER",
       \E o \in DOMAIN declaration.outputs : Cardinality(Producers(o)) > 1)
    \cup MissingOutputs

(* _derive_checkpoint.  Seeded fault of CheckpointErrors: any evidence of  *)
(* any input will do.                                                      *)
Final    == Steps[Len(Steps)].after
LastRead == Steps[CHOOSE i \in ReadSteps : \A j \in ReadSteps : i >= j]

AnyPageProves ==
  IF ~IsPath(Final) \/ LastRead.before # Final THEN {"SUCCESS_SEMANTICS_UNDERIVABLE"} ELSE {}

RouteInputs ==
  {n \in RequiredInputs \cap DOMAIN LastRead.evidence :
     LastRead.evidence[n] = "ROUTE" /\ n \in Holes(Final)}

CheckpointErrors ==
  IF ~IsPath(Final) THEN {"SUCCESS_SEMANTICS_UNDERIVABLE"}
  ELSE IF ReadSteps = {} THEN {"SUCCESS_SEMANTICS_MISSING"}
  ELSE IF LastRead.before # Final THEN {"SUCCESS_SEMANTICS_UNDERIVABLE"}
  ELSE IF RequiredInputs = {} THEN {}
  ELSE IF DOMAIN LastRead.evidence = {} THEN {"SUCCESS_SEMANTICS_MISSING"}
  ELSE Code("SUCCESS_SEMANTICS_UNDERIVABLE", RouteInputs = {})

(* _check_known_outcomes *)
OutcomeErrors ==
  Code("KNOWN_OUTCOME_INVALID",
       DurableErrors(UNION {ConditionTexts(c) \cup c.route : c \in declaration.outcomes}) # {})

Assembled ==
  [version    |-> version,
   inputs     |-> declaration.inputs,
   outputs    |-> declaration.outputs,
   steps      |-> CompiledSteps,
   checkpoint |-> {RouteMatches(Final)},
   outcomes   |-> declaration.outcomes,
   texts      |-> declaration.texts \cup record.texts]

(* _scan_durable_strings *)
StringErrors ==
  LET conditions == (UNION {CompiledSteps[i].post : i \in DOMAIN Steps})
                      \cup Assembled.checkpoint \cup Assembled.outcomes
      leaves == (UNION {StepTexts(CompiledSteps[i]) \cup CompiledSteps[i].route : i \in DOMAIN Steps})
                  \cup (UNION {ConditionTexts(c) \cup c.route : c \in conditions})
                  \cup Assembled.texts
  IN  DurableErrors(leaves)
        \cup Code("INPUT_UNDECLARED", ~(HolesOf(leaves) \subseteq DOMAIN declaration.inputs))

MeaningErrors == InputErrors \cup OutputErrors \cup CheckpointErrors \cup OutcomeErrors

------------------------------------------------------------------------------
(* compile *)

Init ==
  /\ \E call \in Calls :
       record = call.record /\ declaration = call.declaration /\ version = call.version
  /\ codes = {} /\ artifact = {}

Pending == codes = {} /\ artifact = {}

Refuse(errors) ==
  codes' = errors /\ UNCHANGED <<record, declaration, version, artifact>>

RefuseRecord  == Pending /\ RecordErrors # {} /\ Refuse(RecordErrors)
Recorded      == Pending /\ RecordErrors = {}
RefuseSteps   == Recorded /\ StepsErrors # {} /\ Refuse(StepsErrors)
Replayable    == Recorded /\ StepsErrors = {}
RefuseMeaning == Replayable /\ MeaningErrors # {} /\ Refuse(MeaningErrors)
Meaningful    == Replayable /\ MeaningErrors = {}
RefuseStrings == Meaningful /\ StringErrors # {} /\ Refuse(StringErrors)
Durable       == Meaningful /\ StringErrors = {}
SchemaRejects == Durable /\ ~Valid(Assembled) /\ Refuse({"SCHEMA_REJECTED"})

(* Seeded fault of Succeed: what the checks let through is taken as valid. *)
SucceedUnvalidated ==
  /\ Durable
  /\ artifact' = {Assembled}
  /\ UNCHANGED <<record, declaration, version, codes>>

Succeed ==
  /\ Durable /\ Valid(Assembled)
  /\ artifact' = {Assembled}
  /\ UNCHANGED <<record, declaration, version, codes>>

Next ==
  \/ RefuseRecord \/ RefuseSteps \/ RefuseMeaning \/ RefuseStrings
  \/ SchemaRejects \/ Succeed

Spec == Init /\ [][Next]_vars
=============================================================================
