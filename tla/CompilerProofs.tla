---------------------------- MODULE CompilerProofs ----------------------------
(***************************************************************************)
(* Proofs about compile(): for every record, declaration and version, what *)
(* its own checks let through is what the schema accepts, an artifact      *)
(* depends on its required inputs, and one that was compiled from a run    *)
(* on the console replays there with others.                               *)
(***************************************************************************)
EXTENDS CompilerProperties, FiniteSetTheorems, SequenceTheorems, TLAPS

(* The call is one of those that may be made, and stays the same.          *)
Called == \E call \in Calls :
  record = call.record /\ declaration = call.declaration /\ version = call.version

(* What the first four groups of checks let through. *)
Passed == RecordErrors = {} /\ StepsErrors = {} /\ MeaningErrors = {} /\ StringErrors = {}

CompilerInv ==
  /\ Called
  /\ codes \subseteq ErrorCodes
  /\ codes = {} \/ artifact = {}
  /\ artifact # {} => artifact = {Assembled} /\ Passed /\ Valid(Assembled)
  /\ "SCHEMA_REJECTED" \in codes => Passed /\ ~Valid(Assembled)

------------------------------------------------------------------------------
(* The checks *)

LEMMA CodeIsEmpty ==
  ASSUME NEW code, NEW wrong \in BOOLEAN
  PROVE  /\ Code(code, wrong) \subseteq {code}
         /\ Code(code, wrong) = {} <=> ~wrong
BY DEF Code

LEMMA DurableCodes ==
  ASSUME NEW texts
  PROVE  /\ DurableErrors(texts) \subseteq
              {"TRANSIENT_REF", "SELECTOR_SYNTAX", "TRACE_NOT_TEMPLATED"}
         /\ DurableErrors(texts) = {} => \A t \in texts : Semantic(t)
<1>1. DurableErrors(texts) \subseteq {"TRANSIENT_REF", "SELECTOR_SYNTAX", "TRACE_NOT_TEMPLATED"}
  BY DEF DurableErrors, Code
<1>2. ASSUME DurableErrors(texts) = {}, NEW t \in texts PROVE Semantic(t)
  <2>1. /\ Code("TRANSIENT_REF", \E u \in texts : IsRef(u)) = {}
        /\ Code("SELECTOR_SYNTAX", \E u \in texts : IsSelector(u)) = {}
    BY <1>2 DEF DurableErrors
  <2>2. ~(\E u \in texts : IsRef(u)) /\ ~(\E u \in texts : IsSelector(u))
    BY <2>1 DEF Code
  <2> QED
    BY <2>2 DEF Semantic
<1> QED
  BY <1>1, <1>2

(* The texts of _scan_durable_strings. *)
AllConditions == (UNION {CompiledSteps[i].post : i \in DOMAIN Steps})
                   \cup Assembled.checkpoint \cup Assembled.outcomes
Leaves == (UNION {StepTexts(CompiledSteps[i]) \cup CompiledSteps[i].route : i \in DOMAIN Steps})
            \cup (UNION {ConditionTexts(c) \cup c.route : c \in AllConditions})
            \cup Assembled.texts

LEMMA StringsScanned ==
  StringErrors = DurableErrors(Leaves)
                   \cup Code("INPUT_UNDECLARED",
                             ~(HolesOf(Leaves) \subseteq DOMAIN declaration.inputs))
BY DEF StringErrors, Leaves, AllConditions

(* Every refusal but the last gives codes of its own group. *)
EarlyCodes == ErrorCodes \ {"SCHEMA_REJECTED"}

LEMMA StepCodes ==
  ASSUME NEW s, NEW i
  PROVE  StepErrors(s, i) \subseteq EarlyCodes
<1> USE DEF EarlyCodes, ErrorCodes
<1>1. HeadErrors(s, i) \subseteq EarlyCodes
  BY DEF HeadErrors, Code
<1>2. LandingErrors(s) \subseteq EarlyCodes
  BY DEF LandingErrors, Code
<1>3. NavigateErrors(s) \subseteq EarlyCodes
  BY <1>2 DEF NavigateErrors, Code
<1>4. DescriptorErrors(s) \subseteq EarlyCodes
  <2> DEFINE texts == UNION {{t[f] : f \in DOMAIN t} : t \in s.target}
  <2>1. DurableErrors(texts) \subseteq EarlyCodes
    BY DurableCodes
  <2> HIDE DEF texts
  <2>2. \/ DescriptorErrors(s) = {"TARGET_MISSING"}
        \/ DescriptorErrors(s) \subseteq
             {"TARGET_IDENTITY_UNPROVEN", "TARGET_AMBIGUOUS", "READ_VALUE_IN_TARGET"}
               \cup DurableErrors(texts)
    BY DEF DescriptorErrors, Code, texts
  <2> QED
    BY <2>1, <2>2
<1>5. BindingErrors(s) \subseteq EarlyCodes
  <2> DEFINE v == CHOOSE v \in s.value : TRUE
             literal(t) == \A j \in DOMAIN t : t[j][1] \notin {"input", "model"}
             chosen == CASE v.kind = "INPUT_REF" ->
                              Code("BINDING_INVALID", v.text = <<>>)
                                \cup Code("INPUT_UNDECLARED",
                                          ~(Holes(v.text) \subseteq DOMAIN declaration.inputs))
                         [] v.kind = "LITERAL" -> Code("BINDING_INVALID", ~literal(v.text))
                         [] OTHER -> {"BINDING_INVALID"}
  <2>1. BindingErrors(s) = IF s.action \notin ValueActions
                           THEN Code("BINDING_INVALID", s.value # {})
                           ELSE IF s.value = {} THEN {"BINDING_MISSING"} ELSE chosen
    BY DEF BindingErrors
  <2>2. chosen \subseteq {"BINDING_INVALID", "INPUT_UNDECLARED"}
    <3> HIDE DEF v, literal
    <3>1. CASE v.kind = "INPUT_REF"
      <4>1. chosen = Code("BINDING_INVALID", v.text = <<>>)
                       \cup Code("INPUT_UNDECLARED",
                                 ~(Holes(v.text) \subseteq DOMAIN declaration.inputs))
        BY <3>1
      <4> QED
        BY <4>1 DEF Code
    <3>2. CASE v.kind = "LITERAL"
      <4>1. chosen = Code("BINDING_INVALID", ~literal(v.text))
        BY <3>2
      <4> QED
        BY <4>1 DEF Code
    <3>3. CASE v.kind \notin {"INPUT_REF", "LITERAL"}
      BY <3>3
    <3> QED
      BY <3>1, <3>2, <3>3
  <2> HIDE DEF chosen
  <2>3. Code("BINDING_INVALID", s.value # {}) \subseteq {"BINDING_INVALID"}
    BY DEF Code
  <2> QED
    BY <2>1, <2>2, <2>3
<1>6. ReadErrors(s) \subseteq EarlyCodes
  BY DEF ReadErrors, Code
<1>7. TargetedErrors(s) \subseteq EarlyCodes
  BY <1>2, <1>4, <1>5, <1>6 DEF TargetedErrors
<1> QED
  BY <1>1, <1>3, <1>7 DEF StepErrors

LEMMA EarlyGroups ==
  /\ RecordErrors \subseteq EarlyCodes /\ StepsErrors \subseteq EarlyCodes
  /\ MeaningErrors \subseteq EarlyCodes /\ StringErrors \subseteq EarlyCodes
<1>1. RecordErrors \subseteq EarlyCodes
  BY DEF RecordErrors, Code, EarlyCodes, ErrorCodes
<1>2. StepsErrors \subseteq EarlyCodes
  BY StepCodes DEF StepsErrors
<1>3. MeaningErrors \subseteq EarlyCodes
  <2>1. InputErrors \subseteq EarlyCodes
    BY DEF InputErrors, Code, EarlyCodes, ErrorCodes
  <2>2. OutputErrors \subseteq EarlyCodes
    BY DEF OutputErrors, MissingOutputs, Code, EarlyCodes, ErrorCodes
  <2>3. CheckpointErrors \subseteq EarlyCodes
    BY DEF CheckpointErrors, Code, EarlyCodes, ErrorCodes
  <2>4. OutcomeErrors \subseteq EarlyCodes
    BY DEF OutcomeErrors, Code, EarlyCodes, ErrorCodes
  <2> QED
    BY <2>1, <2>2, <2>3, <2>4 DEF MeaningErrors
<1>4. StringErrors \subseteq EarlyCodes
  <2>1. DurableErrors(Leaves) \subseteq EarlyCodes
    BY DurableCodes DEF EarlyCodes, ErrorCodes
  <2>2. Code("INPUT_UNDECLARED", ~(HolesOf(Leaves) \subseteq DOMAIN declaration.inputs))
          \subseteq EarlyCodes
    BY DEF Code, EarlyCodes, ErrorCodes
  <2> QED
    BY <2>1, <2>2, StringsScanned
<1> QED
  BY <1>1, <1>2, <1>3, <1>4

------------------------------------------------------------------------------
(* What is always true of a call *)

LEMMA CompilerInit == Init => CompilerInv
BY DEF Init, CompilerInv, Called

LEMMA CompilerStep == CompilerInv /\ [Next]_vars => CompilerInv'
<1> SUFFICES ASSUME CompilerInv, [Next]_vars PROVE CompilerInv'
  OBVIOUS
<1>1. UNCHANGED <<record, declaration, version>>
  BY DEF Next, vars, RefuseRecord, RefuseSteps, RefuseMeaning, RefuseStrings, SchemaRejects,
         Succeed, Refuse
<1>2. /\ Called' /\ (Passed' <=> Passed) /\ (Valid(Assembled)' <=> Valid(Assembled))
      /\ Assembled' = Assembled
  <2>1. Called'
    BY <1>1 DEF CompilerInv, Called
  <2>2. RecordErrors' = RecordErrors
    BY <1>1 DEF RecordErrors, Steps
  <2>3. StepsErrors' = StepsErrors
    BY <1>1 DEF StepsErrors, StepErrors, Steps, NavigateErrors, TargetedErrors, HeadErrors,
                LandingErrors, DescriptorErrors, BindingErrors, ReadErrors
  <2>4. Assembled' = Assembled
    BY <1>1 DEF Assembled, CompiledSteps, Steps, Final
  <2>5. MeaningErrors' = MeaningErrors
    BY <1>1 DEF MeaningErrors, InputErrors, OutputErrors, MissingOutputs, CheckpointErrors,
                OutcomeErrors, RequiredInputs, CompiledSteps, ReadSteps, Steps, Final, LastRead,
                Producers, RouteInputs
  <2>6. StringErrors' = StringErrors
    BY <1>1, <2>4 DEF StringErrors, CompiledSteps, Steps
  <2> QED
    BY <2>1, <2>2, <2>3, <2>4, <2>5, <2>6 DEF Passed
<1>3. CASE RefuseRecord \/ RefuseSteps \/ RefuseMeaning \/ RefuseStrings
  <2>1. codes' \subseteq EarlyCodes /\ artifact' = artifact /\ artifact = {}
    BY <1>3, EarlyGroups
       DEF RefuseRecord, RefuseSteps, RefuseMeaning, RefuseStrings, Refuse, Pending, Recorded,
           Replayable, Meaningful
  <2>2. codes' \subseteq ErrorCodes /\ "SCHEMA_REJECTED" \notin codes'
    BY <2>1 DEF EarlyCodes
  <2> QED
    BY <1>2, <2>1, <2>2 DEF CompilerInv
<1>4. CASE SchemaRejects
  <2>1. /\ codes' = {"SCHEMA_REJECTED"} /\ artifact' = artifact /\ artifact = {}
        /\ Passed /\ ~Valid(Assembled)
    BY <1>4 DEF SchemaRejects, Refuse, Durable, Meaningful, Replayable, Recorded, Pending, Passed
  <2> QED
    BY <1>2, <2>1 DEF CompilerInv, ErrorCodes
<1>5. CASE Succeed
  <2>1. /\ codes' = {} /\ artifact' = {Assembled} /\ Passed /\ Valid(Assembled)
    BY <1>5 DEF Succeed, Durable, Meaningful, Replayable, Recorded, Pending, Passed
  <2> QED
    BY <1>2, <2>1 DEF CompilerInv
<1>6. CASE UNCHANGED vars
  <2>1. codes' = codes /\ artifact' = artifact
    BY <1>6 DEF vars
  <2> QED
    BY <1>2, <2>1 DEF CompilerInv
<1> QED
  BY <1>3, <1>4, <1>5, <1>6 DEF Next

LEMMA CompilerInductive == Spec => []CompilerInv
BY CompilerInit, CompilerStep, PTL DEF Spec

------------------------------------------------------------------------------
(* What the schema asks, rule by rule *)

(* The record, as the assumption on Calls has it. *)
LEMMA RecordFacts ==
  ASSUME Called
  PROVE  /\ Len(Steps) \in Nat /\ DOMAIN Steps = 1..Len(Steps)
         /\ Steps # <<>> => Len(Steps) > 0
         /\ \A i \in DOMAIN Steps :
              /\ AtMostOne(Steps[i].route) /\ AtMostOne(Steps[i].value)
              /\ AtMostOne(Steps[i].output)
              /\ \A t \in Steps[i].target : "role" \in DOMAIN t /\ t["role"] # <<>>
         /\ \A c \in declaration.outcomes : ConditionIsValid(c)
<1>1. PICK call \in Calls : record = call.record /\ declaration = call.declaration
  BY DEF Called
<1>2. Steps \in Seq({Steps[i] : i \in DOMAIN Steps})
  BY <1>1, CallsAssumption DEF Steps
<1>3. \A S : Steps \in Seq(S) => /\ Len(Steps) \in Nat /\ DOMAIN Steps = 1..Len(Steps)
                                 /\ Steps # <<>> => Len(Steps) > 0
  BY EmptySeq
<1>4. \A i \in DOMAIN Steps :
        /\ AtMostOne(Steps[i].route) /\ AtMostOne(Steps[i].value)
        /\ AtMostOne(Steps[i].output)
        /\ \A t \in Steps[i].target : "role" \in DOMAIN t /\ t["role"] # <<>>
  BY <1>1, CallsAssumption DEF Steps
<1>5. \A c \in declaration.outcomes : ConditionIsValid(c)
  BY <1>1, CallsAssumption
<1> QED
  BY <1>2, <1>3, <1>4, <1>5

(* A step whose checks pass has the shape its action calls for. *)
LEMMA HeadFacts ==
  ASSUME NEW s, NEW i, StepErrors(s, i) = {}
  PROVE  /\ s.index = i /\ s.action \in PersistedActions /\ s.risk \in RiskTiers
         /\ s.action = "NAVIGATE" => NavigateErrors(s) = {}
         /\ s.action # "NAVIGATE" => TargetedErrors(s) = {}
<1>1. HeadErrors(s, i) = {}
  BY DEF StepErrors
<1>2. /\ s.action = "NAVIGATE" => NavigateErrors(s) = {}
      /\ s.action # "NAVIGATE" => TargetedErrors(s) = {}
  BY <1>1 DEF StepErrors
<1>3. s.index = i /\ s.action \in PersistedActions /\ s.risk \in RiskTiers
  BY <1>1 DEF HeadErrors, Code
<1> QED
  BY <1>2, <1>3

LEMMA NavigateFacts ==
  ASSUME NEW s, NavigateErrors(s) = {}
  PROVE  /\ s.route # {} /\ \A p \in s.route : IsPath(p)
         /\ IsPath(s.after)
BY DEF NavigateErrors, LandingErrors, Code

LEMMA TargetedFacts ==
  ASSUME NEW s, TargetedErrors(s) = {},
         \A t \in s.target : "role" \in DOMAIN t /\ t["role"] # <<>>
  PROVE  /\ s.target # {} /\ \A t \in s.target : TargetIsSemantic(t)
         /\ s.action \in ValueActions => s.value # {}
         /\ s.action = "READ" => \E o \in s.output : o \in DOMAIN declaration.outputs
         /\ s.action = "CLICK" => IsPath(s.after)
<1>1. DescriptorErrors(s) = {} /\ BindingErrors(s) = {}
  BY DEF TargetedErrors
<1>2. /\ s.action = "READ" => ReadErrors(s) = {}
      /\ s.action = "CLICK" => LandingErrors(s) = {}
  BY DEF TargetedErrors
<1>3. s.target # {} /\ \A t \in s.target : TargetIsSemantic(t)
  <2> DEFINE texts == UNION {{t[f] : f \in DOMAIN t} : t \in s.target}
  <2>1. s.target # {} /\ DurableErrors(texts) = {}
    BY <1>1 DEF DescriptorErrors
  <2>2. \A u \in texts : Semantic(u)
    <3> HIDE DEF texts
    <3> QED
      BY <2>1, DurableCodes
  <2>3. \A t \in s.target : \A f \in DOMAIN t : t[f] \in texts
    OBVIOUS
  <2> QED
    BY <2>1, <2>2, <2>3 DEF TargetIsSemantic
<1>4. s.action \in ValueActions => s.value # {}
  BY <1>1 DEF BindingErrors
<1>5. s.action = "READ" => \E o \in s.output : o \in DOMAIN declaration.outputs
  BY <1>2 DEF ReadErrors
<1>6. s.action = "CLICK" => IsPath(s.after)
  BY <1>2 DEF LandingErrors, Code
<1> QED
  BY <1>3, <1>4, <1>5, <1>6

LEMMA RouteConditions ==
  ASSUME NEW path
  PROVE  /\ RouteMatches(path).route = {path} /\ RouteMatches(path).target = {}
         /\ RouteMatches(path).type = "ROUTE_MATCHES" /\ RouteMatches(path).value = {}
         /\ RouteMatches(path).text = <<>>
         /\ IsPath(path) => ConditionIsValid(RouteMatches(path))
BY DEF RouteMatches, Condition, ConditionIsValid

LEMMA ValueConditions ==
  ASSUME NEW target, NEW value, TargetIsSemantic(target)
  PROVE  ConditionIsValid(ValueEquals(target, value))
BY DEF ValueEquals, Condition, ConditionIsValid

LEMMA CompiledFields ==
  ASSUME NEW s
  PROVE  LET c == CompiledStep(s)
         IN  /\ c.action = s.action /\ c.risk = s.risk /\ c.post = Postcondition(s)
             /\ c.route = IF s.action = "NAVIGATE" THEN s.route ELSE {}
             /\ c.target = IF s.action = "NAVIGATE" THEN {} ELSE s.target
             /\ c.value = IF s.action \in ValueActions THEN s.value ELSE {}
             /\ c.output = IF s.action = "READ" THEN s.output ELSE {}
             /\ c.id[1] = s.index
BY DEF CompiledStep

LEMMA PostconditionFacts ==
  ASSUME NEW s, s.action \in PersistedActions,
         s.action \in {"NAVIGATE", "CLICK"} => IsPath(s.after),
         s.action \in ValueActions => s.target # {} /\ s.value # {},
         s.action # "NAVIGATE" => \A t \in s.target : TargetIsSemantic(t)
  PROVE  /\ \A c \in Postcondition(s) : ConditionIsValid(c)
         /\ s.action = "READ" <=> Postcondition(s) = {}
<1>1. CASE s.action \in {"NAVIGATE", "CLICK"}
  <2>1. Postcondition(s) = {RouteMatches(s.after)}
    BY <1>1 DEF Postcondition, ValueActions
  <2>2. Postcondition(s) # {} /\ s.action # "READ"
    BY <1>1, <2>1
  <2>3. \A c \in Postcondition(s) : ConditionIsValid(c)
    BY <1>1, <2>1, RouteConditions
  <2> QED
    BY <2>2, <2>3
<1>2. CASE s.action \in ValueActions
  <2>1. Postcondition(s) = {ValueEquals(t, v) : t \in s.target, v \in s.value}
    BY <1>2 DEF Postcondition, ValueActions
  <2>2. \A t \in s.target, v \in s.value : ConditionIsValid(ValueEquals(t, v))
    BY <1>2, ValueConditions DEF ValueActions
  <2>3. Postcondition(s) # {} /\ s.action # "READ"
    <3>1. PICK t \in s.target, v \in s.value : TRUE
      BY <1>2
    <3>2. ValueEquals(t, v) \in Postcondition(s)
      BY <2>1
    <3> QED
      BY <1>2, <3>2 DEF ValueActions
  <2>4. \A c \in Postcondition(s) : ConditionIsValid(c)
    BY <2>1, <2>2
  <2> QED
    BY <2>3, <2>4
<1>3. CASE s.action = "READ"
  <2>1. Postcondition(s) = {}
    BY <1>3 DEF Postcondition, ValueActions
  <2> QED
    BY <1>3, <2>1
<1> QED
  BY <1>1, <1>2, <1>3 DEF PersistedActions, ValueActions

LEMMA ShapeFacts ==
  ASSUME NEW s, NEW i, StepErrors(s, i) = {},
         \A t \in s.target : "role" \in DOMAIN t /\ t["role"] # <<>>
  PROVE  StepIsValid(CompiledStep(s)) /\ CompiledStep(s).id[1] = i
<1> DEFINE c == CompiledStep(s)
<1>1. /\ s.index = i /\ s.action \in PersistedActions /\ s.risk \in RiskTiers
      /\ s.action = "NAVIGATE" => NavigateErrors(s) = {}
      /\ s.action # "NAVIGATE" => TargetedErrors(s) = {}
  BY HeadFacts
<1>2. s.action = "NAVIGATE" =>
        s.route # {} /\ (\A p \in s.route : IsPath(p)) /\ IsPath(s.after)
  BY <1>1, NavigateFacts
<1>3. s.action # "NAVIGATE" =>
        /\ s.target # {} /\ \A t \in s.target : TargetIsSemantic(t)
        /\ s.action \in ValueActions => s.value # {}
        /\ s.action = "READ" => s.output # {}
        /\ s.action = "CLICK" => IsPath(s.after)
  BY <1>1, TargetedFacts
<1>4. "NAVIGATE" \notin ValueActions
  BY DEF ValueActions
<1>5. /\ \A d \in Postcondition(s) : ConditionIsValid(d)
      /\ s.action = "READ" <=> Postcondition(s) = {}
  BY <1>1, <1>2, <1>3, <1>4, PostconditionFacts
<1>6. /\ c.action = s.action /\ c.risk = s.risk /\ c.post = Postcondition(s)
      /\ c.route = IF s.action = "NAVIGATE" THEN s.route ELSE {}
      /\ c.target = IF s.action = "NAVIGATE" THEN {} ELSE s.target
      /\ c.value = IF s.action \in ValueActions THEN s.value ELSE {}
      /\ c.output = IF s.action = "READ" THEN s.output ELSE {}
      /\ c.id[1] = s.index
  BY CompiledFields
<1> HIDE DEF c
<1>7. StepIsValid(c)
  <2>1. c.action \in PersistedActions /\ c.risk \in RiskTiers
    BY <1>1, <1>6
  <2>2. \A p \in c.route : IsPath(p)
    BY <1>2, <1>6
  <2>3. \A t \in c.target : TargetIsSemantic(t)
    BY <1>3, <1>6
  <2>4. \A d \in c.post : ConditionIsValid(d)
    BY <1>5, <1>6
  <2>5. /\ (c.action = "NAVIGATE") = (c.route # {})
        /\ (c.action = "NAVIGATE") = (c.target = {})
    BY <1>2, <1>3, <1>6
  <2>6. (c.action \in ValueActions) = (c.value # {})
    BY <1>3, <1>4, <1>6
  <2>7. (c.action = "READ") = (c.output # {})
    BY <1>3, <1>6
  <2>8. (c.action = "READ") = (c.post = {})
    BY <1>5, <1>6
  <2> QED
    BY <2>1, <2>2, <2>3, <2>4, <2>5, <2>6, <2>7, <2>8 DEF StepIsValid
<1> QED
  BY <1>1, <1>6, <1>7 DEF c

(* Every step of the artifact. *)
LEMMA StepsAreValid ==
  ASSUME Called, StepsErrors = {}
  PROVE  /\ DOMAIN CompiledSteps = DOMAIN Steps
         /\ \A i \in DOMAIN Steps :
              /\ CompiledSteps[i] = CompiledStep(Steps[i])
              /\ StepIsValid(CompiledSteps[i]) /\ CompiledSteps[i].id[1] = i
              /\ Steps[i].action = "READ" =>
                   \E o \in Steps[i].output : o \in DOMAIN declaration.outputs
<1>1. \A i \in DOMAIN Steps : StepErrors(Steps[i], i) = {}
  BY DEF StepsErrors
<1>2. DOMAIN CompiledSteps = DOMAIN Steps
      /\ \A i \in DOMAIN Steps : CompiledSteps[i] = CompiledStep(Steps[i])
  BY DEF CompiledSteps
<1>3. ASSUME NEW i \in DOMAIN Steps
      PROVE  /\ StepIsValid(CompiledSteps[i]) /\ CompiledSteps[i].id[1] = i
             /\ Steps[i].action = "READ" =>
                  \E o \in Steps[i].output : o \in DOMAIN declaration.outputs
  <2>1. StepErrors(Steps[i], i) = {} /\ CompiledSteps[i] = CompiledStep(Steps[i])
    BY <1>1, <1>2
  <2>2. \A t \in Steps[i].target : "role" \in DOMAIN t /\ t["role"] # <<>>
    BY RecordFacts
  <2>3. Steps[i].action = "READ" => TargetedErrors(Steps[i]) = {}
    BY <2>1, HeadFacts
  <2>4. Steps[i].action = "READ" => \E o \in Steps[i].output : o \in DOMAIN declaration.outputs
    BY <2>2, <2>3, TargetedFacts
  <2> QED
    BY <2>1, <2>2, <2>4, ShapeFacts
<1> QED
  BY <1>2, <1>3

(* The texts that are scanned hold every reference of the artifact. *)
LEMMA ReferencesAreScanned ==
  ASSUME StringErrors = {}
  PROVE  References(Assembled) \subseteq DOMAIN declaration.inputs
<1>1. HolesOf(Leaves) \subseteq DOMAIN declaration.inputs
  BY StringsScanned DEF Code
<1>2. Assembled.steps = CompiledSteps /\ DOMAIN CompiledSteps = DOMAIN Steps
  BY DEF Assembled, CompiledSteps
<1>3. \A i \in DOMAIN Steps :
        /\ StepTexts(CompiledSteps[i]) \cup CompiledSteps[i].route \subseteq Leaves
        /\ CompiledSteps[i].post \subseteq AllConditions
  <2>1. \A i \in DOMAIN Steps : \A t \in StepTexts(CompiledSteps[i]) \cup CompiledSteps[i].route :
          t \in Leaves
    BY DEF Leaves
  <2>2. \A i \in DOMAIN Steps : \A c \in CompiledSteps[i].post : c \in AllConditions
    BY DEF AllConditions
  <2> QED
    BY <2>1, <2>2
<1>4. \A c \in AllConditions : ConditionTexts(c) \cup c.route \subseteq Leaves
  <2>1. \A c \in AllConditions : \A t \in ConditionTexts(c) \cup c.route : t \in Leaves
    BY DEF Leaves
  <2> QED
    BY <2>1
<1>5. Assembled.checkpoint \cup Assembled.outcomes \subseteq AllConditions
  BY DEF AllConditions
<1>6. \A texts : texts \subseteq Leaves => HolesOf(texts) \subseteq HolesOf(Leaves)
  BY DEF HolesOf
<1>7. \A c \in AllConditions : ConditionInputs(c) \subseteq HolesOf(Leaves)
  BY <1>4, <1>6 DEF ConditionInputs
<1>8. \A i \in DOMAIN Steps : StepInputs(CompiledSteps[i]) \subseteq HolesOf(Leaves)
  <2> SUFFICES ASSUME NEW i \in DOMAIN Steps
               PROVE  StepInputs(CompiledSteps[i]) \subseteq HolesOf(Leaves)
    OBVIOUS
  <2>1. HolesOf(StepTexts(CompiledSteps[i]) \cup CompiledSteps[i].route) \subseteq HolesOf(Leaves)
    BY <1>3, <1>6
  <2>2. UNION {ConditionInputs(c) : c \in CompiledSteps[i].post} \subseteq HolesOf(Leaves)
    BY <1>3, <1>7
  <2> QED
    BY <2>1, <2>2 DEF StepInputs
<1>9. References(Assembled) \subseteq HolesOf(Leaves)
  <2> SUFFICES ASSUME NEW n \in References(Assembled) PROVE n \in HolesOf(Leaves)
    OBVIOUS
  <2>1. \/ \E i \in DOMAIN Assembled.steps : n \in StepInputs(Assembled.steps[i])
        \/ \E c \in Assembled.checkpoint \cup Assembled.outcomes : n \in ConditionInputs(c)
    BY DEF References
  <2> QED
    BY <1>2, <1>5, <1>7, <1>8, <2>1
<1> QED
  BY <1>1, <1>9

(* What is acted on is referred to. *)
LEMMA ActedOnIsReferred == ActedOn(CompiledSteps) \subseteq References(Assembled)
<1>1. Assembled.steps = CompiledSteps
  BY DEF Assembled
<1>2. \A s : HolesOf(s.route \cup {v.text : v \in {w \in s.value : w.kind = "INPUT_REF"}})
               \subseteq StepInputs(s)
  <2> SUFFICES ASSUME NEW s
               PROVE  HolesOf(s.route \cup {v.text : v \in {w \in s.value : w.kind = "INPUT_REF"}})
                        \subseteq StepInputs(s)
    OBVIOUS
  <2>1. s.route \cup {v.text : v \in {w \in s.value : w.kind = "INPUT_REF"}}
          \subseteq StepTexts(s) \cup s.route
    BY DEF StepTexts
  <2>2. \A A, B : A \subseteq B => HolesOf(A) \subseteq HolesOf(B)
    BY DEF HolesOf
  <2> QED
    BY <2>1, <2>2 DEF StepInputs
<1>3. ASSUME NEW n \in ActedOn(CompiledSteps) PROVE n \in References(Assembled)
  <2>1. PICK i \in DOMAIN CompiledSteps : n \in StepInputs(CompiledSteps[i])
    BY <1>2 DEF ActedOn
  <2>2. i \in DOMAIN Assembled.steps /\ n \in StepInputs(Assembled.steps[i])
    BY <1>1, <2>1
  <2> QED
    BY <2>2 DEF References
<1> QED
  BY <1>3

(* Each output has its one READ. *)
LEMMA OneProducer ==
  ASSUME Called, OutputErrors = {}, StepsErrors = {}
  PROVE  /\ \A i, j \in ReadSteps : Steps[i].output = Steps[j].output => i = j
         /\ UNION {Steps[i].output : i \in ReadSteps} = DOMAIN declaration.outputs
<1>1. \A o \in DOMAIN declaration.outputs :
        Producers(o) # {} /\ ~(Cardinality(Producers(o)) > 1)
  BY DEF OutputErrors, MissingOutputs, Code
<1>2. ReadSteps \subseteq 1..Len(Steps) /\ Len(Steps) \in Nat
  BY RecordFacts DEF ReadSteps
<1>3. \A o \in DOMAIN declaration.outputs : \A i, j \in Producers(o) : i = j
  <2> SUFFICES ASSUME NEW o \in DOMAIN declaration.outputs, NEW i \in Producers(o),
                      NEW j \in Producers(o), i # j
               PROVE  FALSE
    OBVIOUS
  <2>1. IsFiniteSet(Producers(o))
    <3>1. Producers(o) \subseteq 1..Len(Steps)
      BY <1>2 DEF Producers
    <3>2. IsFiniteSet(1..Len(Steps))
      BY <1>2, FS_Interval
    <3> QED
      BY <3>1, <3>2, FS_Subset
  <2>2. Cardinality({i} \cup {j}) = 2
    <3>1. IsFiniteSet({i}) /\ Cardinality({i}) = 1
      BY FS_Singleton
    <3>2. Cardinality({i} \cup {j}) = 1 + 1
      BY <3>1, FS_AddElement
    <3> QED
      BY <3>2
  <2>3. {i} \cup {j} \subseteq Producers(o)
    OBVIOUS
  <2> QED
    BY <1>1, <2>1, <2>2, <2>3, FS_Subset, FS_CardinalityType
<1>4. \A i \in ReadSteps : /\ \E o \in Steps[i].output : o \in DOMAIN declaration.outputs
                           /\ AtMostOne(Steps[i].output)
  BY StepsAreValid, RecordFacts DEF ReadSteps
<1>5. ASSUME NEW i \in ReadSteps, NEW j \in ReadSteps, Steps[i].output = Steps[j].output
      PROVE  i = j
  <2>1. PICK o \in DOMAIN declaration.outputs : o \in Steps[i].output
    BY <1>4
  <2> QED
    BY <1>3, <1>5, <2>1 DEF Producers
<1>6. UNION {Steps[i].output : i \in ReadSteps} \subseteq DOMAIN declaration.outputs
  BY <1>4 DEF AtMostOne
<1>7. DOMAIN declaration.outputs \subseteq UNION {Steps[i].output : i \in ReadSteps}
  BY <1>1 DEF Producers
<1> QED
  BY <1>5, <1>6, <1>7

(* What the compiler's checks let through is what the schema accepts. *)
LEMMA CheckedIsValid ==
  ASSUME Called, Passed, version \in Versions
  PROVE  Valid(Assembled)
<1> DEFINE a == Assembled
<1>1. /\ a.version = version /\ a.inputs = declaration.inputs
      /\ a.outputs = declaration.outputs /\ a.steps = CompiledSteps
      /\ a.checkpoint = {RouteMatches(Final)} /\ a.outcomes = declaration.outcomes
  BY DEF Assembled
<1>2. /\ InputErrors = {} /\ OutputErrors = {} /\ CheckpointErrors = {}
  BY DEF Passed, MeaningErrors
<1>3. /\ DOMAIN CompiledSteps = DOMAIN Steps
      /\ \A i \in DOMAIN Steps :
           /\ CompiledSteps[i] = CompiledStep(Steps[i])
           /\ StepIsValid(CompiledSteps[i]) /\ CompiledSteps[i].id[1] = i
  BY StepsAreValid DEF Passed
<1>4. References(a) \subseteq DOMAIN declaration.inputs
  BY ReferencesAreScanned DEF Passed
<1>5. RequiredInputs \subseteq References(a)
  <2>1. RequiredInputs \subseteq ActedOn(CompiledSteps)
    BY <1>2 DEF InputErrors, Code
  <2> QED
    BY <2>1, ActedOnIsReferred
<1>6. /\ \A i, j \in ReadSteps : Steps[i].output = Steps[j].output => i = j
      /\ UNION {Steps[i].output : i \in ReadSteps} = DOMAIN declaration.outputs
  BY <1>2, OneProducer DEF Passed
<1>7. /\ Reads(a) = ReadSteps
      /\ \A i \in ReadSteps : a.steps[i].output = Steps[i].output
  <2> HIDE DEF a
  <2>1. \A i \in DOMAIN Steps :
          /\ a.steps[i].action = Steps[i].action
          /\ Steps[i].action = "READ" => a.steps[i].output = Steps[i].output
    BY <1>1, <1>3, CompiledFields
  <2> QED
    BY <1>1, <1>3, <2>1 DEF Reads, ReadSteps
<1>8. a.steps # <<>>
  <2>1. Steps # <<>>
    BY DEF Passed, RecordErrors, Code
  <2>2. 1 \in DOMAIN CompiledSteps
    BY <1>3, <2>1, RecordFacts
  <2>3. DOMAIN <<>> = {}
    OBVIOUS
  <2> HIDE DEF a
  <2>4. CompiledSteps # <<>>
    BY <2>2, <2>3
  <2> QED
    BY <1>1, <2>4
<1>9. \A c \in a.checkpoint \cup a.outcomes : ConditionIsValid(c)
  <2>1. IsPath(Final)
    BY <1>2 DEF CheckpointErrors
  <2> QED
    BY <1>1, <2>1, RouteConditions, RecordFacts
<1> HIDE DEF a
<1>10. \A i, j \in DOMAIN a.steps : a.steps[i].id = a.steps[j].id => i = j
  BY <1>1, <1>3
<1>11. {n \in DOMAIN a.inputs : a.inputs[n].required} \subseteq References(a)
  BY <1>1, <1>5 DEF RequiredInputs
<1>12. \A i, j \in Reads(a) : a.steps[i].output = a.steps[j].output => i = j
  BY <1>6, <1>7
<1>13. UNION {a.steps[i].output : i \in Reads(a)} = DOMAIN a.outputs
  <2>1. {a.steps[i].output : i \in Reads(a)} = {Steps[i].output : i \in ReadSteps}
    BY <1>7
  <2> QED
    BY <1>1, <1>6, <2>1
<1>14. \A i \in DOMAIN a.steps : StepIsValid(a.steps[i])
  BY <1>1, <1>3
<1>15. a.version \in Versions /\ a.checkpoint # {} /\ References(a) \subseteq DOMAIN a.inputs
  BY <1>1, <1>4
<1>16. Valid(a)
  BY <1>8, <1>9, <1>10, <1>11, <1>12, <1>13, <1>14, <1>15 DEF Valid
<1> QED
  BY <1>16 DEF a

------------------------------------------------------------------------------
(* What depends on an input *)

LEMMA BoundDiffers ==
  ASSUME NEW text, NEW n \in Holes(text), NEW b, NEW c, b[n] # c[n]
  PROVE  BindText(text, b) # BindText(text, c)
<1>1. PICK i \in DOMAIN text : text[i][1] = "input" /\ text[i][2] = n
  BY DEF Holes
<1>2. BindText(text, b)[i] = Word(b[n]) /\ BindText(text, c)[i] = Word(c[n])
  BY <1>1 DEF BindText
<1>3. Word(b[n]) # Word(c[n])
  BY DEF Word
<1> QED
  BY <1>2, <1>3

(* An input that a step acts on is seen in what the step does. *)
LEMMA StepActs ==
  ASSUME NEW s, AtMostOne(s.route), AtMostOne(s.value), NEW b, NEW c, NEW n,
         n \in HolesOf(s.route \cup {v.text : v \in {w \in s.value : w.kind = "INPUT_REF"}}),
         b[n] # c[n]
  PROVE  \/ BindStep(s, b).route # BindStep(s, c).route
         \/ BindStep(s, b).value # BindStep(s, c).value
<1>1. PICK t \in s.route \cup {v.text : v \in {w \in s.value : w.kind = "INPUT_REF"}} :
        n \in Holes(t)
  BY DEF HolesOf
<1>2. BindText(t, b) # BindText(t, c)
  BY <1>1, BoundDiffers
<1>3. CASE t \in s.route
  <2>1. s.route = {t}
    BY <1>3 DEF AtMostOne
  <2>2. BindStep(s, b).route = {BindText(t, b)} /\ BindStep(s, c).route = {BindText(t, c)}
    BY <2>1 DEF BindStep
  <2> QED
    BY <1>2, <2>2
<1>4. CASE t \in {v.text : v \in {w \in s.value : w.kind = "INPUT_REF"}}
  <2>1. PICK v \in s.value : v.text = t
    BY <1>4
  <2>2. s.value = {v}
    BY <2>1 DEF AtMostOne
  <2>3. BindStep(s, b).value = {BindText(t, b)} /\ BindStep(s, c).value = {BindText(t, c)}
    BY <2>1, <2>2 DEF BindStep
  <2> QED
    BY <1>2, <2>3
<1> QED
  BY <1>1, <1>3, <1>4

LEMMA CompiledActs ==
  ASSUME Called, Passed, NEW n \in RequiredInputs, NEW b, NEW c, b[n] # c[n]
  PROVE  Acts(Assembled, b) # Acts(Assembled, c)
<1>1. Assembled.steps = CompiledSteps /\ DOMAIN CompiledSteps = DOMAIN Steps
  BY DEF Assembled, CompiledSteps
<1>2. RequiredInputs \subseteq ActedOn(CompiledSteps)
  BY DEF Passed, MeaningErrors, InputErrors, Code
<1>3. PICK i \in DOMAIN CompiledSteps :
        n \in HolesOf(CompiledSteps[i].route
                \cup {v.text : v \in {w \in CompiledSteps[i].value : w.kind = "INPUT_REF"}})
  BY <1>2 DEF ActedOn
<1>4. AtMostOne(CompiledSteps[i].route) /\ AtMostOne(CompiledSteps[i].value)
  <2>1. CompiledSteps[i] = CompiledStep(Steps[i])
    BY <1>1, <1>3 DEF CompiledSteps
  <2>2. AtMostOne(Steps[i].route) /\ AtMostOne(Steps[i].value)
    BY <1>1, RecordFacts
  <2>3. AtMostOne({})
    BY DEF AtMostOne
  <2> QED
    BY <2>1, <2>2, <2>3, CompiledFields
<1>5. \/ BindStep(CompiledSteps[i], b).route # BindStep(CompiledSteps[i], c).route
      \/ BindStep(CompiledSteps[i], b).value # BindStep(CompiledSteps[i], c).value
  BY <1>3, <1>4, StepActs
<1>6. ASSUME NEW d
      PROVE  Acts(Assembled, d)[i] =
               <<BindStep(CompiledSteps[i], d).route, BindStep(CompiledSteps[i], d).value>>
  <2>1. BindArtifact(Assembled, d).steps =
          [j \in DOMAIN CompiledSteps |-> BindStep(CompiledSteps[j], d)]
    BY <1>1 DEF BindArtifact
  <2> QED
    BY <1>3, <2>1 DEF Acts
<1> QED
  BY <1>5, <1>6

(* The checkpoint's route names a required input. *)
LEMMA CompiledProves ==
  ASSUME Called, Passed, RequiredInputs # {}, NEW b, NEW c,
         \A n \in RequiredInputs : b[n] # c[n]
  PROVE  BindArtifact(Assembled, b).checkpoint # BindArtifact(Assembled, c).checkpoint
<1>1. CheckpointErrors = {}
  BY DEF Passed, MeaningErrors
<1>2. RouteInputs # {}
  BY <1>1 DEF CheckpointErrors, Code
<1>3. PICK n \in RequiredInputs : n \in Holes(Final)
  BY <1>2 DEF RouteInputs
<1>4. BindText(Final, b) # BindText(Final, c)
  BY <1>3, BoundDiffers
<1>5. ASSUME NEW d
      PROVE  /\ BindArtifact(Assembled, d).checkpoint = {BindCondition(RouteMatches(Final), d)}
             /\ BindCondition(RouteMatches(Final), d).route = {BindText(Final, d)}
  <2>1. Assembled.checkpoint = {RouteMatches(Final)}
    BY DEF Assembled
  <2>2. BindArtifact(Assembled, d).checkpoint = {BindCondition(RouteMatches(Final), d)}
    BY <2>1 DEF BindArtifact
  <2>3. BindCondition(RouteMatches(Final), d).route = {BindText(Final, d)}
    BY RouteConditions DEF BindCondition
  <2> QED
    BY <2>2, <2>3
<1> QED
  BY <1>4, <1>5

------------------------------------------------------------------------------
(* From one set of inputs to another *)

(* A text as the driver and the page have it: nothing is left to bind.     *)
IsText(t) ==
  /\ \E S : t \in Seq(S)
  /\ \A i \in DOMAIN t : t[i][1] # "input"

(* What a token of the recorded run becomes in a replay: templated with    *)
(* the inputs of the one, bound with those of the other.                   *)
Again(token, old, new) ==
  LET hole == Templated(token, old)
  IN  IF hole[1] = "input" THEN Word(new[hole[2]]) ELSE hole

Rebound(t, old, new) == [i \in DOMAIN t |-> Again(t[i], old, new)]

(* Inputs the two may be given. *)
Fit(old, new) ==
  /\ Comparable(new, old)
  /\ DOMAIN old \subseteq {Names[k] : k \in DOMAIN Names}
  /\ \A n \in DOMAIN old : old[n] \notin ConsoleWords

LEMMA LeastOf ==
  ASSUME NEW S \in SUBSET Nat, S # {}
  PROVE  \E least \in S : \A other \in S : least <= other
<1>1. PICK least \in S : \A other \in S : ~(<<other, least>> \in OpToRel(<, Nat))
  BY NatLessThanWellFounded, WFMin
<1>2. \A a, b \in Nat : a < b => <<a, b>> \in OpToRel(<, Nat)
  <2>1. OpToRel(<, Nat) = {pair \in Nat \X Nat : pair[1] < pair[2]}
    BY DEF OpToRel
  <2>2. \A a, b \in Nat : a < b => <<a, b>> \in {pair \in Nat \X Nat : pair[1] < pair[2]}
    OBVIOUS
  <2> QED
    BY <2>1, <2>2, Zenon
<1>3. \A other \in S : other \in Nat
  OBVIOUS
<1>4. \A other \in S : ~(other < least)
  BY <1>1, <1>2, <1>3, Zenon
<1>5. \A other \in S : least <= other
  BY <1>3, <1>4
<1> QED
  BY <1>5

(* A value comes back as the value of the same input, ... *)
LEMMA ValueAgain ==
  ASSUME NEW old, NEW new, Fit(old, new), NEW n \in DOMAIN old
  PROVE  Again(Word(old[n]), old, new) = Word(new[n])
<1> DEFINE token == Word(old[n])
           owners == Owners(token, old)
           first == CHOOSE i \in owners : \A j \in owners : i <= j
<1>1. owners # {}
  BY DEF Fit, Owners
<1>2. owners \in SUBSET Nat
  BY NamesAssumption DEF Owners
<1>3. \E i \in owners : \A j \in owners : i <= j
  <2> HIDE DEF owners
  <2> QED
    BY <1>1, <1>2, LeastOf
<1>4. first \in owners
  <2> HIDE DEF owners
  <2> QED
    BY <1>3
<1>5. Names[first] \in DOMAIN old /\ token = Word(old[Names[first]])
  <2> HIDE DEF first
  <2> QED
    BY <1>4 DEF Owners
<1>6. old[Names[first]] = old[n]
  BY <1>5 DEF Word
<1>7. new[Names[first]] = new[n]
  BY <1>5, <1>6 DEF Fit, Comparable
<1>8. Templated(token, old) = Hole(Names[first])
  BY <1>1, Zenon DEF Templated
<1> HIDE DEF token, first
<1>9. Again(token, old, new) = Word(new[Names[first]])
  <2>1. Hole(Names[first])[1] = "input" /\ Hole(Names[first])[2] = Names[first]
    BY DEF Hole
  <2> QED
    BY <1>8, <2>1, Zenon DEF Again
<1> QED
  BY <1>7, <1>9 DEF token

(* ... and anything else as it was. *)
LEMMA OtherAgain ==
  ASSUME NEW old, NEW new, NEW token, token[1] # "input",
         \A n \in DOMAIN old : token # Word(old[n])
  PROVE  Templated(token, old) = token /\ Again(token, old, new) = token
<1>1. Owners(token, old) = {}
  BY DEF Owners
<1>2. Templated(token, old) = token
  BY <1>1, Zenon DEF Templated
<1> QED
  BY <1>2, Zenon DEF Again

(* The console's own words stay what they are. *)
LEMMA ConsoleWordAgain ==
  ASSUME NEW old, NEW new, Fit(old, new), NEW w \in ConsoleWords
  PROVE  Again(Word(w), old, new) = Word(w)
<1>1. Word(w)[1] = "word" /\ \A n \in DOMAIN old : Word(w) # Word(old[n])
  BY DEF Word, Fit
<1> QED
  BY <1>1, OtherAgain

(* A path or a text that is templated for the trace, and bound for a       *)
(* replay, is the old one with each token again.  That a short value is    *)
(* left in a text makes no difference: a replay is given the same one.     *)
LEMMA PathAgain ==
  ASSUME NEW old, NEW new, NEW p
  PROVE  BindText(TemplatePath(p, old), new) = Rebound(p, old, new)
<1>1. DOMAIN TemplatePath(p, old) = DOMAIN p
  BY DEF TemplatePath
<1>2. \A i \in DOMAIN p : TemplatePath(p, old)[i] = Templated(p[i], old)
  BY DEF TemplatePath
<1> QED
  BY <1>1, <1>2, Zenon DEF BindText, Rebound, Again

LEMMA TextAgain ==
  ASSUME NEW old, NEW new, Fit(old, new), NEW t, IsText(t)
  PROVE  BindText(TemplateText(t, old), new) = Rebound(t, old, new)
<1> DEFINE u == TemplateText(t, old)
           Binding(token) == IF token[1] = "input" THEN Word(new[token[2]]) ELSE token
<1>1. DOMAIN u = DOMAIN t
  BY DEF TemplateText
<1>2. ASSUME NEW i \in DOMAIN t PROVE Binding(u[i]) = Again(t[i], old, new)
  <2>1. u[i] = IF t[i][2] \in Short /\ Len(t) > 1 THEN t[i] ELSE Templated(t[i], old)
    BY DEF TemplateText
  <2> HIDE DEF u
  <2>2. CASE u[i] = Templated(t[i], old)
    BY <2>2, Zenon DEF Again
  <2>3. CASE u[i] = t[i] /\ t[i][2] \in Short
    <3>1. t[i][1] # "input"
      BY DEF IsText
    <3>2. Binding(u[i]) = t[i]
      BY <2>3, <3>1
    <3>3. CASE \E n \in DOMAIN old : t[i] = Word(old[n])
      <4>1. PICK n \in DOMAIN old : t[i] = Word(old[n])
        BY <3>3
      <4>2. old[n] \in Short
        BY <2>3, <4>1 DEF Word
      <4>3. new[n] = old[n]
        BY <4>2 DEF Fit, Comparable
      <4> QED
        BY <3>2, <4>1, <4>3, ValueAgain
    <3>4. CASE \A n \in DOMAIN old : t[i] # Word(old[n])
      BY <3>1, <3>2, <3>4, OtherAgain
    <3> QED
      BY <3>3, <3>4
  <2> QED
    BY <2>1, <2>2, <2>3
<1>3. BindText(u, new) = [i \in DOMAIN u |-> Binding(u[i])]
  BY DEF BindText
<1> HIDE DEF u, Binding
<1>4. BindText(u, new) = [i \in DOMAIN t |-> Again(t[i], old, new)]
  BY <1>1, <1>2, <1>3
<1> QED
  BY <1>4 DEF Rebound, u

(* What a decision says, bound with the one inputs or with the other. *)
LEMMA BoundAgain ==
  ASSUME NEW old, NEW new, Fit(old, new), NEW t, t \in Seq({t[i] : i \in DOMAIN t}),
         Holes(t) \subseteq DOMAIN old,
         \A i \in DOMAIN t : t[i][1] = "word" => \A n \in DOMAIN old : old[n] # t[i][2]
  PROVE  /\ IsText(BindText(t, old))
         /\ BindText(t, new) = Rebound(BindText(t, old), old, new)
         /\ t # <<>> => BindText(t, old) # <<>>
<1> DEFINE u == BindText(t, old)
<1>1. /\ DOMAIN u = DOMAIN t
      /\ \A i \in DOMAIN t : u[i] = IF t[i][1] = "input" THEN Word(old[t[i][2]]) ELSE t[i]
  BY DEF BindText
<1>2. Len(t) \in Nat /\ DOMAIN t = 1..Len(t) /\ (t # <<>> => Len(t) > 0)
  BY EmptySeq
<1>3. ASSUME NEW i \in DOMAIN t
      PROVE  /\ u[i][1] # "input"
             /\ Again(u[i], old, new) = BindText(t, new)[i]
  <2>1. CASE t[i][1] = "input"
    <3>1. t[i][2] \in DOMAIN old
      BY <2>1 DEF Holes
    <3>2. u[i] = Word(old[t[i][2]]) /\ BindText(t, new)[i] = Word(new[t[i][2]])
      BY <2>1 DEF BindText
    <3>3. u[i][1] # "input"
      BY <3>2 DEF Word
    <3> HIDE DEF u
    <3> QED
      BY <3>1, <3>2, <3>3, ValueAgain
  <2>2. CASE t[i][1] # "input"
    <3>1. u[i] = t[i] /\ BindText(t, new)[i] = t[i]
      BY <2>2 DEF BindText
    <3>2. ASSUME NEW n \in DOMAIN old, t[i] = Word(old[n]) PROVE FALSE
      <4>1. t[i][1] = "word" /\ t[i][2] = old[n]
        BY <3>2 DEF Word
      <4> QED
        BY <4>1
    <3> HIDE DEF u
    <3> QED
      BY <2>2, <3>1, <3>2, OtherAgain
  <2> QED
    BY <2>1, <2>2
<1>4. u \in Seq({u[i] : i \in DOMAIN u})
  <2>1. u = [i \in 1..Len(t) |-> u[i]]
    BY <1>1, <1>2 DEF BindText
  <2> HIDE DEF u
  <2> QED
    BY <1>1, <1>2, <2>1
<1>5. BindText(t, new) = Rebound(u, old, new)
  <2>1. BindText(t, new) = [i \in DOMAIN t |-> BindText(t, new)[i]]
    BY DEF BindText
  <2> HIDE DEF u
  <2> QED
    BY <1>1, <1>3, <2>1 DEF Rebound
<1>6. t # <<>> => u # <<>>
  <2>1. DOMAIN <<>> = {}
    OBVIOUS
  <2> HIDE DEF u
  <2> QED
    BY <1>1, <1>2, <2>1
<1> HIDE DEF u
<1>7. IsText(u)
  BY <1>1, <1>3, <1>4 DEF IsText
<1> QED
  BY <1>5, <1>6, <1>7 DEF u

------------------------------------------------------------------------------
(* The console, given the one inputs and the other *)

Page(p) ==
  /\ p = [path |-> p.path, field |-> p.field]
  /\ IsText(p.path) /\ p.path # <<>> /\ IsText(p.field)

PageAgain(p, old, new) ==
  [path |-> Rebound(p.path, old, new), field |-> Rebound(p.field, old, new)]

LEMMA SizeAgain ==
  ASSUME NEW old, NEW new, NEW t, IsText(t)
  PROVE  /\ Len(t) \in Nat /\ DOMAIN t = 1..Len(t)
         /\ \E S : Rebound(t, old, new) \in Seq(S)
         /\ Len(Rebound(t, old, new)) = Len(t)
         /\ Rebound(t, old, new) = <<>> <=> t = <<>>
         /\ t # <<>> => Len(t) \in 1..Len(t)
<1> DEFINE u == Rebound(t, old, new)
<1>1. Len(t) \in Nat /\ DOMAIN t = 1..Len(t) /\ (t = <<>> <=> Len(t) = 0)
  BY EmptySeq DEF IsText
<1>2. u = [i \in 1..Len(t) |-> Again(t[i], old, new)]
  BY <1>1 DEF Rebound
<1>3. DOMAIN u = 1..Len(t) /\ u \in Seq({u[i] : i \in 1..Len(t)})
  <2>1. DOMAIN u = 1..Len(t) /\ u = [i \in 1..Len(t) |-> u[i]]
    BY <1>2
  <2> HIDE DEF u
  <2> QED
    BY <1>1, <2>1
<1> HIDE DEF u
<1>4. Len(u) = Len(t) /\ (u = <<>> <=> Len(u) = 0)
  BY <1>1, <1>3, EmptySeq
<1> QED
  BY <1>1, <1>3, <1>4 DEF u

(* A word of the console before a text. *)
Under(w, t) == <<Word(w)>> \o t

LEMMA UnderAgain ==
  ASSUME NEW old, NEW new, Fit(old, new), NEW w \in ConsoleWords, NEW t, IsText(t)
  PROVE  /\ IsText(Under(w, t)) /\ Under(w, t) # <<>>
         /\ Rebound(Under(w, t), old, new) = Under(w, Rebound(t, old, new))
<1>1. PICK S : t \in Seq(S)
  BY DEF IsText
<1>2. PICK R : Rebound(t, old, new) \in Seq(R)
  BY SizeAgain
<1> DEFINE a == <<Word(w)>> \o t
           b == <<Word(w)>> \o Rebound(t, old, new)
           c == Rebound(a, old, new)
<1>3. /\ Len(t) \in Nat /\ DOMAIN t = 1..Len(t) /\ Len(Rebound(t, old, new)) = Len(t)
      /\ \A i \in DOMAIN t : Rebound(t, old, new)[i] = Again(t[i], old, new)
  BY SizeAgain DEF Rebound
<1>4. /\ a \in Seq(S \cup {Word(w)}) /\ Len(a) = Len(t) + 1 /\ DOMAIN a = 1..(Len(t) + 1)
      /\ a[1] = Word(w) /\ \A i \in 2..(Len(t) + 1) : a[i] = t[i - 1]
  <2>1. <<Word(w)>> \in Seq(S \cup {Word(w)}) /\ t \in Seq(S \cup {Word(w)})
        /\ Len(<<Word(w)>>) = 1 /\ <<Word(w)>>[1] = Word(w)
    BY <1>1, SeqMonotonic
  <2> QED
    BY <1>3, <2>1, ConcatProperties
<1>5. /\ b \in Seq(R \cup {Word(w)}) /\ Len(b) = Len(t) + 1
      /\ b[1] = Word(w) /\ \A i \in 2..(Len(t) + 1) : b[i] = Rebound(t, old, new)[i - 1]
  <2> DEFINE u == Rebound(t, old, new)
  <2>1. <<Word(w)>> \in Seq(R \cup {Word(w)}) /\ u \in Seq(R \cup {Word(w)})
        /\ Len(<<Word(w)>>) = 1 /\ <<Word(w)>>[1] = Word(w) /\ Len(u) = Len(t)
    BY <1>2, <1>3, SeqMonotonic
  <2> HIDE DEF u
  <2> QED
    BY <1>3, <2>1, ConcatProperties DEF u
<1>6. IsText(a) /\ a # <<>>
  <2>1. Word(w)[1] # "input" /\ \A i \in DOMAIN t : t[i][1] # "input"
    BY DEF Word, IsText
  <2>2. ASSUME NEW i \in 1..(Len(t) + 1) PROVE a[i][1] # "input"
    <3> HIDE DEF a
    <3>1. i = 1 \/ (i \in 2..(Len(t) + 1) /\ i - 1 \in 1..Len(t))
      BY <1>3
    <3> QED
      BY <1>3, <1>4, <2>1, <3>1
  <2>3. 1 \in DOMAIN a /\ DOMAIN <<>> = {}
    BY <1>3, <1>4
  <2> HIDE DEF a
  <2>4. a # <<>>
    BY <2>3
  <2> QED
    BY <1>4, <2>2, <2>4 DEF IsText
<1>7. DOMAIN c = 1..(Len(t) + 1) /\ \A i \in 1..(Len(t) + 1) : c[i] = Again(a[i], old, new)
  <2> HIDE DEF a
  <2> QED
    BY <1>4 DEF Rebound
<1>8. \A i \in 1..(Len(t) + 1) : c[i] = b[i]
  <2> SUFFICES ASSUME NEW i \in 1..(Len(t) + 1) PROVE c[i] = b[i]
    OBVIOUS
  <2> HIDE DEF a, b, c
  <2>1. CASE i = 1
    BY <1>4, <1>5, <1>7, <2>1, ConsoleWordAgain
  <2>2. CASE i # 1
    <3>1. i \in 2..(Len(t) + 1) /\ i - 1 \in 1..Len(t)
      BY <1>3, <2>2
    <3> QED
      BY <1>3, <1>4, <1>5, <1>7, <3>1
  <2> QED
    BY <2>1, <2>2
<1>9. c = b
  <2>1. \E S2 : c \in Seq(S2)
    <3> HIDE DEF a
    <3> QED
      BY <1>6, SizeAgain
  <2>2. Len(c) = Len(t) + 1
    <3> HIDE DEF a
    <3> QED
      BY <1>4, <1>6, SizeAgain
  <2>3. PICK S2 : c \in Seq(S2)
    BY <2>1
  <2> HIDE DEF a, b, c
  <2>4. c \in Seq(S2 \cup (R \cup {Word(w)})) /\ b \in Seq(S2 \cup (R \cup {Word(w)}))
    BY <1>5, <2>3, SeqMonotonic
  <2> QED
    BY <1>5, <1>8, <2>2, <2>4, SeqEqual
<1> QED
  BY <1>6, <1>9 DEF Under

LEMMA EmptyAgain ==
  ASSUME NEW old, NEW new
  PROVE  IsText(<<>>) /\ Rebound(<<>>, old, new) = <<>>
<1>1. <<>> \in Seq({}) /\ DOMAIN <<>> = {}
  BY EmptySeq
<1>2. IsText(<<>>)
  BY <1>1 DEF IsText
<1> QED
  BY <1>2, SizeAgain

(* A text of one word of the console. *)
LEMMA OneWord ==
  ASSUME NEW old, NEW new, Fit(old, new), NEW w \in ConsoleWords
  PROVE  IsText(<<Word(w)>>) /\ Rebound(<<Word(w)>>, old, new) = <<Word(w)>>
<1>1. IsText(<<Word(w)>>)
  <2>1. <<Word(w)>> \in Seq({Word(w)}) /\ DOMAIN <<Word(w)>> = {1} /\ <<Word(w)>>[1] = Word(w)
    OBVIOUS
  <2>2. Word(w)[1] # "input"
    BY DEF Word
  <2> QED
    BY <2>1, <2>2 DEF IsText
<1>2. Rebound(<<Word(w)>>, old, new) = [i \in {1} |-> Again(Word(w), old, new)]
  <2>1. DOMAIN <<Word(w)>> = {1} /\ <<Word(w)>>[1] = Word(w)
    OBVIOUS
  <2>2. Rebound(<<Word(w)>>, old, new) = [i \in {1} |-> Again(<<Word(w)>>[i], old, new)]
    BY <2>1, Zenon DEF Rebound
  <2> QED
    BY <2>1, <2>2
<1>3. Again(Word(w), old, new) = Word(w)
  BY ConsoleWordAgain
<1>4. <<Word(w)>> = [i \in {1} |-> Word(w)]
  OBVIOUS
<1> QED
  BY <1>1, <1>2, <1>3, <1>4

LEMMA HomeAgain ==
  ASSUME NEW old, NEW new, Fit(old, new)
  PROVE  Page(Home) /\ PageAgain(Home, old, new) = Home
<1>1. "search" \in ConsoleWords
  BY DEF ConsoleWords
<1>2. IsText(<<Word("search")>>) /\ Rebound(<<Word("search")>>, old, new) = <<Word("search")>>
  BY <1>1, OneWord
<1>3. IsText(<<>>) /\ Rebound(<<>>, old, new) = <<>>
  BY EmptyAgain
<1>4. <<Word("search")>> # <<>>
  OBVIOUS
<1> QED
  BY <1>2, <1>3, <1>4 DEF Home, Page, PageAgain

(* One step, decided once and carried out with the one inputs and with the *)
(* other, on pages that are the same but for the inputs.                   *)
LEMMA DoneAgain ==
  ASSUME NEW old, NEW new, Fit(old, new), NEW d, Permitted(d, old), Fitting(d),
         NEW b, b.action = d.action,
         d.action = "NAVIGATE" => b.route = {BindText(p, new) : p \in d.route},
         d.action = "FILL" => b.value = {BindText(v.text, new) : v \in d.value},
         NEW p, Page(p)
  PROVE  /\ Page(Do(p, Bound(d, old)))
         /\ Do(PageAgain(p, old, new), b) = PageAgain(Do(p, Bound(d, old)), old, new)
<1> DEFINE a == Bound(d, old)
           q == PageAgain(p, old, new)
<1>1. /\ a.action = d.action /\ a.route = {BindText(t, old) : t \in d.route}
      /\ a.value = {BindText(v.text, old) : v \in d.value}
  BY DEF Bound
<1>2. /\ p = [path |-> p.path, field |-> p.field]
      /\ IsText(p.path) /\ p.path # <<>> /\ IsText(p.field)
      /\ q = [path |-> Rebound(p.path, old, new), field |-> Rebound(p.field, old, new)]
  BY DEF Page, PageAgain
<1>3. \A t \in d.route \cup {v.text : v \in d.value} :
        /\ IsText(BindText(t, old)) /\ BindText(t, new) = Rebound(BindText(t, old), old, new)
        /\ t # <<>> => BindText(t, old) # <<>>
  BY BoundAgain DEF Permitted
<1> HIDE DEF a, q
<1>4. CASE d.action = "NAVIGATE"
  <2>1. PICK t : d.route = {t} /\ t # <<>>
    <3>1. d.route # {} /\ AtMostOne(d.route) /\ <<>> \notin d.route
      BY <1>4 DEF Fitting
    <3>2. PICK t : t \in d.route
      BY <3>1
    <3>3. d.route = {t}
      BY <3>1, <3>2 DEF AtMostOne
    <3>4. t # <<>>
      BY <3>1, <3>2
    <3> QED
      BY <3>3, <3>4
  <2>2. a.route = {BindText(t, old)} /\ b.route = {BindText(t, new)}
    BY <1>1, <1>4, <2>1
  <2>3. /\ Do(p, a) = [p EXCEPT !.path = CHOOSE x \in a.route : TRUE]
        /\ Do(q, b) = [q EXCEPT !.path = CHOOSE x \in b.route : TRUE]
    BY <1>1, <1>4 DEF Do
  <2>4. \A y : (CHOOSE x \in {y} : TRUE) = y
    OBVIOUS
  <2>5. /\ Do(p, a) = [path |-> BindText(t, old), field |-> p.field]
        /\ Do(q, b) = [path |-> BindText(t, new), field |-> Rebound(p.field, old, new)]
    BY <1>2, <2>2, <2>3, <2>4
  <2> QED
    BY <1>2, <1>3, <2>1, <2>5 DEF Page, PageAgain, a, q
<1>5. CASE d.action = "FILL"
  <2>1. PICK v : d.value = {v}
    BY <1>5 DEF Fitting, AtMostOne
  <2>2. a.value = {BindText(v.text, old)} /\ b.value = {BindText(v.text, new)}
    BY <1>1, <1>5, <2>1
  <2>3. /\ Do(p, a) = [p EXCEPT !.field = CHOOSE x \in a.value : TRUE]
        /\ Do(q, b) = [q EXCEPT !.field = CHOOSE x \in b.value : TRUE]
    BY <1>1, <1>5 DEF Do
  <2>4. \A y : (CHOOSE x \in {y} : TRUE) = y
    OBVIOUS
  <2>5. /\ Do(p, a) = [path |-> p.path, field |-> BindText(v.text, old)]
        /\ Do(q, b) = [path |-> Rebound(p.path, old, new), field |-> BindText(v.text, new)]
    BY <1>2, <2>2, <2>3, <2>4
  <2> QED
    BY <1>2, <1>3, <2>1, <2>5 DEF Page, PageAgain, a, q
<1>6. CASE d.action \in {"CLICK", "READ"}
  <2>1. p.field = <<>> <=> q.field = <<>>
    BY <1>2, SizeAgain
  <2>2. CASE d.action = "CLICK" /\ p.field # <<>>
    <3> DEFINE x == Under("members", p.field)
               y == Under("members", q.field)
    <3>1. Do(p, a) = [p EXCEPT !.path = x] /\ Do(q, b) = [q EXCEPT !.path = y]
      BY <1>1, <2>1, <2>2 DEF Do, Under
    <3>2. "members" \in ConsoleWords
      BY DEF ConsoleWords
    <3>3. IsText(x) /\ x # <<>> /\ Rebound(x, old, new) = Under("members", Rebound(p.field, old, new))
      BY <1>2, <3>2, UnderAgain
    <3>4. y = Rebound(x, old, new)
      BY <1>2, <3>3
    <3> HIDE DEF x, y
    <3>5. /\ Do(p, a) = [path |-> x, field |-> p.field]
          /\ Do(q, b) = [path |-> y, field |-> Rebound(p.field, old, new)]
      BY <1>2, <3>1
    <3>6. Page([path |-> x, field |-> p.field])
      BY <1>2, <3>3 DEF Page
    <3> QED
      BY <3>4, <3>5, <3>6 DEF PageAgain, a, q
  <2>3. CASE ~(d.action = "CLICK" /\ p.field # <<>>)
    <3>1. Do(p, a) = p /\ Do(q, b) = q
      BY <1>1, <1>6, <2>1, <2>3 DEF Do
    <3> QED
      BY <3>1 DEF a, q
  <2> QED
    BY <2>2, <2>3
<1> QED
  BY <1>4, <1>5, <1>6 DEF Fitting

(* The recursion of Journey has a solution of every length, ... *)
Goes(f, actions, n) ==
  f = [i \in 0..n |-> IF i = 0 THEN Home ELSE Do(f[i - 1], actions[i])]

LEMMA SomeJourney ==
  ASSUME NEW actions, NEW n \in Nat
  PROVE  \E f : Goes(f, actions, n)
<1> DEFINE Stuck == {m \in Nat : ~(\E f : Goes(f, actions, m))}
<1>1. ASSUME Stuck # {} PROVE FALSE
  <2>1. Stuck \in SUBSET Nat
    OBVIOUS
  <2> HIDE DEF Stuck
  <2>2. PICK m \in Stuck : \A other \in Stuck : m <= other
    BY <1>1, <2>1, LeastOf
  <2>3. m \in Nat /\ ~(\E f : Goes(f, actions, m))
    BY <2>2 DEF Stuck
  <2>4. CASE m = 0
    <3> DEFINE f == [i \in 0..0 |-> Home]
    <3>1. f = [i \in 0..0 |-> IF i = 0 THEN Home ELSE Do(f[i - 1], actions[i])]
      OBVIOUS
    <3> HIDE DEF f
    <3>2. Goes(f, actions, 0)
      BY <3>1 DEF Goes
    <3> QED
      BY <2>3, <2>4, <3>2
  <2>5. CASE m # 0
    <3>1. m - 1 \in Nat /\ m - 1 < m
      BY <2>3, <2>5
    <3>2. m - 1 \notin Stuck
      BY <2>2, <2>3, <3>1
    <3>3. PICK f : Goes(f, actions, m - 1)
      BY <3>1, <3>2 DEF Stuck
    <3> DEFINE g == [i \in 0..m |-> IF i < m THEN f[i] ELSE Do(f[m - 1], actions[m])]
    <3>4. ASSUME NEW i \in 0..m
          PROVE  g[i] = IF i = 0 THEN Home ELSE Do(g[i - 1], actions[i])
      <4>1. CASE i = 0
        <5>1. g[i] = f[0]
          BY <2>3, <2>5, <4>1
        <5>2. f[0] = Home
          <6>1. 0 \in 0..(m - 1)
            BY <3>1
          <6> QED
            BY <3>3, <6>1 DEF Goes
        <5> QED
          BY <4>1, <5>1, <5>2
      <4>2. CASE i # 0 /\ i < m
        <5>1. i \in 0..(m - 1) /\ i - 1 \in 0..m /\ i - 1 < m
          BY <2>3, <4>2
        <5>2. f[i] = Do(f[i - 1], actions[i])
          BY <3>3, <4>2, <5>1 DEF Goes
        <5>3. g[i] = f[i] /\ g[i - 1] = f[i - 1]
          BY <4>2, <5>1
        <5> HIDE DEF g
        <5> QED
          BY <4>2, <5>2, <5>3
      <4>3. CASE i = m
        <5>1. m - 1 \in 0..m /\ m - 1 < m /\ ~(m < m)
          BY <2>3, <2>5
        <5>2. g[i] = Do(f[m - 1], actions[m]) /\ g[i - 1] = f[m - 1]
          BY <4>3, <5>1
        <5> HIDE DEF g
        <5> QED
          BY <2>5, <4>3, <5>2
      <4> QED
        BY <2>3, <4>1, <4>2, <4>3
    <3>5. DOMAIN g = 0..m /\ g = [i \in 0..m |-> g[i]]
      OBVIOUS
    <3> HIDE DEF g
    <3>6. g = [i \in 0..m |-> IF i = 0 THEN Home ELSE Do(g[i - 1], actions[i])]
      BY <3>4, <3>5
    <3>7. Goes(g, actions, m)
      BY <3>6 DEF Goes
    <3> QED
      BY <2>3, <3>7
  <2> QED
    BY <2>4, <2>5
<1> QED
  BY <1>1

(* ... so that each page of a journey follows from the one before. *)
LEMMA JourneyGoes ==
  ASSUME NEW actions, NEW n \in Nat, DOMAIN actions = 1..n, actions = [i \in 1..n |-> actions[i]]
  PROVE  /\ Len(actions) = n
         /\ Journey(actions)[0] = Home
         /\ \A i \in 1..n : Journey(actions)[i] = Do(Journey(actions)[i - 1], actions[i])
<1>1. Len(actions) = n
  <2>1. actions \in Seq({actions[i] : i \in 1..n})
    OBVIOUS
  <2> QED
    BY <2>1
<1>2. Journey(actions) = CHOOSE f : Goes(f, actions, n)
  BY <1>1 DEF Journey, Goes
<1>3. Goes(Journey(actions), actions, n)
  BY <1>2, SomeJourney
<1>4. 0 \in 0..n /\ \A i \in 1..n : i \in 0..n /\ i # 0
  OBVIOUS
<1> DEFINE page == Journey(actions)
<1> HIDE DEF page
<1>5. page = [i \in 0..n |-> IF i = 0 THEN Home ELSE Do(page[i - 1], actions[i])]
  BY <1>3 DEF Goes, page
<1>6. page[0] = Home /\ \A i \in 1..n : page[i] = Do(page[i - 1], actions[i])
  BY <1>4, <1>5
<1> QED
  BY <1>1, <1>6 DEF page

------------------------------------------------------------------------------
(* What a replay looks for, and where *)

LEMMA TargetAgain ==
  ASSUME NEW old, NEW new, Fit(old, new), NEW r, IsText(r), NEW m, IsText(m), NEW s, IsText(s)
  PROVE  BindTarget({[f \in DOMAIN t |-> TemplateText(t[f], old)] :
                       t \in {[role |-> r, name |-> m, scope |-> s]}}, new)
           = {[role |-> Rebound(r, old, new), name |-> Rebound(m, old, new),
               scope |-> Rebound(s, old, new)]}
<1> DEFINE e == [role |-> r, name |-> m, scope |-> s]
           u == [f \in DOMAIN e |-> TemplateText(e[f], old)]
           v == [f \in DOMAIN u |-> BindText(u[f], new)]
<1>1. DOMAIN e = {"role", "name", "scope"} /\ DOMAIN u = DOMAIN e
  OBVIOUS
<1>2. /\ v["role"] = Rebound(r, old, new) /\ v["name"] = Rebound(m, old, new)
      /\ v["scope"] = Rebound(s, old, new)
  <2>1. /\ u["role"] = TemplateText(r, old) /\ u["name"] = TemplateText(m, old)
        /\ u["scope"] = TemplateText(s, old)
    OBVIOUS
  <2>2. /\ v["role"] = BindText(u["role"], new) /\ v["name"] = BindText(u["name"], new)
        /\ v["scope"] = BindText(u["scope"], new)
    <3>1. DOMAIN u = {"role", "name", "scope"}
      BY <1>1
    <3> HIDE DEF u
    <3> QED
      BY <3>1
  <2> HIDE DEF u, v
  <2> QED
    BY <2>1, <2>2, TextAgain
<1>3. v = [role |-> Rebound(r, old, new), name |-> Rebound(m, old, new),
           scope |-> Rebound(s, old, new)]
  <2>1. v = [f \in {"role", "name", "scope"} |-> v[f]]
    BY <1>1
  <2> HIDE DEF v
  <2> QED
    BY <1>2, <2>1
<1>4. {[f \in DOMAIN t |-> TemplateText(t[f], old)] : t \in {e}} = {u}
  <2> HIDE DEF e
  <2> QED
    OBVIOUS
<1>5. BindTarget({u}, new) = {v}
  <2> HIDE DEF u
  <2> QED
    BY DEF BindTarget
<1> HIDE DEF v
<1> QED
  BY <1>3, <1>4, <1>5

(* The row of the balance names the last segment of the page's path. *)
LEMMA RowAgain ==
  ASSUME NEW old, NEW new, Fit(old, new), NEW p, Page(p)
  PROVE  LET Row(page) == <<Word("Savings"), Word("of"), page.path[Len(page.path)]>>
         IN  IsText(Row(p)) /\ Rebound(Row(p), old, new) = Row(PageAgain(p, old, new))
<1> DEFINE x == p.path[Len(p.path)]
           q == PageAgain(p, old, new)
           row == <<Word("Savings"), Word("of"), x>>
<1>1. /\ IsText(p.path) /\ Len(p.path) \in DOMAIN p.path
      /\ Len(Rebound(p.path, old, new)) = Len(p.path)
  BY SizeAgain DEF Page
<1>2. q.path = Rebound(p.path, old, new)
  BY DEF PageAgain
<1>3. q.path[Len(q.path)] = Again(x, old, new) /\ x[1] # "input"
  BY <1>1, <1>2 DEF Rebound, IsText
<1>4. "Savings" \in ConsoleWords /\ "of" \in ConsoleWords
  BY DEF ConsoleWords
<1>5. /\ Again(Word("Savings"), old, new) = Word("Savings")
      /\ Again(Word("of"), old, new) = Word("of")
  BY <1>4, ConsoleWordAgain
<1>6. Word("Savings")[1] # "input" /\ Word("of")[1] # "input"
  BY DEF Word
<1> HIDE DEF x, q
<1>7. /\ row \in Seq({Word("Savings"), Word("of"), x}) /\ DOMAIN row = 1..3
      /\ row[1] = Word("Savings") /\ row[2] = Word("of") /\ row[3] = x
  OBVIOUS
<1> HIDE DEF row
<1>8. IsText(row)
  <2>1. \A i \in 1..3 : i = 1 \/ i = 2 \/ i = 3
    OBVIOUS
  <2>2. \A i \in DOMAIN row : row[i][1] # "input"
    BY <1>3, <1>6, <1>7, <2>1
  <2> QED
    BY <1>7, <2>2 DEF IsText
<1>9. Rebound(row, old, new) = <<Word("Savings"), Word("of"), Again(x, old, new)>>
  <2> DEFINE u == Rebound(row, old, new)
             w == <<Word("Savings"), Word("of"), Again(x, old, new)>>
  <2>1. /\ u = [i \in 1..3 |-> u[i]] /\ u[1] = Again(row[1], old, new)
        /\ u[2] = Again(row[2], old, new) /\ u[3] = Again(row[3], old, new)
    BY <1>7 DEF Rebound
  <2>2. w = [i \in 1..3 |-> w[i]] /\ w[1] = Word("Savings") /\ w[2] = Word("of")
        /\ w[3] = Again(x, old, new)
    OBVIOUS
  <2> HIDE DEF u, w
  <2>3. \A i \in 1..3 : u[i] = w[i]
    BY <1>5, <1>7, <2>1, <2>2
  <2>4. u = w
    BY <2>1, <2>2, <2>3
  <2> QED
    BY <2>4 DEF u, w
<1> QED
  BY <1>3, <1>8, <1>9 DEF row, x, q

(* The templated target of an action is found again, on the page the       *)
(* replay is on.                                                           *)
LEMMA IdentityAgain ==
  ASSUME NEW old, NEW new, Fit(old, new), NEW p, Page(p), NEW action \in {"FILL", "CLICK", "READ"}
  PROVE  BindTarget({[f \in DOMAIN t |-> TemplateText(t[f], old)] : t \in Identity(p, action)}, new)
           = Identity(PageAgain(p, old, new), action)
<1> DEFINE W(w) == <<Word(w)>>
           R(text) == Rebound(text, old, new)
           Sought(targets) ==
             BindTarget({[f \in DOMAIN t |-> TemplateText(t[f], old)] : t \in targets}, new)
<1>0. \A r, m, s : IsText(r) /\ IsText(m) /\ IsText(s) =>
        Sought({[role |-> r, name |-> m, scope |-> s]})
          = {[role |-> R(r), name |-> R(m), scope |-> R(s)]}
  <2> SUFFICES ASSUME NEW r, NEW m, NEW s, IsText(r), IsText(m), IsText(s)
               PROVE  Sought({[role |-> r, name |-> m, scope |-> s]})
                        = {[role |-> R(r), name |-> R(m), scope |-> R(s)]}
    OBVIOUS
  <2> QED
    BY TargetAgain
<1>1. \A w \in ConsoleWords : IsText(W(w)) /\ R(W(w)) = W(w)
  BY OneWord
<1>2. IsText(<<>>) /\ R(<<>>) = <<>>
  BY EmptyAgain
<1>3. {"textbox", "Member", "button", "Search", "cell"} \subseteq ConsoleWords
  BY DEF ConsoleWords
<1> DEFINE Row(page) == <<Word("Savings"), Word("of"), page.path[Len(page.path)]>>
<1>4. IsText(Row(p)) /\ R(Row(p)) = Row(PageAgain(p, old, new))
  BY RowAgain
<1>5. \A page : /\ Identity(page, "FILL") = {[role |-> W("textbox"), name |-> W("Member"), scope |-> <<>>]}
                /\ Identity(page, "CLICK") = {[role |-> W("button"), name |-> W("Search"), scope |-> <<>>]}
                /\ Identity(page, "READ") = {[role |-> W("cell"), name |-> <<>>, scope |-> Row(page)]}
  BY DEF Identity
<1> HIDE DEF W, Row, R, Sought
<1>6. ASSUME action = "FILL"
      PROVE  Sought(Identity(p, action)) = Identity(PageAgain(p, old, new), action)
  <2>1. /\ IsText(W("textbox")) /\ IsText(W("Member"))
        /\ R(W("textbox")) = W("textbox")
        /\ R(W("Member")) = W("Member")
    BY <1>1, <1>3
  <2>2. Sought({[role |-> W("textbox"), name |-> W("Member"), scope |-> <<>>]})
          = {[role |-> R(W("textbox")), name |-> R(W("Member")), scope |-> R(<<>>)]}
    BY <1>0, <1>2, <1>4, <2>1, Zenon
  <2>3. Identity(p, action) = {[role |-> W("textbox"), name |-> W("Member"), scope |-> <<>>]}
    BY <1>5, <1>6, Zenon
  <2>4. Identity(PageAgain(p, old, new), action) = {[role |-> W("textbox"), name |-> W("Member"), scope |-> <<>>]}
    BY <1>5, <1>6, Zenon
  <2> QED
    BY <1>2, <1>4, <2>1, <2>2, <2>3, <2>4, Zenon
<1>7. ASSUME action = "CLICK"
      PROVE  Sought(Identity(p, action)) = Identity(PageAgain(p, old, new), action)
  <2>1. /\ IsText(W("button")) /\ IsText(W("Search"))
        /\ R(W("button")) = W("button")
        /\ R(W("Search")) = W("Search")
    BY <1>1, <1>3
  <2>2. Sought({[role |-> W("button"), name |-> W("Search"), scope |-> <<>>]})
          = {[role |-> R(W("button")), name |-> R(W("Search")), scope |-> R(<<>>)]}
    BY <1>0, <1>2, <1>4, <2>1, Zenon
  <2>3. Identity(p, action) = {[role |-> W("button"), name |-> W("Search"), scope |-> <<>>]}
    BY <1>5, <1>7, Zenon
  <2>4. Identity(PageAgain(p, old, new), action) = {[role |-> W("button"), name |-> W("Search"), scope |-> <<>>]}
    BY <1>5, <1>7, Zenon
  <2> QED
    BY <1>2, <1>4, <2>1, <2>2, <2>3, <2>4, Zenon
<1>8. ASSUME action = "READ"
      PROVE  Sought(Identity(p, action)) = Identity(PageAgain(p, old, new), action)
  <2>1. IsText(W("cell")) /\ R(W("cell")) = W("cell")
    BY <1>1, <1>3
  <2>2. Sought({[role |-> W("cell"), name |-> <<>>, scope |-> Row(p)]})
          = {[role |-> R(W("cell")), name |-> R(<<>>), scope |-> R(Row(p))]}
    BY <1>0, <1>2, <1>4, <2>1, Zenon
  <2>3. Identity(p, action) = {[role |-> W("cell"), name |-> <<>>, scope |-> Row(p)]}
    BY <1>5, <1>8, Zenon
  <2>4. Identity(PageAgain(p, old, new), action) = {[role |-> W("cell"), name |-> <<>>, scope |-> Row(PageAgain(p, old, new))]}
    BY <1>5, <1>8, Zenon
  <2> QED
    BY <1>2, <1>4, <2>1, <2>2, <2>3, <2>4, Zenon
<1> QED
  BY <1>6, <1>7, <1>8 DEF Sought

------------------------------------------------------------------------------
(* The replay of what was compiled *)

Replayed(new) == BindArtifact(Assembled, new).steps

(* The bound steps, field by field. *)
LEMMA ReplayedFields ==
  ASSUME NEW new
  PROVE  /\ DOMAIN Replayed(new) = DOMAIN Steps
         /\ Replayed(new) = [i \in DOMAIN Steps |-> Replayed(new)[i]]
         /\ \A i \in DOMAIN Steps :
              LET s == Steps[i]
                  b == Replayed(new)[i]
              IN  /\ b.action = s.action
                  /\ s.action = "NAVIGATE" => /\ b.route = {BindText(p, new) : p \in s.route}
                                              /\ b.target = BindTarget({}, new)
                  /\ s.action # "NAVIGATE" => b.target = BindTarget(s.target, new)
                  /\ s.action = "FILL" => b.value = {BindText(v.text, new) : v \in s.value}
                  /\ b.post = {BindCondition(c, new) : c \in Postcondition(s)}
<1>1. Assembled.steps = CompiledSteps /\ DOMAIN CompiledSteps = DOMAIN Steps
  BY DEF Assembled, CompiledSteps
<1>2. Replayed(new) = [i \in DOMAIN Steps |-> BindStep(CompiledSteps[i], new)]
  BY <1>1 DEF Replayed, BindArtifact
<1>3. ASSUME NEW i \in DOMAIN Steps
      PROVE  LET s == Steps[i]
                 b == Replayed(new)[i]
             IN  /\ b.action = s.action
                 /\ s.action = "NAVIGATE" => /\ b.route = {BindText(p, new) : p \in s.route}
                                             /\ b.target = BindTarget({}, new)
                 /\ s.action # "NAVIGATE" => b.target = BindTarget(s.target, new)
                 /\ s.action = "FILL" => b.value = {BindText(v.text, new) : v \in s.value}
                 /\ b.post = {BindCondition(c, new) : c \in Postcondition(s)}
  <2> DEFINE s == Steps[i]
             k == CompiledStep(s)
             b == Replayed(new)[i]
  <2>1. b = BindStep(k, new)
    BY <1>2 DEF CompiledSteps
  <2>2. /\ k.action = s.action /\ k.post = Postcondition(s)
        /\ k.route = IF s.action = "NAVIGATE" THEN s.route ELSE {}
        /\ k.target = IF s.action = "NAVIGATE" THEN {} ELSE s.target
        /\ k.value = IF s.action \in ValueActions THEN s.value ELSE {}
    BY CompiledFields
  <2> HIDE DEF s, k, b
  <2>3. /\ b.action = k.action /\ b.route = {BindText(p, new) : p \in k.route}
        /\ b.target = BindTarget(k.target, new)
        /\ b.value = {BindText(v.text, new) : v \in k.value}
        /\ b.post = {BindCondition(c, new) : c \in k.post}
    BY <2>1 DEF BindStep
  <2>4. /\ s.action = "NAVIGATE" => k.route = s.route /\ k.target = {}
        /\ s.action # "NAVIGATE" => k.target = s.target
        /\ s.action = "FILL" => k.value = s.value
    BY <2>2 DEF ValueActions
  <2> QED
    BY <2>2, <2>3, <2>4 DEF s, b
<1> QED
  BY <1>2, <1>3

(* The pages of the recorded run and those of its replay. *)
LEMMA PagesAgain ==
  ASSUME Called, NEW decisions, RanAs(record, decisions), NEW new, Fit(record.traced, new)
  PROVE  LET old  == record.traced
             page == Tour(decisions, old)
             next == Journey(Replayed(new))
         IN  /\ Len(Replayed(new)) = Len(Steps)
             /\ \A i \in 0..Len(Steps) : Page(page[i]) /\ next[i] = PageAgain(page[i], old, new)
             /\ \A i \in 1..Len(Steps) : next[i] = Do(next[i - 1], Replayed(new)[i])
<1> DEFINE old  == record.traced
           page == Tour(decisions, old)
           next == Journey(Replayed(new))
           n    == Len(Steps)
           acts == [i \in DOMAIN decisions |-> Bound(decisions[i], old)]
<1>1. /\ n \in Nat /\ DOMAIN Steps = 1..n /\ DOMAIN decisions = 1..n
      /\ \A i \in 1..n :
           /\ Permitted(decisions[i], old) /\ Fitting(decisions[i])
           /\ Steps[i].action = decisions[i].action /\ Steps[i].route = decisions[i].route
           /\ Steps[i].value = decisions[i].value
  BY RecordFacts DEF RanAs, Steps
<1>2. page[0] = Home /\ \A i \in 1..n : page[i] = Do(page[i - 1], Bound(decisions[i], old))
  <2>1. DOMAIN acts = 1..n /\ acts = [i \in 1..n |-> acts[i]]
    BY <1>1
  <2>2. \A i \in 1..n : acts[i] = Bound(decisions[i], old)
    BY <1>1
  <2>3. page = Journey(acts)
    BY DEF Tour
  <2> HIDE DEF acts, page, n, old
  <2> QED
    BY <1>1, <2>1, <2>2, <2>3, JourneyGoes
<1>3. /\ Len(Replayed(new)) = n
      /\ next[0] = Home /\ \A i \in 1..n : next[i] = Do(next[i - 1], Replayed(new)[i])
  <2>1. DOMAIN Replayed(new) = 1..n /\ Replayed(new) = [i \in 1..n |-> Replayed(new)[i]]
    BY <1>1, ReplayedFields
  <2> HIDE DEF n
  <2> QED
    BY <1>1, <2>1, JourneyGoes
<1> DEFINE Same(i) == Page(page[i]) /\ next[i] = PageAgain(page[i], old, new)
           odd == {i \in 0..n : ~Same(i)}
<1>4. Same(0)
  BY <1>2, <1>3, HomeAgain
<1>5. ASSUME NEW i \in 1..n, Same(i - 1) PROVE Same(i)
  <2> DEFINE d == decisions[i]
             b == Replayed(new)[i]
             p == page[i - 1]
  <2>1. Permitted(d, old) /\ Fitting(d)
    BY <1>1
  <2>2. /\ b.action = d.action
        /\ d.action = "NAVIGATE" => b.route = {BindText(t, new) : t \in d.route}
        /\ d.action = "FILL" => b.value = {BindText(v.text, new) : v \in d.value}
    <3>1. i \in DOMAIN Steps
      BY <1>1
    <3>2. /\ b.action = Steps[i].action
          /\ Steps[i].action = "NAVIGATE" => b.route = {BindText(t, new) : t \in Steps[i].route}
          /\ Steps[i].action = "FILL" => b.value = {BindText(v.text, new) : v \in Steps[i].value}
      BY <3>1, ReplayedFields
    <3> HIDE DEF b
    <3> QED
      BY <1>1, <3>2
  <2>3. Page(p) /\ next[i - 1] = PageAgain(p, old, new)
    BY <1>5
  <2>4. page[i] = Do(p, Bound(d, old)) /\ next[i] = Do(next[i - 1], b)
    BY <1>2, <1>3
  <2> HIDE DEF d, b, p, old, page, next
  <2>5. /\ Page(Do(p, Bound(d, old)))
        /\ Do(PageAgain(p, old, new), b) = PageAgain(Do(p, Bound(d, old)), old, new)
    BY <2>1, <2>2, <2>3, DoneAgain DEF old
  <2> QED
    BY <2>3, <2>4, <2>5
<1> HIDE DEF Same, n
<1>6. ASSUME odd # {} PROVE FALSE
  <2>1. odd \in SUBSET Nat
    BY <1>1
  <2> HIDE DEF odd
  <2>2. PICK i \in odd : \A other \in odd : i <= other
    BY <1>6, <2>1, LeastOf
  <2>3. i \in 0..n /\ ~Same(i)
    BY <2>2 DEF odd
  <2>4. i # 0
    BY <1>4, <2>3
  <2>5. i \in 1..n /\ i - 1 \in 0..n /\ ~(i <= i - 1)
    BY <1>1, <2>3, <2>4
  <2>6. Same(i - 1)
    BY <2>2, <2>5 DEF odd
  <2> QED
    BY <1>5, <2>3, <2>5, <2>6
<1>7. \A i \in 0..n : Same(i)
  BY <1>6
<1> QED
  BY <1>3, <1>7 DEF Same, n

(* The route a step led to is the one its postcondition asks for. *)
LEMMA RouteHolds ==
  ASSUME NEW old, NEW new, NEW p, NEW c,
         c = BindCondition(RouteMatches(TemplatePath(p.path, old)), new)
  PROVE  Holds(c, PageAgain(p, old, new))
<1>1. c.type = "ROUTE_MATCHES" /\ c.route = {BindText(TemplatePath(p.path, old), new)}
  BY RouteConditions DEF BindCondition
<1>2. c.route = {PageAgain(p, old, new).path}
  BY <1>1, PathAgain DEF PageAgain
<1> QED
  BY <1>1, <1>2 DEF Holds

(* So is the value it left in the field. *)
LEMMA ValueHolds ==
  ASSUME NEW new, NEW s, NEW b, NEW p, s.value # {}, AtMostOne(s.value),
         p = [path |-> p.path, field |-> p.field],
         b.action = "FILL", b.value = {BindText(v.text, new) : v \in s.value},
         \E t : s.target = {t}, BindTarget(s.target, new) = Identity(p, "FILL"),
         NEW t \in s.target, NEW v \in s.value, NEW c,
         c = BindCondition(ValueEquals(t, v), new)
  PROVE  Holds(c, Do(p, b))
<1>1. /\ c.type = "VALUE_EQUALS" /\ c.value = {BindText(v.text, new)}
      /\ c.target = BindTarget({t}, new)
  <2> DEFINE e == ValueEquals(t, v)
  <2>1. e.type = "VALUE_EQUALS" /\ e.value = {v} /\ e.target = {t}
    BY DEF ValueEquals, Condition
  <2> HIDE DEF e
  <2>2. c.type = e.type /\ c.value = {BindText(w.text, new) : w \in e.value}
        /\ c.target = BindTarget(e.target, new)
    BY DEF BindCondition, e
  <2>3. {BindText(w.text, new) : w \in {v}} = {BindText(v.text, new)}
    OBVIOUS
  <2> QED
    BY <2>1, <2>2, <2>3
<1>2. s.target = {t} /\ s.value = {v}
  BY DEF AtMostOne
<1>3. b.value = {BindText(v.text, new)}
  BY <1>2
<1>4. Do(p, b) = [p EXCEPT !.field = CHOOSE w \in b.value : TRUE]
  BY DEF Do
<1>5. (CHOOSE w \in b.value : TRUE) = BindText(v.text, new)
  BY <1>3
<1>6. Do(p, b).field = BindText(v.text, new)
  <2> DEFINE w == CHOOSE w \in b.value : TRUE
             q == p
  <2>1. \A x, y, z : [[path |-> x, field |-> y] EXCEPT !.field = z].field = z
    OBVIOUS
  <2>2. Do(p, b) = [[path |-> p.path, field |-> p.field] EXCEPT !.field = w]
    BY <1>4, Zenon
  <2> HIDE DEF w
  <2>3. Do(p, b).field = w
    BY <2>1, <2>2, Zenon
  <2> QED
    BY <1>5, <2>3 DEF w
<1>7. Identity(Do(p, b), "FILL") = Identity(p, "FILL")
  BY DEF Identity
<1>8. c.target = Identity(Do(p, b), "FILL")
  BY <1>1, <1>2, <1>7
<1>9. c.value = {Do(p, b).field}
  BY <1>1, <1>6
<1> QED
  BY <1>1, <1>8, <1>9 DEF Holds

(* Every target is found, every postcondition and the checkpoint hold. *)
LEMMA ReplayAgain ==
  ASSUME Called, Passed, NEW decisions, RanAs(record, decisions),
         NEW new, Fit(record.traced, new)
  PROVE  ReplaySucceeds(BindArtifact(Assembled, new))
<1> DEFINE old  == record.traced
           page == Tour(decisions, old)
           next == Journey(Replayed(new))
           n    == Len(Steps)
<1>1. /\ n \in Nat \ {0} /\ DOMAIN Steps = 1..n /\ DOMAIN Replayed(new) = 1..n
      /\ Len(Replayed(new)) = n
      /\ \A i \in 0..n : Page(page[i]) /\ next[i] = PageAgain(page[i], old, new)
      /\ \A i \in 1..n : next[i] = Do(next[i - 1], Replayed(new)[i])
  <2>1. Steps # <<>>
    BY DEF Passed, RecordErrors, Code
  <2>2. n \in Nat /\ n > 0 /\ DOMAIN Steps = 1..n
    BY <2>1, RecordFacts
  <2>3. DOMAIN Replayed(new) = 1..n
    BY <2>2, ReplayedFields
  <2> QED
    BY <2>2, <2>3, PagesAgain
<1>2. ASSUME NEW i \in 1..n
      PROVE  LET b == Replayed(new)[i]
             IN  /\ b.target = Identity(next[i - 1], b.action)
                 /\ \A c \in b.post : Holds(c, next[i])
  <2> DEFINE d == decisions[i]
             s == Steps[i]
             b == Replayed(new)[i]
             p == page[i - 1]
             q == page[i]
  <2>1. /\ Fitting(d) /\ s.action = d.action /\ s.value = d.value
        /\ s.target = {[f \in DOMAIN t |-> TemplateText(t[f], old)] : t \in Identity(p, d.action)}
        /\ s.after = TemplatePath(q.path, old)
    BY <1>1 DEF RanAs, Steps
  <2>2. /\ b.action = s.action
        /\ s.action = "NAVIGATE" => b.target = BindTarget({}, new)
        /\ s.action # "NAVIGATE" => b.target = BindTarget(s.target, new)
        /\ s.action = "FILL" => b.value = {BindText(v.text, new) : v \in s.value}
        /\ b.post = {BindCondition(c, new) : c \in Postcondition(s)}
    <3>1. i \in DOMAIN Steps
      BY <1>1
    <3> HIDE DEF b
    <3> QED
      BY <3>1, ReplayedFields DEF b
  <2>3. Page(p) /\ next[i - 1] = PageAgain(p, old, new) /\ next[i] = PageAgain(q, old, new)
    BY <1>1
  <2>4. next[i] = Do(next[i - 1], b)
    BY <1>1
  <2> HIDE DEF d, s, b, p, q, next, page, n
  <2>5. b.target = Identity(next[i - 1], b.action)
    <3>1. CASE d.action = "NAVIGATE"
      <4>1. BindTarget({}, new) = {}
        BY DEF BindTarget
      <4>2. Identity(next[i - 1], "NAVIGATE") = {}
        BY DEF Identity
      <4> QED
        BY <2>1, <2>2, <3>1, <4>1, <4>2
    <3>2. CASE d.action # "NAVIGATE"
      <4>1. d.action \in {"FILL", "CLICK", "READ"}
        BY <2>1, <3>2 DEF Fitting
      <4>2. b.target = BindTarget({[f \in DOMAIN t |-> TemplateText(t[f], old)] :
                                     t \in Identity(p, d.action)}, new)
        BY <2>1, <2>2, <3>2
      <4>3. b.target = Identity(PageAgain(p, old, new), d.action)
        <5> HIDE DEF old
        <5> QED
          BY <2>3, <4>1, <4>2, IdentityAgain DEF old
      <4> QED
        BY <2>1, <2>2, <2>3, <4>3
    <3> QED
      BY <3>1, <3>2
  <2>6. \A c \in b.post : Holds(c, next[i])
    <3>1. CASE d.action \in {"NAVIGATE", "CLICK"}
      <4>1. Postcondition(s) = {RouteMatches(TemplatePath(q.path, old))}
        <5>1. s.action \in {"NAVIGATE", "CLICK"}
          BY <2>1, <3>1
        <5>2. Postcondition(s) = {RouteMatches(s.after)}
          BY <5>1 DEF Postcondition, ValueActions
        <5> QED
          BY <2>1, <5>2
      <4>2. \A c \in b.post : c = BindCondition(RouteMatches(TemplatePath(q.path, old)), new)
        BY <2>2, <4>1
      <4> HIDE DEF old
      <4> QED
        BY <2>3, <4>2, RouteHolds
    <3>2. CASE d.action = "FILL"
      <4>1. Postcondition(s) = {ValueEquals(t, v) : t \in s.target, v \in s.value}
        BY <2>1, <3>2 DEF Postcondition, ValueActions
      <4>2. s.value # {} /\ AtMostOne(s.value)
        BY <2>1, <3>2 DEF Fitting
      <4>3. \E t : s.target = {t}
        <5>1. \E t : Identity(p, "FILL") = {t}
          BY DEF Identity
        <5>2. PICK t : Identity(p, "FILL") = {t}
          BY <5>1
        <5>3. s.target = {[f \in DOMAIN t |-> TemplateText(t[f], old)]}
          BY <2>1, <3>2, <5>2
        <5> QED
          BY <5>3
      <4>4. BindTarget(s.target, new) = Identity(next[i - 1], "FILL") /\ b.action = "FILL"
        BY <2>1, <2>2, <2>5, <3>2
      <4>5. next[i - 1] = [path |-> next[i - 1].path, field |-> next[i - 1].field]
        <5>1. \A x, y, z : z = [path |-> x, field |-> y] => z = [path |-> z.path, field |-> z.field]
          OBVIOUS
        <5> QED
          BY <2>3, <5>1, Zenon DEF PageAgain
      <4>6. b.value = {BindText(v.text, new) : v \in s.value}
        BY <2>1, <2>2, <3>2
      <4>7. ASSUME NEW c \in b.post PROVE Holds(c, Do(next[i - 1], b))
        <5>1. PICK e \in Postcondition(s) : c = BindCondition(e, new)
          BY <2>2
        <5>2. PICK t \in s.target, v \in s.value : e = ValueEquals(t, v)
          BY <4>1, <5>1
        <5>3. c = BindCondition(ValueEquals(t, v), new)
          BY <5>1, <5>2
        <5> QED
          BY <4>2, <4>3, <4>4, <4>5, <4>6, <5>3, ValueHolds
      <4> QED
        BY <2>4, <4>7
    <3>3. CASE d.action = "READ"
      <4>1. Postcondition(s) = {}
        BY <2>1, <3>3 DEF Postcondition, ValueActions
      <4> QED
        BY <2>2, <4>1
    <3> QED
      BY <2>1, <3>1, <3>2, <3>3 DEF Fitting
  <2> QED
    BY <2>5, <2>6 DEF b
<1>3. ASSUME NEW c \in BindArtifact(Assembled, new).checkpoint PROVE Holds(c, next[n])
  <2>1. n \in 1..n /\ n \in 0..n
    BY <1>1
  <2>2. Final = TemplatePath(page[n].path, old)
    BY <1>1, <2>1 DEF RanAs, Steps, Final
  <2>3. c = BindCondition(RouteMatches(Final), new)
    <3>1. Assembled.checkpoint = {RouteMatches(Final)}
      BY DEF Assembled
    <3> QED
      BY <3>1 DEF BindArtifact
  <2>4. next[n] = PageAgain(page[n], old, new)
    BY <1>1, <2>1
  <2> HIDE DEF page, next, n, old
  <2> QED
    BY <2>2, <2>3, <2>4, RouteHolds
<1>4. BindArtifact(Assembled, new).steps = Replayed(new)
  BY DEF Replayed
<1> HIDE DEF next, n
<1> DEFINE bound == BindArtifact(Assembled, new)
<1>5. /\ \A i \in DOMAIN bound.steps :
           /\ bound.steps[i].target = Identity(next[i - 1], bound.steps[i].action)
           /\ \A c \in bound.steps[i].post : Holds(c, next[i])
      /\ \A c \in bound.checkpoint : Holds(c, next[Len(bound.steps)])
      /\ next = Journey(bound.steps)
  <2>1. next = Journey(bound.steps)
    BY <1>4 DEF next
  <2> HIDE DEF bound
  <2>2. bound.steps = Replayed(new)
    BY <1>4 DEF bound
  <2>3. \A c \in bound.checkpoint : Holds(c, next[n])
    BY <1>3 DEF bound
  <2> QED
    BY <1>1, <1>2, <2>1, <2>2, <2>3
<1> HIDE DEF bound
<1>6. ReplaySucceeds(bound)
  BY <1>5 DEF ReplaySucceeds
<1> QED
  BY <1>6 DEF bound

------------------------------------------------------------------------------
(* What the run checks, for every record, declaration and version *)

(* A call ends once: with an artifact the schema accepts, or with codes of *)
(* the closed set (compile).                                               *)
THEOREM EndsOnce == Spec => []TypeOK
<1>1. CompilerInv => TypeOK
  BY DEF CompilerInv, TypeOK
<1> QED
  BY <1>1, CompilerInductive, PTL

(* The compiler's own checks cover the schema: what passes them all is     *)
(* rejected for nothing but its version (compile, model_validate).         *)
THEOREM ChecksCover == Spec => []ChecksCoverTheSchema
<1>1. CompilerInv => ChecksCoverTheSchema
  BY CheckedIsValid DEF CompilerInv, ChecksCoverTheSchema
<1> QED
  BY <1>1, CompilerInductive, PTL

(* An artifact depends on what it requires: another value of one required  *)
(* input changes an action, other values of all change the checkpoint      *)
(* (_check_inputs, _derive_checkpoint).                                    *)
THEOREM NothingIsHardCoded == Spec => []NothingHardCoded
<1>1. ASSUME CompilerInv PROVE NothingHardCoded
  <2> SUFFICES ASSUME NEW a \in artifact, NEW inputs \in OtherInputs,
                      DOMAIN inputs = DOMAIN record.traced
               PROVE  LET changed == {n \in DOMAIN inputs : inputs[n] # record.traced[n]}
                      IN  /\ changed \cap RequiredInputs # {} =>
                               Acts(a, inputs) # Acts(a, record.traced)
                          /\ RequiredInputs # {} /\ RequiredInputs \subseteq changed =>
                               BindArtifact(a, inputs).checkpoint
                                 # BindArtifact(a, record.traced).checkpoint
    BY DEF NothingHardCoded
  <2> DEFINE traced  == record.traced
             changed == {n \in DOMAIN inputs : inputs[n] # traced[n]}
  <2>1. a = Assembled /\ Called /\ Passed
    BY <1>1 DEF CompilerInv
  <2>2. ASSUME NEW n \in changed \cap RequiredInputs PROVE Acts(a, inputs) # Acts(a, traced)
    BY <2>1, <2>2, CompiledActs
  <2>3. ASSUME RequiredInputs # {}, RequiredInputs \subseteq changed
        PROVE  BindArtifact(a, inputs).checkpoint # BindArtifact(a, traced).checkpoint
    BY <2>1, <2>3, CompiledProves
  <2> QED
    BY <2>2, <2>3
<1> QED
  BY <1>1, CompilerInductive, PTL

(* What was compiled from a run on the console replays with every other    *)
(* set of inputs that binds: each target is found, each postcondition and  *)
(* the checkpoint hold (compile, _compile_steps, _derive_checkpoint; the   *)
(* literal-free trace of compiler.py:5).                                   *)
THEOREM ReplaysForTheOthers ==
  Spec => []((\E decisions : RanAs(record, decisions)) => ReplaysForOthers)
<1>1. ASSUME CompilerInv, NEW decisions, RanAs(record, decisions) PROVE ReplaysForOthers
  <2> SUFFICES ASSUME NEW a \in artifact, NEW inputs \in OtherInputs,
                      Comparable(inputs, record.traced)
               PROVE  ReplaySucceeds(BindArtifact(a, inputs))
    BY DEF ReplaysForOthers
  <2>1. a = Assembled /\ Called /\ Passed
    BY <1>1 DEF CompilerInv
  <2>2. Fit(record.traced, inputs)
    BY <1>1 DEF Fit, RanAs
  <2> QED
    BY <1>1, <2>1, <2>2, ReplayAgain
<1>2. CompilerInv => ((\E decisions : RanAs(record, decisions)) => ReplaysForOthers)
  BY <1>1
<1> QED
  BY <1>2, CompilerInductive, PTL
===============================================================================
