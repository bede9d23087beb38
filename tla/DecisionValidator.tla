------------------------- MODULE DecisionValidator -------------------------
(***************************************************************************)
(* What becomes of a model's answer before anything is dispatched          *)
(* (src/cua/llm/openai_client.py, src/cua/discovery: validator.py,         *)
(* goal.py, observation.py).  The verdict is the first check that fails,   *)
(* in the order of the code; a decision no check fails is "VALID".         *)
(*                                                                         *)
(* An answer is a record of every field of the wire schema; a field that   *)
(* does not apply holds Missing, NoRef or NoRoute.  Routes are sequences   *)
(* of segments, and an input is named by its placeholder segment.  The     *)
(* conversions that only look at characters are sets: UnfitSegments,       *)
(* UnsafeLiterals, Decimals.                                               *)
(***************************************************************************)
EXTENDS SurfaceElements

CONSTANTS Inputs,         \* the bound inputs: placeholder -> value
          Placeholders,   \* every segment of the form {name}
          UnfitSegments,  \* texts that are not one path segment
          UnsafeLiterals, \* texts that are too long, not plain, or carry a bound value
          Decimals,       \* texts that convert to a decimal
          Outputs,        \* the outputs the goal declares
          Member,         \* the input the goal's page must evidence
          Balance,        \* the output the goal's READ populates
          EntryRoutes     \* navigation_routes

ASSUME InputsAssumption == DOMAIN Inputs \subseteq Placeholders

(* A placeholder is neither a number nor the label of the Savings row.     *)
ASSUME TemplateAssumption == Placeholders \cap (Decimals \cup {"Savings"}) = {}

Missing == "MISSING"
NoRef   == 0
NoRoute == <<>>

NoValue == [kind |-> Missing, text |-> Missing]

------------------------------------------------------------------------------
(* The wire *)

(* ACT_ACTION_TYPES *)
ProposableTypes == {"NAVIGATE", "CLICK", "FILL", "SELECT", "READ"}

(* DecisionWire: whatever the model says, the strict schema admits no more *)
(* than this.                                                              *)
Wires ==
  [kind : {"ACT", "FINISH", "REPORT_BLOCKED"}, observation : Int,
   action : ProposableTypes \cup {Missing}, ref : Nat,
   value : [kind : {"LITERAL", "INPUT_REF", Missing}, text : STRING],
   route : Seq(STRING), output : STRING, evidence : Nat,
   blocked : {"BUSINESS_OUTCOME", "UI_AMBIGUOUS", "CONTROL_MISSING", "UNEXPECTED_STATE",
              "OTHER", Missing}]

(* to_decision: combinations the strict schema cannot exclude. *)
Usable(wire) ==
  /\ wire.kind = "ACT" =>
       /\ wire.action # Missing
       /\ wire.value.kind = "INPUT_REF" => wire.value.text \notin {Missing, NoText}
       /\ wire.value.kind = "LITERAL"   => wire.value.text # Missing
  /\ wire.kind = "REPORT_BLOCKED" => wire.blocked # Missing

------------------------------------------------------------------------------
(* What the page evidences *)

(* input_evidence: a whole segment of the address, or a whole token of a   *)
(* heading.                                                                *)
Evidenced(route, headings) ==
  Inputs[Member] \in {route[i] : i \in DOMAIN route} \cup headings

(* _row_label: the first row of a context hint. *)
RowLabel(context) ==
  LET rows == {i \in DOMAIN context : context[i][1] = "row"}
  IN  IF rows = {} THEN NoText ELSE context[FirstOf(rows)][2]

ReadsOf(steps, output) ==
  {i \in DOMAIN steps : steps[i].action = "READ" /\ steps[i].output = output}

(* InputTemplater.text, which a step goes through before the verifier sees *)
(* it: a text that is an input's value reads as the input's placeholder.   *)
Templated(text) ==
  LET names == {n \in DOMAIN Inputs : Inputs[n] = text}
  IN  IF names = {} THEN text ELSE CHOOSE n \in names : TRUE

(* Seeded fault of Satisfied: any unambiguous cell of the member's page.   *)
AnyCell(steps) ==
  LET reads == ReadsOf(steps, Balance)
      read  == steps[FirstOf(reads)]
  IN  /\ Cardinality(reads) = 1
      /\ read.target.role = "cell"
      /\ read.matches = 1
      /\ read.evidenced
      /\ Templated(read.text) \in Decimals
      /\ Outputs = {Balance}

(* ReadSavingsBalanceVerifier.verify, of the templated steps. *)
Satisfied(steps) ==
  LET reads == ReadsOf(steps, Balance)
      read  == steps[FirstOf(reads)]
  IN  /\ Cardinality(reads) = 1
      /\ read.target.role = "cell"
      /\ Templated(RowLabel(read.target.context)) = "Savings"
      /\ read.matches = 1
      /\ Member \in DOMAIN Inputs /\ read.evidenced
      /\ Templated(read.text) \in Decimals
      /\ Outputs = {Balance}

------------------------------------------------------------------------------
(* The checks *)

(* The code of the first check that fails. *)
Verdict(checks) ==
  LET failing == {i \in DOMAIN checks : checks[i][1]}
  IN  IF failing = {} THEN "VALID" ELSE checks[FirstOf(failing)][2]

(* bind_route of a declared entry route, and whether it binds.             *)
BindRoute(route) ==
  [i \in DOMAIN route |-> IF route[i] \in DOMAIN Inputs THEN Inputs[route[i]] ELSE route[i]]

Binds(route) ==
  \A i \in DOMAIN route :
     route[i] \in Placeholders => /\ route[i] \in DOMAIN Inputs
                                  /\ Inputs[route[i]] \notin UnfitSegments

Literally(route) == \E i \in DOMAIN route : \E n \in DOMAIN Inputs : route[i] = Inputs[n]

(* _navigate *)
NavigateChecks(wire) ==
  << <<wire.ref # NoRef \/ wire.value # NoValue \/ wire.output # Missing, "SHAPE">>,
     <<wire.route = NoRoute, "SHAPE">>,
     <<wire.route \notin EntryRoutes, "NAVIGATION_NOT_ALLOWED">>,
     <<Literally(wire.route) \/ ~Binds(wire.route), "ROUTE">> >>

FillRoles   == {"textbox", "searchbox", "spinbutton"}
SelectRoles == {"combobox", "listbox"}
ClickRoles  == {"button", "link", "checkbox", "radio", "menuitem", "menuitemcheckbox",
                "menuitemradio", "tab", "option", "switch"}

NoElement == [role |-> NoText, name |-> NoText, value |-> NoText, enabled |-> FALSE,
              context |-> <<>>, at |-> 0]

ElementAt(elements, ref) == IF ref \in DOMAIN elements THEN elements[ref] ELSE NoElement

(* _illegal_target *)
IllegalTarget(action, e) ==
  \/ action = "FILL"   /\ e.role \notin FillRoles
  \/ action = "SELECT" /\ e.role \notin SelectRoles
  \/ action = "CLICK"  /\ e.role \notin ClickRoles
  \/ action = "READ"   /\ e.value = NoText /\ e.name = NoText
  \/ action # "READ"   /\ ~e.enabled

(* _check_value *)
BadValue(value) ==
  \/ value.kind = "INPUT_REF" /\ value.text \notin DOMAIN Inputs
  \/ value.kind = "LITERAL"   /\ value.text \in UnsafeLiterals

Writes(wire) == wire.action \in {"FILL", "SELECT"}
Reads(wire)  == wire.action = "READ"

AlreadyRead(steps, output) == \E i \in DOMAIN steps : steps[i].output = output

(* _targeted *)
TargetedChecks(wire, elements, steps) ==
  LET e == ElementAt(elements, wire.ref)
  IN  << <<wire.route # NoRoute \/ wire.ref = NoRef, "SHAPE">>,
         <<wire.ref \notin DOMAIN elements, "UNKNOWN_REF">>,
         <<Writes(wire) # (wire.value # NoValue), "SHAPE">>,
         <<Reads(wire) # (wire.output # Missing), "SHAPE">>,
         <<IllegalTarget(wire.action, e), "ILLEGAL_TARGET">>,
         <<Writes(wire) /\ BadValue(wire.value), "VALUE">>,
         <<Reads(wire) /\ (wire.output \notin Outputs \/ AlreadyRead(steps, wire.output)),
           "OUTPUT">>,
         <<IdentityMatches(elements, SemanticTarget(e)) # 1, "AMBIGUOUS_TARGET">> >>

(* DecisionValidator.validate; an unusable answer counts as SHAPE.         *)
Validate(wire, observation, elements, steps) ==
  IF ~Usable(wire) THEN "SHAPE"
  ELSE IF wire.observation # observation THEN "STALE_OBSERVATION"
  ELSE IF wire.kind = "FINISH" THEN Verdict(<< <<~Satisfied(steps), "PREMATURE_FINISH">> >>)
  ELSE IF wire.kind = "REPORT_BLOCKED"
  THEN Verdict(<< <<wire.evidence # NoRef /\ wire.evidence \notin DOMAIN elements,
                    "UNKNOWN_REF">> >>)
  ELSE IF wire.action = "NAVIGATE" THEN Verdict(NavigateChecks(wire))
  ELSE Verdict(TargetedChecks(wire, elements, steps))

ValidationCodes ==
  {"STALE_OBSERVATION", "UNKNOWN_REF", "SHAPE", "ILLEGAL_TARGET", "VALUE",
   "NAVIGATION_NOT_ALLOWED", "ROUTE", "OUTPUT", "AMBIGUOUS_TARGET", "PREMATURE_FINISH"}
=============================================================================
