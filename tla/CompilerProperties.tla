------------------------- MODULE CompilerProperties -------------------------
(***************************************************************************)
(* What compilation promises, stated against the console the run was       *)
(* recorded on: a member's page is addressed by what was typed into the    *)
(* search form.  A record carries, as history that no definition of the    *)
(* compiler reads, the inputs the run was given (`traced`).                *)
(***************************************************************************)
EXTENDS ArtifactCompiler

CONSTANT OtherInputs \* the inputs a replay may be given

------------------------------------------------------------------------------
(* The console.  Its state is the path of the page and the member field.   *)

Home == [path |-> <<Word("search")>>, field |-> <<>>]

(* An action is what is left of a step once it is bound. *)
Do(page, a) ==
  CASE a.action = "NAVIGATE" -> [page EXCEPT !.path = CHOOSE p \in a.route : TRUE]
    [] a.action = "FILL"     -> [page EXCEPT !.field = CHOOSE v \in a.value : TRUE]
    [] a.action = "CLICK" /\ page.field # <<>> -> [page EXCEPT !.path = <<Word("members")>> \o page.field]
    [] OTHER                 -> page

Journey(actions) ==
  LET page[i \in 0..Len(actions)] == IF i = 0 THEN Home ELSE Do(page[i - 1], actions[i])
  IN  page

(* The identity of what the action is for, on that page: the row the       *)
(* balance is read in names the member.                                    *)
Identity(page, action) ==
  CASE action = "NAVIGATE" -> {}
    [] action = "FILL"  -> {[role |-> <<Word("textbox")>>, name |-> <<Word("Member")>>, scope |-> <<>>]}
    [] action = "CLICK" -> {[role |-> <<Word("button")>>, name |-> <<Word("Search")>>, scope |-> <<>>]}
    [] OTHER -> {[role |-> <<Word("cell")>>, name |-> <<>>,
                  scope |-> <<Word("Savings"), Word("of"), page.path[Len(page.path)]>>]}

Holds(c, page) ==
  CASE c.type = "ROUTE_MATCHES" -> c.route = {page.path}
    [] c.type = "VALUE_EQUALS"  -> c.value = {page.field} /\ c.target = Identity(page, "FILL")
    [] OTHER                    -> FALSE

(* Every target is found, every postcondition and the checkpoint hold. *)
ReplaySucceeds(bound) ==
  LET page == Journey(bound.steps)
  IN  /\ \A i \in DOMAIN bound.steps :
           /\ bound.steps[i].target = Identity(page[i - 1], bound.steps[i].action)
           /\ \A c \in bound.steps[i].post : Holds(c, page[i])
      /\ \A c \in bound.checkpoint : Holds(c, page[Len(bound.steps)])

------------------------------------------------------------------------------
(* A run on the console: what was decided, step by step, with inputs bound *)
(* as the driver got them.                                                 *)

Bound(d, inputs) ==
  [action |-> d.action,
   route  |-> {BindText(p, inputs) : p \in d.route},
   value  |-> {BindText(v.text, inputs) : v \in d.value}]

(* The validator lets no decision name an input the goal does not have, or *)
(* spell one of its values.                                                *)
Permitted(d, inputs) ==
  \A t \in d.route \cup {v.text : v \in d.value} :
    /\ t \in Seq({t[i] : i \in DOMAIN t})
    /\ Holes(t) \subseteq DOMAIN inputs
    /\ \A i \in DOMAIN t : t[i][1] = "word" => \A n \in DOMAIN inputs : inputs[n] # t[i][2]

(* ... and each has the arguments of its action. *)
Fitting(d) ==
  /\ d.action \in {"NAVIGATE", "FILL", "CLICK", "READ"}
  /\ d.action = "NAVIGATE" => d.route # {} /\ AtMostOne(d.route) /\ <<>> \notin d.route
  /\ d.action = "FILL" => d.value # {} /\ AtMostOne(d.value)

Tour(decisions, inputs) == Journey([i \in DOMAIN decisions |-> Bound(decisions[i], inputs)])

(* The words the console shows whatever the inputs are. *)
ConsoleWords ==
  {"search", "members", "textbox", "Member", "button", "Search", "cell", "Savings", "of"}

(* The record is the one of a run that took these decisions on the console *)
(* with inputs it does not spell by itself.                                *)
RanAs(r, decisions) ==
  LET page == Tour(decisions, r.traced)
  IN  /\ DOMAIN r.traced \subseteq {Names[k] : k \in DOMAIN Names}
      /\ \A n \in DOMAIN r.traced : r.traced[n] \notin ConsoleWords
      /\ decisions \in Seq({decisions[i] : i \in DOMAIN decisions})
      /\ DOMAIN r.steps = DOMAIN decisions
      /\ \A i \in DOMAIN decisions :
           LET d == decisions[i]
               s == r.steps[i]
           IN  /\ Permitted(d, r.traced) /\ Fitting(d)
               /\ s.action = d.action /\ s.route = d.route /\ s.value = d.value
               /\ s.target = {[f \in DOMAIN t |-> TemplateText(t[f], r.traced)] :
                                t \in Identity(page[i - 1], d.action)}
               /\ s.after = TemplatePath(page[i].path, r.traced)

------------------------------------------------------------------------------
(* Templating knows an input only by its value: replay inputs are          *)
(* comparable with the traced ones if they agree on the values it leaves   *)
(* in a text, and are equal where those were.                              *)
Comparable(inputs, traced) ==
  /\ DOMAIN inputs = DOMAIN traced
  /\ \A m, n \in DOMAIN traced : traced[m] = traced[n] => inputs[m] = inputs[n]
  /\ \A n \in DOMAIN traced : traced[n] \in Short => inputs[n] = traced[n]

(* A capability compiled from one member's run replays for any other: with *)
(* every set of inputs that binds, each target is found, and each          *)
(* postcondition and the checkpoint hold, on a console that answers the    *)
(* same way (compiler.py:5 and :11, a literal-free trace, compiled without *)
(* string replacement).                                                    *)
ReplaysForOthers ==
  \A a \in artifact : \A inputs \in OtherInputs :
    Comparable(inputs, record.traced) /\ Accepts(a.inputs, inputs) /\ ArtifactBinds(a, inputs)
      => ReplaySucceeds(BindArtifact(a, inputs))

(* The same with no condition on the inputs: "if the trace does not carry  *)
(* enough to build a safe, reusable artifact, compilation fails [...],     *)
(* nothing is guessed" (compiler.py:14-15).                                *)
NothingGuessed ==
  \A a \in artifact : \A inputs \in OtherInputs :
    /\ DOMAIN inputs = DOMAIN record.traced
    /\ Accepts(a.inputs, inputs) /\ ArtifactBinds(a, inputs)
    => ReplaySucceeds(BindArtifact(a, inputs))

(* What a replay does and proves depends on its inputs: another value of a *)
(* required input alone changes an action, and other values of all of them *)
(* change the checkpoint ("a checkpoint that holds for any input is not a  *)
(* success proof", compiler.py:796).                                       *)
Acts(a, inputs) ==
  LET bound == BindArtifact(a, inputs)
  IN  [i \in DOMAIN bound.steps |-> <<bound.steps[i].route, bound.steps[i].value>>]

NothingHardCoded ==
  \A a \in artifact : \A inputs \in OtherInputs :
    LET traced  == record.traced
        changed == {n \in DOMAIN inputs : inputs[n] # traced[n]}
    IN  DOMAIN inputs = DOMAIN traced /\ ArtifactBinds(a, inputs) =>
          /\ changed \cap RequiredInputs # {} => Acts(a, inputs) # Acts(a, traced)
          /\ RequiredInputs # {} /\ RequiredInputs \subseteq changed =>
               BindArtifact(a, inputs).checkpoint # BindArtifact(a, traced).checkpoint

(* The checks of the compiler cover the schema: what they let through is   *)
(* rejected only for the version it was asked to carry (SCHEMA_REJECTED is *)
(* "defence in depth", compile_report.py:62).                              *)
ChecksCoverTheSchema == "SCHEMA_REJECTED" \in codes => version \notin Versions

ErrorCodes ==
  {"TRACE_NOT_SUCCESSFUL", "TRACE_EMPTY", "DECLARATION_MISMATCH", "STEP_ORDER_INVALID",
   "UNSUPPORTED_ACTION", "STEP_NOT_DISPATCHED", "ROUTE_MISSING", "ROUTE_INVALID",
   "TARGET_MISSING", "TARGET_IDENTITY_UNPROVEN", "TARGET_AMBIGUOUS", "TRANSIENT_REF",
   "SELECTOR_SYNTAX", "READ_VALUE_IN_TARGET", "BINDING_MISSING", "BINDING_INVALID",
   "INPUT_UNDECLARED", "INPUT_NOT_PARAMETERIZED", "TRACE_NOT_TEMPLATED", "OUTPUT_UNDECLARED",
   "OUTPUT_DUPLICATE_PRODUCER", "OUTPUT_NOT_PRODUCED", "OUTPUT_TRANSFORM_INCONSISTENT",
   "SUCCESS_SEMANTICS_MISSING", "SUCCESS_SEMANTICS_UNDERIVABLE", "RISK_INVALID",
   "IRREVERSIBLE_STEP", "KNOWN_OUTCOME_INVALID", "SCHEMA_REJECTED"}

(* A call ends once, with an artifact the schema accepts or with reasons.  *)
TypeOK ==
  /\ codes \subseteq ErrorCodes
  /\ \A a \in artifact : Valid(a)
  /\ codes = {} \/ artifact = {}
=============================================================================
