---------------------------- MODULE InputBinding ----------------------------
(***************************************************************************)
(* The two directions between a runtime value and the placeholder that     *)
(* stands for it: templating, when discovery writes a trace                *)
(* (src/cua/discovery/templating.py, agent.py), and binding, when replay   *)
(* reads an artifact (src/cua/replay/binding.py).                          *)
(*                                                                         *)
(* A text, like a path, is a sequence of tokens <<kind, word>>: a `word`   *)
(* of the page, an `input` (the placeholder {name}), and the three things  *)
(* no durable text may hold: a transient `ref`, the prefix of a `selector` *)
(* and the `model` placeholder <input:name>.  The value of an input is one *)
(* word.  An optional field is a set of at most one element.               *)
(***************************************************************************)
EXTENDS Naturals, Sequences, FiniteSets

CONSTANTS Names,  \* input names, a sequence in their alphabetical order
          Short,  \* words shorter than MIN_TOKEN_LEN
          Unfit   \* words that are not one path segment

ASSUME NamesAssumption == Names \in Seq(STRING)

Word(w)   == <<"word", w>>
Hole(n)   == <<"input", n>>
Opaque    == <<<<"opaque", "blank">>>>   \* the path of an address that has none
IsPath(p) == p # Opaque

Holes(t) == {t[i][2] : i \in {j \in DOMAIN t : t[j][1] = "input"}}

HolesOf(texts) == UNION {Holes(t) : t \in texts}

------------------------------------------------------------------------------
(* Templating *)

(* The inputs a token may stand for, the first of which is taken. *)
Owners(token, inputs) ==
  {i \in DOMAIN Names : /\ Names[i] \in DOMAIN inputs
                        /\ token = Word(inputs[Names[i]])}

Templated(token, inputs) ==
  LET owners == Owners(token, inputs)
  IN  IF owners = {} THEN token
      ELSE Hole(Names[CHOOSE i \in owners : \A j \in owners : i <= j])

(* InputTemplater.text: whole tokens; a short value only when it is all    *)
(* the text.                                                               *)
TemplateText(text, inputs) ==
  [i \in DOMAIN text |->
     IF text[i][2] \in Short /\ Len(text) > 1 THEN text[i] ELSE Templated(text[i], inputs)]

(* InputTemplater.path: whole segments. *)
TemplatePath(path, inputs) == [i \in DOMAIN path |-> Templated(path[i], inputs)]

(* _trace_step, with the target the validator templated. *)
TraceStep(raw, inputs) ==
  LET textual(t) == TemplateText(t, inputs)
  IN  [raw EXCEPT !.target = {[f \in DOMAIN t |-> textual(t[f])] : t \in @},
                  !.read   = {textual(t) : t \in @},
                  !.before = TemplatePath(@, inputs),
                  !.after  = TemplatePath(@, inputs)]

------------------------------------------------------------------------------
(* Binding *)

BindText(text, bound) ==
  [i \in DOMAIN text |-> IF text[i][1] = "input" THEN Word(bound[text[i][2]]) ELSE text[i]]

(* bind_inputs, on values whose type is text. *)
Accepts(inputs, bound) ==
  /\ DOMAIN bound \subseteq DOMAIN inputs
  /\ \A n \in DOMAIN inputs : inputs[n].required => n \in DOMAIN bound

(* bind_text and bind_route do not raise: nothing stays unbound, and in a  *)
(* path every value is one segment.                                        *)
TextBinds(text, bound)  == Holes(text) \subseteq DOMAIN bound
RouteBinds(path, bound) ==
  TextBinds(path, bound) /\ \A n \in Holes(path) : bound[n] \notin Unfit

(* bind_condition *)
ConditionTexts(c) ==
  {t \in {c.text} : t # <<>>} \cup {v.text : v \in c.value}
    \cup UNION {{t[f] : f \in DOMAIN t} : t \in c.target}

ConditionBinds(c, bound) ==
  /\ \A p \in c.route : RouteBinds(p, bound)
  /\ \A t \in ConditionTexts(c) : TextBinds(t, bound)

BindTarget(target, bound) == {[f \in DOMAIN t |-> BindText(t[f], bound)] : t \in target}

BindCondition(c, bound) ==
  [type   |-> c.type,
   route  |-> {BindText(p, bound) : p \in c.route},
   target |-> BindTarget(c.target, bound),
   value  |-> {BindText(v.text, bound) : v \in c.value},
   text   |-> BindText(c.text, bound)]

(* bind_step *)
StepTexts(s) ==
  {v.text : v \in s.value} \cup UNION {{t[f] : f \in DOMAIN t} : t \in s.target}

StepBinds(s, bound) ==
  /\ \A p \in s.route : RouteBinds(p, bound)
  /\ \A t \in StepTexts(s) : TextBinds(t, bound)
  /\ \A c \in s.post : ConditionBinds(c, bound)

BindStep(s, bound) ==
  [action |-> s.action,
   route  |-> {BindText(p, bound) : p \in s.route},
   target |-> BindTarget(s.target, bound),
   value  |-> {BindText(v.text, bound) : v \in s.value},
   output |-> s.output,
   post   |-> {BindCondition(c, bound) : c \in s.post}]

(* bind_artifact: the whole of it, or nothing. *)
ArtifactBinds(a, bound) ==
  /\ \A i \in DOMAIN a.steps : StepBinds(a.steps[i], bound)
  /\ \A c \in a.checkpoint \cup a.outcomes : ConditionBinds(c, bound)

BindArtifact(a, bound) ==
  [steps      |-> [i \in DOMAIN a.steps |-> BindStep(a.steps[i], bound)],
   checkpoint |-> {BindCondition(c, bound) : c \in a.checkpoint},
   outcomes   |-> {BindCondition(c, bound) : c \in a.outcomes}]
=============================================================================
