----------------------------- MODULE MCCompiler -----------------------------
(***************************************************************************)
(* Every run of up to three actions and a READ on the console, for one or  *)
(* two inputs of two long values and a short one; and one complete run     *)
(* whose record is damaged in one place: compile() reads a file.           *)
(***************************************************************************)
EXTENDS CompilerProperties

MCNames == <<"member", "note", "teller">>
Values  == {"M1", "M2", "7"}
Inputs  == [{"member", "note"} -> Values] \cup [{"member"} -> Values]
Given   == {i \in Inputs : i["member"] # "M2"}

Amount    == <<Word("300")>>
MCDenotes == [t \in {"DECIMAL"} |-> {Amount}]

MCOtherInputs ==
  Inputs \cup {[n \in {"member"} |-> "a/b"]} \cup [{"member", "note", "teller"} -> {"M1", "M2"}]

------------------------------------------------------------------------------
(* What the model may have decided, bound and carried out.                 *)

Nothing == [action |-> "READ", route |-> {}, value |-> {}]

Visit(path) == [Nothing EXCEPT !.action = "NAVIGATE", !.route = {path}]
Type(kind, text) == [Nothing EXCEPT !.action = "FILL", !.value = {[kind |-> kind, text |-> text]}]

Search     == Visit(<<Word("search")>>)
TypeMember == Type("INPUT_REF", <<Hole("member")>>)
Click      == [Nothing EXCEPT !.action = "CLICK"]

Decisions ==
  {Search, TypeMember, Click, Nothing, Type("INPUT_REF", <<Hole("note")>>),
   Type("LITERAL", <<Word("M2")>>), Visit(<<Word("members"), Hole("member")>>),
   Visit(<<Word("members"), Word("M2")>>)}

(* The page at READ names the member in its address.                       *)
Evidence(path, inputs) ==
  LET seen == {n \in DOMAIN inputs : \E i \in DOMAIN path : path[i] = Word(inputs[n])}
  IN  [n \in seen |-> "ROUTE"]

RawSteps(decisions, inputs) ==
  LET pages == Tour(decisions, inputs)
      page  == [i \in 0..Len(decisions) |-> pages[i]]
      reads(i) == decisions[i].action = "READ"
  IN  [i \in DOMAIN decisions |->
         [index |-> i, action |-> decisions[i].action,
          target |-> Identity(page[i - 1], decisions[i].action),
          matches |-> IF decisions[i].action = "NAVIGATE" THEN {} ELSE {1},
          value |-> decisions[i].value, route |-> decisions[i].route,
          output |-> IF reads(i) THEN {"balance"} ELSE {},
          read |-> IF reads(i) THEN {Amount} ELSE {},
          evidence |-> IF reads(i) THEN Evidence(page[i - 1].path, inputs) ELSE <<>>,
          before |-> page[i - 1].path, after |-> page[i].path,
          gate |-> "ALLOW", risk |-> "SAFE_READ"]]

RecordOf(decisions, inputs) ==
  LET raw == RawSteps(decisions, inputs)
  IN  [stop |-> "GOAL_REACHED", satisfied |-> TRUE, goal |-> "balance",
       inputs |-> [n \in DOMAIN inputs |-> "STRING"],
       outputs |-> [o \in {"balance"} |-> "DECIMAL"],
       steps |-> [i \in DOMAIN raw |-> TraceStep(raw[i], inputs)],
       texts |-> {<<Word("run"), Word("model")>>},
       traced |-> inputs]

Scripts(inputs) ==
  {Append(ds, Nothing) : ds \in UNION {[1..n -> {d \in Decisions : Permitted(d, inputs)}]
                                       : n \in 0..3}}

Journeys == UNION {{RecordOf(ds, inputs) : ds \in Scripts(inputs)} : inputs \in Given}

(* Each is a record of the kind ReplaysForOthers is proved for. *)
ASSUME JourneysRan ==
  \A inputs \in Given : \A ds \in Scripts(inputs) : RanAs(RecordOf(ds, inputs), ds)

(* Two inputs of one value, the second of which led to a page on the way.  *)
Shared ==
  RecordOf(<<Visit(<<Word("members"), Hole("note")>>), Visit(<<Word("members"), Hole("teller")>>),
             Nothing>>,
           [n \in {"member", "note", "teller"} |-> IF n = "teller" THEN "M2" ELSE "M1"])

------------------------------------------------------------------------------
(* Damage.  Step 1 navigates, 2 fills, 3 clicks, 4 reads.                  *)

Whole == RecordOf(<<Search, TypeMember, Click, Nothing>>, [n \in {"member"} |-> "M1"])

With(i, step)   == [Whole EXCEPT !.steps[i] = step]
Step(i)         == Whole.steps[i]
Named(i, text)  == {[t EXCEPT !.name = text] : t \in Step(i).target}
Valued(k, text) == {[kind |-> k, text |-> text]}

DamagedRuns ==
  {[Whole EXCEPT !.stop = "MAX_STEPS"], [Whole EXCEPT !.satisfied = FALSE],
   [Whole EXCEPT !.texts = {<<<<"ref", "e12">>>>}],
   [Whole EXCEPT !.goal = "transfer"], [Whole EXCEPT !.outputs = <<>>],
   [Whole EXCEPT !.steps = <<>>], [Whole EXCEPT !.steps = SubSeq(@, 1, 3)],
   [Whole EXCEPT !.steps = SubSeq(@, 2, 4)],
   [Whole EXCEPT !.steps = Append(@, [@[4] EXCEPT !.index = 5])],
   [Whole EXCEPT !.steps = Append(@, [@[1] EXCEPT !.index = 5])]}

DamagedHeads ==
  UNION {{With(i, [Step(i) EXCEPT !.index = 9]), With(i, [Step(i) EXCEPT !.action = "WAIT"]),
          With(i, [Step(i) EXCEPT !.gate = "DENY"]), With(i, [Step(i) EXCEPT !.risk = "HUGE"]),
          With(i, [Step(i) EXCEPT !.risk = "REVERSIBLE_WRITE"]),
          With(i, [Step(i) EXCEPT !.risk = "IRREVERSIBLE"]),
          With(i, [Step(i) EXCEPT !.after = Opaque])} : i \in 1..4}

DamagedTargets ==
  UNION {{With(i, [Step(i) EXCEPT !.target = {}]), With(i, [Step(i) EXCEPT !.matches = {}]),
          With(i, [Step(i) EXCEPT !.matches = {2}]),
          With(i, [Step(i) EXCEPT !.target = Named(i, <<<<"ref", "e12">>>>)]),
          With(i, [Step(i) EXCEPT !.target = Named(i, <<<<"selector", "css=">>, Word("a")>>)]),
          With(i, [Step(i) EXCEPT !.target = Named(i, <<<<"model", "member">>>>)]),
          With(i, [Step(i) EXCEPT !.target = Named(i, <<Hole("other")>>)])} : i \in 2..4}
    \cup {With(4, [Step(4) EXCEPT !.target = Named(4, Amount)])}

DamagedValues ==
  {With(2, [Step(2) EXCEPT !.value = v]) :
     v \in {{}, Valued("INPUT_REF", <<>>), Valued("INPUT_REF", <<Hole("other")>>),
            Valued("LITERAL", <<Hole("member")>>), Valued("LITERAL", <<<<"ref", "e12">>>>),
            Valued("OTHER", <<>>)}}
    \cup {With(3, [Step(3) EXCEPT !.value = Valued("LITERAL", <<Word("x")>>)])}

DamagedReads ==
  {With(4, [Step(4) EXCEPT !.output = o]) : o \in {{}, {"other"}}}
    \cup {With(4, [Step(4) EXCEPT !.read = r]) : r \in {{}, {<<Word("n/a")>>}}}
    \cup {With(4, [Step(4) EXCEPT !.evidence = e]) :
            e \in {<<>>, [n \in {"member"} |-> "HEADING"], [n \in {"other"} |-> "ROUTE"]}}
    \cup {With(4, [Step(4) EXCEPT !.before = p]) :
            p \in {Opaque, <<Word("members"), Word("M1")>>}}

DamagedRoutes ==
  {With(1, [Step(1) EXCEPT !.route = r]) :
     r \in {{}, {Opaque}, {<<<<"selector", "//">>>>}, {<<Hole("other")>>}}}

DamagedRecords ==
  {Whole} \cup DamagedRuns \cup DamagedHeads \cup DamagedTargets \cup DamagedValues
    \cup DamagedReads \cup DamagedRoutes

------------------------------------------------------------------------------
(* Whether an input is required is the declaration's to say. *)

Declared(inputs, required, outcomes) ==
  [name |-> "balance",
   inputs |-> [n \in inputs |-> [type |-> "STRING", required |-> n \in required]],
   outputs |-> [o \in {"balance"} |-> "DECIMAL"],
   outcomes |-> {TextPresent(t) : t \in outcomes},
   texts |-> {<<Word("the"), Word("balance")>>}]

(* A description that names an input. *)
Describing(declared, name) == [declared EXCEPT !.texts = {<<Word("of"), Hole(name)>>}]

Call(r, declared, v) == [record |-> r, declaration |-> declared, version |-> v]

MCCalls ==
  UNION {{Call(r, Declared(DOMAIN r.traced, required, {}), "1.0.0") :
            required \in {{"member"}, DOMAIN r.traced}} : r \in Journeys}
  \cup {Call(r, Declared({"member"}, required, {text}), v) :
           r \in DamagedRecords, required \in {{}, {"member"}}, v \in {"1.0.0", "v1"},
           text \in {<<Word("no"), Hole("member")>>, <<<<"model", "member">>>>}}
  \cup {Call(Whole, Describing(Declared({"member"}, {"member"}, {}), name), "1.0.0") :
           name \in {"member", "other"}}
  \cup {Call(Whole, Declared({"member", "note"}, {"member"}, {}), "1.0.0"),
        Call(Shared, Declared({"member", "note", "teller"}, {"teller"}, {}), "1.0.0")}

MCVersions == {"1.0.0"}
=============================================================================
