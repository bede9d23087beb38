---------------------------- MODULE MCDiscovery ----------------------------
(***************************************************************************)
(* Reading a savings balance in the operations console.  Pages: `search`   *)
(* and `typed` (the form, empty and filled), `m1` (the requested member)   *)
(* and `m2` (another one, whose Savings equal the first one's Checking),   *)
(* `twin` (the requested member with two Savings rows).                    *)
(***************************************************************************)
EXTENDS DiscoveryProperties

MCPages == {"search", "typed", "m1", "m2", "twin"}

Form(text) ==
  <<[Node("textbox", "Member ID", 0) EXCEPT !.text = text], Node("button", "Search", 0)>>

Row(label, amount, at) ==
  <<Node("row", "", 0), Node("rowheader", label, at), Node("cell", amount, at)>>

Accounts(checking, savings) ==
  Row("Checking", checking, 1) \o Row("Savings", savings, 4)
    \o <<Node("link", "Transfer", 0), Node("button", "Close", 0)>>

At(route, title, headings, tree) ==
  [origin |-> "bank", route |-> route, title |-> title, headings |-> headings, tree |-> tree]

MCSite == [
  search |-> At(<<"search">>, "Search", {}, Form(NoText)),
  typed  |-> At(<<"search">>, "Search", {}, Form("M1")),
  m1     |-> At(<<"members", "M1">>, "Member", {"M1"}, Accounts("100", "300")),
  m2     |-> At(<<"members", "M2">>, "Member", {"M2"}, Accounts("250", "100")),
  twin   |-> At(<<"members", "M1">>, "Member", {"M1"},
                Accounts("100", "300") \o Row("Savings", "300", 9))]

MCInputs       == [i \in {"{member}"} |-> "M1"]
MCPlaceholders == {"{member}", "{other}"}
MCUnsafe       == {"M1"}
MCDecimals     == {"100", "250", "300"}
MCOutputs      == {"balance"}
MCEntryRoutes  == {<<"search">>, <<"members", "{other}">>}

(* The Transfer link is left to a human; on another member's page nothing  *)
(* is allowed.                                                             *)
MCPolicy == [
  rules   |-> <<[action |-> "CLICK", pattern |-> <<"members", Wild>>, target |-> "Transfer",
                 risk |-> "IRREVERSIBLE"]>>,
  actions |-> {"NAVIGATE", "CLICK", "FILL", "READ"},
  origins |-> {"bank"},
  routes  |-> {<<"search">>, <<"members", "M1">>}]

Blank == [kind |-> "ACT", observation |-> 0, action |-> Missing, ref |-> NoRef,
          value |-> NoValue, route |-> NoRoute, output |-> Missing, blocked |-> Missing,
          evidence |-> NoRef]

ByInput   == [kind |-> "INPUT_REF", text |-> "{member}"]
ByLiteral == [kind |-> "LITERAL", text |-> "M1"]

ReadOf(ref) == [Blank EXCEPT !.action = "READ", !.ref = ref, !.output = "balance"]

MCAnswers == {
  [Blank EXCEPT !.action = "NAVIGATE", !.route = <<"search">>],
  [Blank EXCEPT !.action = "NAVIGATE", !.route = <<"members", "{other}">>],
  [Blank EXCEPT !.action = "FILL", !.ref = 1, !.value = ByInput],
  [Blank EXCEPT !.action = "FILL", !.ref = 1, !.value = ByLiteral],
  [Blank EXCEPT !.action = "CLICK", !.ref = 2],
  [Blank EXCEPT !.action = "CLICK", !.ref = 5],
  ReadOf(2), ReadOf(4),
  [Blank EXCEPT !.kind = "FINISH"],
  [Blank EXCEPT !.kind = "REPORT_BLOCKED", !.blocked = "UI_AMBIGUOUS"],
  [Blank EXCEPT !.kind = "REPORT_BLOCKED"]}

MCMoves == [p \in MCPages |-> CASE p = "m2" -> {"m1"} [] p = "m1" -> {"twin"}
                                [] OTHER -> {}]

MCLeads == [a \in ActionTypes |-> [p \in MCPages |->
              CASE a = "NAVIGATE" -> {"search"}
                [] a = "FILL"     -> {"typed"}
                [] a = "CLICK" /\ p = "typed"  -> {"m1", "m2"}
                [] OTHER          -> {p}]]

(* The hypothesis under which GoalIsProven is proved for every site. *)
ASSUME CellsHoldNames == CellsAreText
=============================================================================
