--------------------------- MODULE MCReplayEngine ---------------------------
(***************************************************************************)
(* A transfer capability of the bank: open the form, continue to the       *)
(* review page, confirm (declared IRREVERSIBLE), read the reference.       *)
(* Pages: `form` and `loading` (the form half rendered), `review`, `done`, *)
(* `refused` (the declared business outcome), `double` (two matching       *)
(* buttons), `away` (another origin).                                      *)
(***************************************************************************)
EXTENDS ReplayProperties

MCPages == {"form", "loading", "review", "done", "refused", "double", "away"}

MCPlan == <<
  [action |-> "NAVIGATE", dest |-> "form", target |-> NoName,     declared |-> "SAFE_READ"],
  [action |-> "CLICK",    dest |-> "form", target |-> "Continue", declared |-> "REVERSIBLE_WRITE"],
  [action |-> "CLICK",    dest |-> "form", target |-> "Continue", declared |-> "IRREVERSIBLE"],
  [action |-> "READ",     dest |-> "form", target |-> "Ref",      declared |-> "SAFE_READ"]>>

(* `matches` counts what the descriptor's role, name and context find;     *)
(* `found` is where role, name and ordinal alone find something: also the  *)
(* Continue beside the refusal, which is in another group.                 *)
At(origin, route, matches, found, holds) ==
  [origin |-> origin, route |-> <<route>>, matches |-> matches, found |-> found,
   holds |-> holds]

MCSite == [
  form    |-> At("bank",  "form",   <<0, 1, 1, 0>>, {2, 3},    {1}),
  loading |-> At("bank",  "form",   <<0, 0, 0, 0>>, {},        {1}),
  review  |-> At("bank",  "review", <<0, 1, 1, 1>>, {2, 3, 4}, {2}),
  done    |-> At("bank",  "done",   <<0, 0, 0, 1>>, {4},       {2, 3, 5}),
  refused |-> At("bank",  "review", <<0, 0, 0, 0>>, {2, 3},    {0}),
  double  |-> At("bank",  "form",   <<0, 2, 2, 2>>, {2, 3, 4}, {1}),
  away    |-> At("other", "form",   <<0, 1, 1, 1>>, {2, 3, 4}, {1, 2, 3})]

(* The first postcondition is a RouteMatches. *)
MCRouted == {1}

(* Continuing is irreversible on the review page only; the reference may   *)
(* be read anywhere but there.                                             *)
MCPolicy == [
  rules   |-> <<[action |-> "CLICK", pattern |-> <<"review">>, target |-> "Continue",
                 risk |-> "IRREVERSIBLE"],
                [action |-> "READ", pattern |-> <<"review">>, target |-> NoName,
                 risk |-> "IRREVERSIBLE"]>>,
  actions |-> {"NAVIGATE", "CLICK", "READ"},
  origins |-> {"bank"},
  routes  |-> {<<"form">>, <<Wild>>}]

MCMoves == [p \in MCPages |-> CASE p = "loading" -> {"form", "double", "refused"}
                                [] p = "form"    -> {"review", "away"}
                                [] p = "review"  -> {"form"}
                                [] p = "done"    -> {"review", "refused"}
                                [] OTHER         -> {}]

Clicked(p) == CASE p = "form"   -> {"review", "refused"}
                [] p = "review" -> {"done", "refused"}
                [] OTHER        -> {p}

MCLeads == [i \in 1..4 |-> [p \in MCPages |->
              IF i = 1 THEN {"form", "loading"} ELSE IF i = 4 THEN {p} ELSE Clicked(p)]]
=============================================================================
