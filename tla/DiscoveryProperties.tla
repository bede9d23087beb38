------------------------ MODULE DiscoveryProperties ------------------------
(* What a discovery run promises, whatever the model answers, the page     *)
(* does and the disk refuses.                                              *)
EXTENDS DiscoveryAgent

(* Nothing has failed to be recorded so far.                               *)
OnRecord == pc # "begin" /\ ~rec.failed /\ result.code # "EVIDENCE_ERROR"

(* The steps at which the log holds an event of the type.                  *)
StepsOf(type) == {log[k].step : k \in LinesOf(log, type)}

(* At most one event of the type in a step, in the order of the steps.     *)
OncePerStep(type) ==
  \A j, k \in LinesOf(log, type) : j < k => log[j].step < log[k].step

(* GOAL_REACHED is the verifier's word, not the model's: the output is the *)
(* text of the one READ of the balance, decided on a snapshot whose        *)
(* address or headings named the member and whose only such cell was the   *)
(* Savings cell; and the log ends with the terminal event.                 *)
GoalIsVerified ==
  result.reason = "GOAL_REACHED" =>
    /\ \E i \in DOMAIN steps :
         LET s == steps[i]
         IN  /\ s.output = Balance /\ result.output = s.text
             /\ \A j \in DOMAIN steps : steps[j].output = Balance => j = i
             /\ Evidenced(Site[s.on.url].route, Site[s.on.body].headings)
             /\ \E k \in DOMAIN Shown[s.on.body] :
                  LET e == Shown[s.on.body][k]
                  IN  /\ e.role = "cell" /\ RowLabel(e.context) = "Savings"
                      /\ Found(Shown[s.on.body], SemanticTarget(e)) = {k}
    /\ pc = "done" => log # <<>> /\ log[Len(log)].type = "DISCOVERY_ENDED"

(* "Roles whose accessible name *is* their content": a cell holds no text  *)
(* but its name.                                                           *)
CellsAreText ==
  \A p \in Pages : \A i \in DOMAIN Site[p].tree :
    LET node == Site[p].tree[i]
    IN  node.role = "cell" => node.text \in {NoText, node.name}

(* ... and it is the value a Savings cell of that snapshot showed, however *)
(* the page has moved since: a cell is found again by its name, which is   *)
(* the text it is read for.                                                *)
GoalIsProven ==
  /\ GoalIsVerified
  /\ result.reason = "GOAL_REACHED" =>
       \E i \in DOMAIN steps :
         /\ steps[i].output = Balance
         /\ \E k \in DOMAIN Shown[steps[i].on.body] :
              LET e == Shown[steps[i].on.body][k]
              IN  e.value = result.output /\ RowLabel(e.context) = "Savings"

(* "One MODEL_CALL event == one provider HTTP attempt": every call has its *)
(* event before anything follows from it, at most two in a step, and two   *)
(* refusals end the run back to back, with nothing done between them.      *)
CallsOnRecord ==
  OnRecord =>
    /\ Count("MODEL_CALL") = calls - (IF pc = "reply" THEN 1 ELSE 0)
    /\ calls <= stepIndex + retries /\ retries <= stepIndex
    /\ result.codes # <<>> =>
         LET n == Len(log) - Count("DISCOVERY_ENDED")
         IN  /\ n >= 2 /\ log[n].type = "MODEL_CALL" /\ log[n - 1].type = "MODEL_CALL"
             /\ log[n].step = stepIndex /\ log[n - 1].step = stepIndex

(* The trace holds what was dispatched and completed, step for step; the   *)
(* one dispatch it may lack is in progress, or ended the run.              *)
TraceIsRecorded ==
  OnRecord =>
    LET traced == {steps[i].index : i \in DOMAIN steps}
    IN  /\ \A i, j \in DOMAIN steps : i < j => steps[i].index < steps[j].index
        /\ OncePerStep("ACTION_DISPATCHED") /\ OncePerStep("ACTION_COMPLETED")
        /\ StepsOf("ACTION_COMPLETED") = traced
        /\ \/ StepsOf("ACTION_DISPATCHED") = traced
           \/ /\ StepsOf("ACTION_DISPATCHED") = traced \cup {stepIndex}
              /\ stepIndex \notin traced
              /\ pc \in {"operate", "completed", "failed"} \/ result.code = "SURFACE_ERROR"

(* After the deadline the answer of a call already made is still heard,    *)
(* and the action it leads to is still done; nothing else is.              *)
LateWorkIsBounded == overtime \in {<<>>, <<"reply">>, <<"act">>, <<"reply", "act">>}

(* Nothing a model or a person could tell two snapshots apart by.          *)
SameView(s, t) ==
  /\ Site[s.url].route = Site[t.url].route
  /\ Site[s.body].title = Site[t.body].title
  /\ DOMAIN Shown[s.body] = DOMAIN Shown[t.body]
  /\ \A k \in DOMAIN Shown[s.body] :
       \A field \in {"role", "name", "value", "enabled", "context"} :
         Shown[s.body][k][field] = Shown[t.body][k][field]

(* The n last observations of the run show the same page.                  *)
LastAlike(n) ==
  /\ Len(observed) >= n
  /\ \A i \in (Len(observed) - n + 1)..(Len(observed) - 1) :
       SameView(observed[i], observed[Len(observed)])

(* A run is given up as stuck exactly when its last NoProgressLimit        *)
(* actions in a row changed nothing.                                       *)
StuckIsUnchanged ==
  /\ result.code = "NO_PROGRESS" => LastAlike(NoProgressLimit + 1)
  /\ pc \in {"ask", "reply", "gate"} => ~LastAlike(NoProgressLimit + 1)

(* Every run ends, with whatever reason.                                   *)
DiscoveryEnds == <>(pc = "done")

(* "One READ of the unique Savings cell on the requested member's page":   *)
(* the output is what a page of the member shows for Savings.              *)
SavingsAreTheMembers ==
  result.reason = "GOAL_REACHED" =>
    \E p \in Pages :
      /\ Evidenced(Site[p].route, Site[p].headings)
      /\ \E k \in DOMAIN Shown[p] : /\ Shown[p][k].value = result.output
                                    /\ RowLabel(Shown[p][k].context) = "Savings"
=============================================================================
