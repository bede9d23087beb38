--------------------------- MODULE DiscoveryAgent ---------------------------
(***************************************************************************)
(* DiscoveryAgent.run (src/cua/discovery/agent.py): observe, ask the       *)
(* model, judge its answer, pass the gate, act, with the evidence recorder *)
(* and a deadline around them.  One action per call that can fail, take    *)
(* time or be interleaved with the page changing by itself.                *)
(*                                                                         *)
(* As in ReplayEngine a snapshot is a pair of pages: `body` for the        *)
(* elements, title and outline, `url` for the address read last.  The      *)
(* model is any source of answers; an answer that is not a decision at all *)
(* (empty, or with a rejected summary) is one that is not Usable.          *)
(***************************************************************************)
EXTENDS DecisionValidator, ActionGate, EvidenceRecorder

CONSTANTS Pages,           \* what the browser can show
          Start,           \* the page the run begins on
          Site,            \* per page: [origin, route, title, headings, tree]
          Answers,         \* answers of the model, without the observation they echo
          Origin,          \* base_url
          Policy,          \* PolicyConfig
          Leads,           \* Leads[a][p]: what action a, done on page p, can show
          Moves,           \* Moves[p]: where p can move without an action
          MaxSteps,        \* max_steps
          NoProgressLimit  \* no_progress_limit

Snapshots == [body : Pages, url : Pages]

ASSUME StartAssumption == Start \in Pages
ASSUME LimitsAssumption == MaxSteps \in Nat \ {0} /\ NoProgressLimit \in Nat \ {0}
ASSUME WorldAssumption ==
  /\ Leads \in [ActionTypes -> [Pages -> SUBSET Pages]]
  /\ Moves \in [Pages -> SUBSET Pages]
ASSUME TreesAssumption == \A p \in Pages : Site[p].tree \in Trees
ASSUME AnswersAssumption == Answers \subseteq Wires
ASSUME GoalAssumption == Balance # Missing
ASSUME RoutesAssumption == \A r \in EntryRoutes : r # NoRoute

VARIABLES
  page,      \* what the browser shows now
  pc,        \* the call run() is at
  stepIndex, \* step_index; the surface counts its observations alike
  snap,      \* the snapshot of this step
  first,     \* first_code: why the first answer of this step was refused
  chosen,    \* the valid decision being carried out
  readText,  \* what its driver operation returned
  steps,     \* state.steps, each with the snapshot it was decided on
  pending,   \* the snapshot behind pending_digest: one or none
  unchanged, \* the no-progress counter
  calls,     \* model_calls
  retries,   \* corrective_retries
  late,      \* whether the deadline has passed
  result,    \* the DiscoveryResult
  observed,  \* history: the snapshots of this run
  overtime   \* history: what was done with the deadline behind

stepVars    == <<snap, first, chosen, readText>>
countVars   == <<calls, retries>>
historyVars == <<observed, overtime>>

vars == <<page, pc, stepIndex, stepVars, steps, pending, unchanged, countVars,
          late, result, historyVars, recorderVars>>

Nowhere  == [kind |-> Missing]
NoResult == [reason |-> "NONE", code |-> "NONE", codes |-> <<>>, output |-> Missing]

(* The caller's inputs are bound (bind_goal_inputs): a refusal there       *)
(* raises before anything happens.                                         *)
Init ==
  /\ page = Start /\ pc = "begin" /\ stepIndex = 0
  /\ snap = [body |-> page, url |-> page]
  /\ first = "NONE" /\ chosen = Nowhere /\ readText = NoText
  /\ steps = <<>> /\ pending = <<>> /\ unchanged = 0
  /\ calls = 0 /\ retries = 0 /\ late = FALSE
  /\ result = NoResult /\ observed = <<>> /\ overtime = <<>>
  /\ rec = NoRun /\ log = <<>> /\ sink = Closed

Goto(label) == pc' = label /\ UNCHANGED result

(* _Stop: the loop ends with a reason, a code and the validation codes.    *)
StopWith(reason, code, codes, output) ==
  /\ pc' = "terminal"
  /\ result' = [reason |-> reason, code |-> code, codes |-> codes, output |-> output]

Stop(reason, code) == StopWith(reason, code, <<>>, Missing)
EvidenceError == Stop("DEAD_END", "EVIDENCE_ERROR")
SurfaceError  == Stop("DEAD_END", "SURFACE_ERROR")

(* An exception run() does not handle: only end_run follows. *)
Raise == pc' = "end" /\ result' = [NoResult EXCEPT !.reason = "RAISED"]

------------------------------------------------------------------------------
(* The world and the clock *)

PageMoves ==
  /\ pc \notin {"begin", "terminal", "end", "done"}
  /\ page' \in Moves[page] \ {page}
  /\ UNCHANGED <<pc, stepIndex, stepVars, steps, pending, unchanged, countVars, late,
                 result, historyVars, recorderVars>>

(* The deadline passes; only where it makes a difference. *)
Deadline ==
  /\ ~late /\ pc \in {"step", "ask", "reply", "dispatch"}
  /\ late' = TRUE
  /\ UNCHANGED <<page, pc, stepIndex, stepVars, steps, pending, unchanged, countVars,
                 result, historyVars, recorderVars>>

Overtime(what) == overtime' = IF late THEN Append(overtime, what) ELSE overtime

------------------------------------------------------------------------------
(* The head of the loop *)

(* _begin_evidence: DISCOVERY_STARTED before anything else. *)
BeginEvidence ==
  /\ pc = "begin"
  /\ \/ BeginWritten("DISCOVERY_STARTED") /\ Goto("step")
     \/ BeginFails("DISCOVERY_STARTED")   /\ EvidenceError
  /\ UNCHANGED <<page, stepIndex, stepVars, steps, pending, unchanged, countVars, late,
                 historyVars>>

(* The step budget comes before the deadline. *)
StopAtHead ==
  /\ pc = "step"
  /\ \/ stepIndex = MaxSteps /\ Stop("MAX_STEPS", "MAX_STEPS")
     \/ stepIndex < MaxSteps /\ late /\ Stop("TIMEOUT", "TIMEOUT")
  /\ UNCHANGED <<page, stepIndex, stepVars, steps, pending, unchanged, countVars, late,
                 historyVars, recorderVars>>

BeginStep ==
  /\ pc = "step" /\ stepIndex < MaxSteps /\ ~late
  /\ stepIndex' = stepIndex + 1
  /\ SetStep(stepIndex + 1)
  /\ first' = "NONE"
  /\ Goto("observe")
  /\ UNCHANGED <<page, snap, chosen, readText, steps, pending, unchanged, countVars, late,
                 historyVars>>

------------------------------------------------------------------------------
(* Observing *)

Shown == [p \in Pages |-> ElementsOf(Site[p].tree)]

Elements == Shown[snap.body]

(* Seeded fault of Digest: what the elements hold is left out. *)
ControlsOnly(s) ==
  [route |-> Site[s.url].route, title |-> Site[s.body].title,
   elements |-> [k \in DOMAIN Shown[s.body] |-> Shown[s.body][k].name]]

(* digest: path, title and elements, neither refs nor the outline.         *)
Digest(s) ==
  [route |-> Site[s.url].route, title |-> Site[s.body].title,
   elements |-> [k \in DOMAIN Shown[s.body] |-> [Shown[s.body][k] EXCEPT !.at = 0]]]

(* _check_progress: the counter after observing s. *)
Progress(s) ==
  IF pending = <<>> THEN unchanged
  ELSE IF Digest(s) = Digest(pending[1]) THEN unchanged + 1 ELSE 0

(* _observe and _check_progress: the observation is recorded before the    *)
(* counter is looked at.                                                   *)
Observe ==
  /\ pc = "observe"
  /\ \E url \in {page} \cup Moves[page] :
       LET s == [body |-> page, url |-> url]
       IN  /\ page' = url /\ snap' = s
           /\ observed' = Append(observed, s)
           /\ \/ /\ Written("OBSERVATION")
                 /\ unchanged' = Progress(s)
                 /\ pending' = <<>>
                 /\ IF pending # <<>> /\ unchanged' >= NoProgressLimit
                    THEN Stop("DEAD_END", "NO_PROGRESS") ELSE Goto("ask")
              \/ NotWritten("OBSERVATION") /\ EvidenceError /\ UNCHANGED <<unchanged, pending>>
  /\ UNCHANGED <<stepIndex, first, chosen, readText, steps, countVars, late, overtime>>

ObserveFails ==
  /\ pc = "observe"
  /\ SurfaceError
  /\ UNCHANGED <<page, stepIndex, stepVars, steps, pending, unchanged, countVars, late,
                 historyVars, recorderVars>>

------------------------------------------------------------------------------
(* Asking the model *)

(* Seeded fault of Ask: the deadline is not looked at.                     *)
AskRegardless ==
  /\ pc = "ask"
  /\ calls' = calls + 1 /\ Goto("reply")
  /\ UNCHANGED <<page, stepIndex, stepVars, steps, pending, unchanged, retries, late,
                 historyVars, recorderVars>>

(* One iteration of _decide up to the provider: the deadline, the request  *)
(* (which raises when it would carry a bound value, a matter of what the   *)
(* page and the clock happen to spell), the call.                          *)
Ask ==
  /\ pc = "ask"
  /\ \/ late  /\ Stop("TIMEOUT", "TIMEOUT") /\ UNCHANGED calls
     \/ ~late /\ Raise /\ UNCHANGED calls
     \/ ~late /\ calls' = calls + 1 /\ Goto("reply")
  /\ UNCHANGED <<page, stepIndex, stepVars, steps, pending, unchanged, retries, late,
                 historyVars, recorderVars>>

(* _record_model_call, then whatever `after` says. *)
Recorded(after) ==
  \/ Written("MODEL_CALL")    /\ after
  \/ NotWritten("MODEL_CALL") /\ EvidenceError /\ UNCHANGED <<first, chosen, pending, retries>>

(* Seeded fault of ProviderFails: a failed call is not recorded.           *)
ProviderFailsUnrecorded ==
  /\ pc = "reply"
  /\ Overtime("reply")
  /\ Stop("MODEL_ERROR", "PROVIDER_ERROR")
  /\ UNCHANGED <<page, stepIndex, stepVars, steps, pending, unchanged, countVars, late,
                 observed, recorderVars>>

(* ProviderError: a timeout, a refusal, an HTTP error.  Never retried.     *)
ProviderFails ==
  /\ pc = "reply"
  /\ Overtime("reply")
  /\ Recorded(Stop("MODEL_ERROR", "PROVIDER_ERROR")
              /\ UNCHANGED <<first, chosen, pending, retries>>)
  /\ UNCHANGED <<page, stepIndex, snap, readText, steps, unchanged, calls, late, observed>>

(* An answer refused with `code`: asked once more, then the end of the     *)
(* run, which an ambiguous page ends differently from a bad answer.        *)
Refused(code) ==
  \/ /\ first = "NONE"
     /\ first' = code /\ retries' = retries + 1
     /\ Goto("ask")
     /\ UNCHANGED <<chosen, pending>>
  \/ /\ first # "NONE"
     /\ IF code = "AMBIGUOUS_TARGET"
        THEN StopWith("DEAD_END", code, <<first, code>>, Missing)
        ELSE StopWith("MODEL_ERROR", "INVALID_DECISION", <<first, code>>, Missing)
     /\ UNCHANGED <<first, chosen, pending, retries>>

(* A valid decision: the verified outputs, a reported block, or an action. *)
Accepted(wire) ==
  /\ \/ /\ wire.kind = "FINISH"
        /\ StopWith("GOAL_REACHED", "GOAL_VERIFIED", <<>>,
                    steps[FirstOf(ReadsOf(steps, Balance))].text)
        /\ UNCHANGED <<chosen, pending>>
     \/ /\ wire.kind = "REPORT_BLOCKED"
        /\ Stop("DEAD_END", "REPORTED_BLOCKED")
        /\ UNCHANGED <<chosen, pending>>
     \/ /\ wire.kind = "ACT"
        /\ chosen' = wire /\ pending' = <<snap>>
        /\ Goto("gate")
  /\ UNCHANGED <<first, retries>>

Echoing(answer, observation) == [answer EXCEPT !.observation = observation]

(* The rest of the iteration: judge against the raw snapshot, record the   *)
(* call, act on the verdict.                                               *)
Reply ==
  /\ pc = "reply"
  /\ Overtime("reply")
  /\ \E answer \in Answers : \E o \in {stepIndex - 1, stepIndex} :
       LET wire == Echoing(answer, o)
           code == Validate(wire, stepIndex, Elements, steps)
       IN  Recorded(IF code = "VALID" THEN Accepted(wire) ELSE Refused(code))
  /\ UNCHANGED <<page, stepIndex, snap, readText, steps, unchanged, calls, late, observed>>

------------------------------------------------------------------------------
(* Acting, through the gate only *)

Navigates == chosen.action = "NAVIGATE"

(* ActionGate.request_for; nothing is ever declared by the model.          *)
Request ==
  [action |-> chosen.action, declared |-> Undeclared,
   origin |-> IF Navigates THEN Origin ELSE Site[snap.url].origin,
   route  |-> IF Navigates THEN BindRoute(chosen.route) ELSE Site[snap.url].route,
   target |-> IF Navigates THEN NoName ELSE ElementAt(Elements, chosen.ref).name]

(* The decision is recorded before the driver is called; automation owns   *)
(* the browser throughout.                                                 *)
Gate ==
  /\ pc = "gate"
  /\ LET decision == Authorize(Policy, TRUE, Request).decision
     IN  \/ /\ Written("GATE_DECISION")
            /\ CASE decision = "ALLOW" -> Goto(IF Navigates THEN "dispatch" ELSE "locate")
                 [] decision = "DENY"  -> Stop("BLOCKED_BY_POLICY", "POLICY_DENIED")
                 [] OTHER -> Stop("BLOCKED_BY_POLICY", "INTERVENTION_REQUIRED")
         \/ NotWritten("GATE_DECISION") /\ EvidenceError
  /\ UNCHANGED <<page, stepIndex, stepVars, steps, pending, unchanged, countVars, late,
                 historyVars>>

(* The live nodes the chosen element's ref leads to now. *)
LiveTarget == Relocated(Site[page].tree, RecipeOf(Elements, chosen.ref))

(* PlaywrightSurface._resolve *)
Locate ==
  /\ pc = "locate"
  /\ \/ LiveTarget # {} /\ Goto("dispatch")
     \/ SurfaceError
  /\ UNCHANGED <<page, stepIndex, stepVars, steps, pending, unchanged, countVars, late,
                 historyVars, recorderVars>>

(* on_dispatched: ACTION_DISPATCHED, or the driver is not called. *)
Dispatch ==
  /\ pc = "dispatch"
  /\ \/ DispatchWritten    /\ Goto("operate") /\ Overtime("act")
     \/ DispatchNotWritten /\ EvidenceError   /\ UNCHANGED overtime
  /\ UNCHANGED <<page, stepIndex, stepVars, steps, pending, unchanged, countVars, late,
                 observed>>

(* What a READ returns for a node: the value of an input, else its text.   *)
TextOf(node) ==
  IF node.text # NoText THEN node.text
  ELSE IF node.role \in FillRoles THEN NoText ELSE node.name

(* The driver operation, on whatever the page shows now; a failure may     *)
(* have had its effect.                                                    *)
Operate ==
  /\ pc = "operate"
  /\ \/ /\ ~Navigates => LiveTarget # {}
        /\ Goto("completed")
        /\ readText' = IF Reads(chosen) THEN TextOf(Site[page].tree[FirstOf(LiveTarget)])
                       ELSE NoText
        /\ page' \in Leads[chosen.action][page]
     \/ /\ Goto("failed") /\ UNCHANGED readText
        /\ page' \in {page} \cup Leads[chosen.action][page]
  /\ UNCHANGED <<stepIndex, snap, first, chosen, steps, pending, unchanged, countVars, late,
                 historyVars, recorderVars>>

(* _step_raw: what the run keeps of a step, its texts as they were read     *)
(* (the verifier's Satisfied sees them templated); `on` is the snapshot it  *)
(* was decided on.                                                          *)
StepRaw ==
  [index |-> stepIndex, action |-> chosen.action, value |-> chosen.value,
   route |-> chosen.route, output |-> chosen.output, text |-> readText, on |-> snap,
   target |-> IF Navigates THEN Nowhere
              ELSE SemanticTarget(ElementAt(Elements, chosen.ref)),
   matches |-> IF Navigates THEN 0
               ELSE IdentityMatches(Elements, SemanticTarget(ElementAt(Elements, chosen.ref))),
   evidenced |-> Reads(chosen)
                 /\ Evidenced(Site[snap.url].route, Site[snap.body].headings)]

(* on_completed; then the assertion on the recorder's count and the step   *)
(* record.                                                                 *)
Completed ==
  /\ pc = "completed"
  /\ \/ /\ Written("ACTION_COMPLETED")
        /\ IF rec.dispatches = Len(steps) + 1
           THEN Goto("step") /\ steps' = Append(steps, StepRaw)
           ELSE Raise /\ UNCHANGED steps
     \/ NotWritten("ACTION_COMPLETED") /\ EvidenceError /\ UNCHANGED steps
  /\ UNCHANGED <<page, stepIndex, stepVars, pending, unchanged, countVars, late, historyVars>>

(* Seeded fault of Failed: a failed action is taken for a step.            *)
FailedGoesOn ==
  /\ pc = "failed"
  /\ \/ Written("ACTION_FAILED")    /\ Goto("step") /\ steps' = Append(steps, StepRaw)
     \/ NotWritten("ACTION_FAILED") /\ EvidenceError /\ UNCHANGED steps
  /\ UNCHANGED <<page, stepIndex, stepVars, pending, unchanged, countVars, late, historyVars>>

(* on_failed; the action is never repeated. *)
Failed ==
  /\ pc = "failed"
  /\ \/ Written("ACTION_FAILED")    /\ SurfaceError
     \/ NotWritten("ACTION_FAILED") /\ EvidenceError
  /\ UNCHANGED <<page, stepIndex, stepVars, steps, pending, unchanged, countVars, late,
                 historyVars>>

------------------------------------------------------------------------------
(* The end *)

(* Seeded fault of Terminal: a terminal event that fails is written again. *)
TerminalInsists ==
  /\ pc = "terminal"
  /\ \/ (~rec.active \/ rec.failed) /\ UNCHANGED <<pc, result, recorderVars>>
     \/ rec.active /\ ~rec.failed /\ TerminalWritten("DISCOVERY_ENDED") /\ Goto("end")
     \/ rec.active /\ ~rec.failed /\ TerminalFails("DISCOVERY_ENDED") /\ Goto("terminal")
  /\ UNCHANGED <<page, stepIndex, stepVars, steps, pending, unchanged, countVars, late,
                 historyVars>>

(* _record_terminal: nothing once evidence has failed; a run whose last    *)
(* event cannot be written is returned without its outputs.                *)
Terminal ==
  /\ pc = "terminal"
  /\ \/ (~rec.active \/ rec.failed) /\ Goto("end") /\ UNCHANGED recorderVars
     \/ rec.active /\ ~rec.failed /\ TerminalWritten("DISCOVERY_ENDED") /\ Goto("end")
     \/ /\ rec.active /\ ~rec.failed /\ TerminalFails("DISCOVERY_ENDED")
        /\ pc' = "end"
        /\ result' = [NoResult EXCEPT !.reason = "DEAD_END", !.code = "EVIDENCE_ERROR"]
  /\ UNCHANGED <<page, stepIndex, stepVars, steps, pending, unchanged, countVars, late,
                 historyVars>>

(* The finally clause of run(). *)
End ==
  /\ pc = "end"
  /\ EndRun
  /\ pc' = "done"
  /\ UNCHANGED <<page, stepIndex, stepVars, steps, pending, unchanged, countVars, late,
                 result, historyVars>>

Run == \/ BeginEvidence \/ StopAtHead \/ BeginStep \/ Observe \/ ObserveFails
       \/ Ask \/ ProviderFails \/ Reply \/ Gate \/ Locate \/ Dispatch \/ Operate
       \/ Completed \/ Failed \/ Terminal \/ End

Next == Run \/ PageMoves \/ Deadline

(* run() does not wait for anybody without a timeout: every driver and     *)
(* provider call has one.                                                  *)
Spec == Init /\ [][Next]_vars /\ WF_vars(Run)
=============================================================================
