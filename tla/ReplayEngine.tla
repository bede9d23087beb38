---------------------------- MODULE ReplayEngine ----------------------------
(***************************************************************************)
(* ReplayEngine.run (src/cua/replay/engine.py) with the gate, the surface, *)
(* the evidence recorder and the human it drives: one action per call that *)
(* can fail, block or be interleaved with the page changing by itself.     *)
(*                                                                         *)
(* A page stands for everything one observation shows.  observe() reads    *)
(* the accessibility tree first and the URL last, so a snapshot is a pair  *)
(* of pages: `body` for its elements and text, `url` for its address.      *)
(* Between two calls of the engine the page may move (PageDrifts: a slow   *)
(* load, a redirect, a second tab).                                        *)
(*                                                                         *)
(* Conditions are numbered: 1..N are the steps' postconditions, N + 1 the  *)
(* success checkpoint, KnownOutcome the detectors of the declared business *)
(* outcomes.                                                               *)
(***************************************************************************)
EXTENDS ControlOwner, ActionGate, EvidenceRecorder, FiniteSets

CONSTANTS Pages,      \* what the browser can show
          Plan,       \* the bound steps: [action, dest, target, declared]
          Site,       \* per page: [origin, route, matches, found, holds]
          Routed,     \* the conditions that look at the URL (RouteMatches)
          Policy,     \* PolicyConfig
          Leads,      \* Leads[i][p]: what step i, done on page p, can show
          Moves,      \* Moves[p]: where p can move without an action
          HasHandler, \* whether an InterventionHandler is configured
          Ticks       \* polls that fit in one observation window, at most

N            == Len(Plan)
StepIds      == 1..N
KnownOutcome == 0
Checkpoint   == N + 1
Snapshots    == [body : Pages, url : Pages]
HandBackKinds == {"DONE", "ABORT"}

ASSUME PlanAssumption ==
  /\ Plan \in Seq([action : ActionTypes, dest : Pages, target : STRING, declared : RiskTiers])
  /\ Plan # <<>>
ASSUME SiteAssumption ==
  \A p \in Pages : /\ Site[p].matches \in [StepIds -> 0..2]
                   /\ Site[p].found \subseteq StepIds
                   /\ Site[p].holds \subseteq 0..Checkpoint
ASSUME WorldAssumption ==
  /\ Leads \in [StepIds -> [Pages -> SUBSET Pages]]
  /\ Moves \in [Pages -> SUBSET Pages]
ASSUME PolicyAssumption ==
  \A i \in DOMAIN Policy.rules : Policy.rules[i].risk \in RiskTiers
ASSUME ConfigAssumption == HasHandler \in BOOLEAN /\ Ticks \in Nat

VARIABLES
  page,        \* what the browser shows now
  pc,          \* the call run() is at
  step,        \* the current step; 0 before the first, N + 1 at the checkpoint
  snap,        \* the snapshot the current target was resolved on
  left,        \* polls that still fit before the deadline
  ruling,      \* the gate's answer for the current action
  before,      \* recorded_before: dispatch_count when _dispatch was entered
  steps,       \* the step records of the result
  outputs,     \* the steps whose output has been recorded
  handoff,     \* _Handoff, the hand-back and the verdict of the verifier
  result,      \* the RunResult
  attempts,    \* history: driver operations per step of this run
  humanDid,    \* history: the steps whose operation the human performed
  startedAs    \* history: the owner when this run started

viewVars    == <<snap, left, ruling, before>>
reportVars  == <<steps, outputs, result>>
historyVars == <<attempts, humanDid, startedAs>>

vars == <<page, pc, step, viewVars, reportVars, handoff, historyVars, owner, recorderVars>>

NotReached == [status |-> "NOT_REACHED", dispatched |-> FALSE, byHuman |-> FALSE]
NoResult   == [status |-> "NONE", code |-> "NONE", step |-> 0, retry |-> "unstated"]
NoHandoff  == [kind |-> "NONE", verdict |-> "NONE", failed |-> FALSE]
NoRuling   == [decision |-> "DENY", risk |-> "SAFE_READ", reason |-> "NONE"]

Init ==
  /\ page \in Pages
  /\ pc = "idle" /\ step = 0
  /\ snap \in {s \in Snapshots : s.body = page /\ s.url = page}
  /\ left = 0 /\ ruling = NoRuling /\ before = 0
  /\ steps = [i \in StepIds |-> NotReached] /\ outputs = {} /\ result = NoResult
  /\ handoff = NoHandoff
  /\ attempts = [i \in StepIds |-> 0] /\ humanDid = {}
  /\ startedAs = "AUTOMATION"
  /\ OwnerInit
  /\ rec = NoRun /\ log = <<>> /\ sink = Closed

------------------------------------------------------------------------------
(* Observing and judging *)

(* PlaywrightSurface.observe: the page may move before the URL is read. *)
Observe(s) == /\ s.body = page
              /\ s.url \in {page} \cup Moves[page]
              /\ page' = s.url

(* conditions.evaluate *)
Holds(c, s) == c \in Site[IF c \in Routed THEN s.url ELSE s.body].holds

Matches(s) == Site[s.body].matches[step]

Act == Plan[step]

(* GateRequest, for the origin and route of page p.                        *)
RequestOn(p) == [action |-> Act.action, origin |-> Site[p].origin, route |-> Site[p].route,
                 target |-> IF Act.action = "NAVIGATE" THEN NoName ELSE Act.target,
                 declared |-> Act.declared]

(* Seeded fault of Request: judged on the page the elements came from.     *)
JudgedOnBody == RequestOn(IF Act.action = "NAVIGATE" THEN Act.dest ELSE snap.body)

(* ActionGate.request_for: the destination for NAVIGATE, else the URL of   *)
(* the snapshot the element came from.                                     *)
Request == RequestOn(IF Act.action = "NAVIGATE" THEN Act.dest ELSE snap.url)

(* The end of run(): the current step, if there is one, gets its record.   *)
Stop(status, code, retry, record) ==
  /\ pc' = "terminal"
  /\ result' = [status |-> status, code |-> code, retry |-> retry,
                step |-> IF step \in StepIds THEN step ELSE 0]
  /\ steps' = [i \in StepIds |-> IF i = step THEN [record EXCEPT !.status =
                 IF status = "BUSINESS_OUTCOME" THEN "OUTCOME" ELSE "FAILED"] ELSE steps[i]]
  /\ UNCHANGED outputs

Current == IF step \in StepIds THEN steps[step] ELSE NotReached

Fail(code)      == Stop("FAILURE", code, "unstated", Current)
(* Seeded fault of FailNoRetry: nothing is said about retrying.            *)
FailUnstated(code) == Stop("FAILURE", code, "unstated", Current)

FailNoRetry(code) == Stop("FAILURE", code, "no", Current)
FailMarked(code, dispatched) ==
  Stop("FAILURE", code, "unstated", [Current EXCEPT !.dispatched = dispatched])
Outcome         == Stop("BUSINESS_OUTCOME", "KNOWN_OUTCOME", "unstated", Current)

Goto(label) == pc' = label /\ UNCHANGED reportVars

CompleteStep(record) ==
  /\ pc' = "step"
  /\ steps' = [steps EXCEPT ![step] = [record EXCEPT !.status = "COMPLETED"]]
  /\ UNCHANGED result

------------------------------------------------------------------------------
(* Beginning *)

StartRun ==
  /\ pc = "idle"
  /\ pc' = "begin" /\ step' = 0
  /\ steps' = [i \in StepIds |-> NotReached] /\ outputs' = {} /\ result' = NoResult
  /\ handoff' = NoHandoff
  /\ attempts' = [i \in StepIds |-> 0] /\ humanDid' = {}
  /\ startedAs' = owner
  /\ UNCHANGED <<page, viewVars, owner, recorderVars>>

(* _begin_evidence: RUN_STARTED before anything else. *)
BeginEvidence ==
  /\ pc = "begin"
  /\ \/ BeginWritten("RUN_STARTED") /\ Goto("bind")
     \/ BeginFails("RUN_STARTED")   /\ Fail("EVIDENCE_ERROR")
  /\ UNCHANGED <<page, step, viewVars, handoff, historyVars, owner>>

(* _bind: the whole artifact, before anything is observed. *)
Bind ==
  /\ pc = "bind"
  /\ Goto("step") \/ Fail("INVALID_INPUT")
  /\ UNCHANGED <<page, step, viewVars, handoff, historyVars, owner, recorderVars>>

(* _execute: name the step to the recorder, then resolve, or go straight   *)
(* to the gate for NAVIGATE.  The window opens here: how many polls fit    *)
(* in it is the clock's choice.                                            *)
BeginStep ==
  /\ pc = "step" /\ step < N
  /\ step' = step + 1
  /\ SetStep(step + 1)
  /\ Goto(IF Plan[step + 1].action = "NAVIGATE" THEN "gate" ELSE "resolve")
  /\ left' \in 0..Ticks
  /\ UNCHANGED <<page, snap, ruling, before, handoff, historyVars, owner>>

BeginCheckpoint ==
  /\ pc = "step" /\ step = N
  /\ step' = Checkpoint
  /\ SetStep(NoStep)
  /\ Goto("checkpoint")
  /\ left' \in 0..Ticks
  /\ UNCHANGED <<page, snap, ruling, before, handoff, historyVars, owner>>

------------------------------------------------------------------------------
(* Resolving the target (resolver.py) *)

(* _observe: the surface's runtime errors end the run. *)
ObserveFails(at) ==
  /\ pc = at
  /\ Fail("SURFACE_ERROR")
  /\ UNCHANGED <<page, step, viewVars, handoff, historyVars, owner, recorderVars>>

ResolveFails == ObserveFails("resolve")

(* TargetResolver.resolve, one observation: known outcomes first, one      *)
(* match is the target, several are refused, none is polled for.           *)
Resolve ==
  /\ pc = "resolve"
  /\ \E s \in Snapshots :
       /\ Observe(s) /\ snap' = s
       /\ \/ Holds(KnownOutcome, s) /\ Outcome /\ UNCHANGED left
          \/ /\ ~Holds(KnownOutcome, s)
             /\ \/ Matches(s) = 1 /\ Goto("gate") /\ UNCHANGED left
                \/ Matches(s) > 1 /\ Fail("AMBIGUOUS_TARGET") /\ UNCHANGED left
                \/ Matches(s) = 0 /\ left = 0 /\ Fail("TARGET_NOT_FOUND") /\ UNCHANGED left
                \/ Matches(s) = 0 /\ left > 0 /\ left' \in 0..(left - 1) /\ Goto("resolve")
  /\ UNCHANGED <<step, ruling, before, handoff, historyVars, owner, recorderVars>>

------------------------------------------------------------------------------
(* The gate, and the driver behind it *)

(* Seeded fault of Obey: only a DENY stops the action.                     *)
ObeyDenials(decision) ==
  \/ decision # "DENY" /\ Goto(IF Act.action = "NAVIGATE" THEN "dispatch" ELSE "locate")
  \/ decision = "DENY" /\ Fail("POLICY_DENIED")

(* What _dispatch does with the gate's answer. *)
Obey(decision) ==
  \/ decision = "ALLOW" /\ Goto(IF Act.action = "NAVIGATE" THEN "dispatch" ELSE "locate")
  \/ decision = "DENY"  /\ Fail("POLICY_DENIED")
  \/ /\ decision = "REQUIRE_INTERVENTION"
     /\ \/ (~HasHandler \/ Act.action = "READ") /\ Fail("INTERVENTION_REQUIRED")
        \/ HasHandler /\ Act.action # "READ"    /\ Goto("pre")

(* ActionGate.dispatch: authorize, then tell the recorder, then act. *)
Decide ==
  /\ pc = "gate"
  /\ ruling' = Authorize(Policy, IsAutomation, Request)
  /\ before' = rec.dispatches
  /\ \/ Written("GATE_DECISION")    /\ Obey(ruling'.decision)
     \/ NotWritten("GATE_DECISION") /\ FailMarked("EVIDENCE_ERROR", FALSE)
  /\ UNCHANGED <<page, step, snap, left, handoff, historyVars, owner>>

(* Seeded fault of CountedSince: a count that did not move is enough.      *)
CountedOrEqual == rec.dispatches >= before

(* Whether ACTION_DISPATCHED was recorded since _dispatch was entered. *)
CountedSince == rec.dispatches > before

(* PlaywrightSurface._resolve: the live page is asked for the element by   *)
(* role, name and ordinal, wherever on the page it is; an element that is  *)
(* gone, or a driver that fails, ends the run.                             *)
Locate ==
  /\ pc = "locate"
  /\ \/ step \in Site[page].found /\ Goto("dispatch")
     \/ FailMarked("SURFACE_ERROR", CountedSince)
  /\ UNCHANGED <<page, step, viewVars, handoff, historyVars, owner, recorderVars>>

(* Seeded fault of RecordDispatch: the driver is called all the same.      *)
DispatchUnrecorded ==
  /\ pc = "dispatch"
  /\ DispatchWritten \/ DispatchNotWritten
  /\ Goto("operate")
  /\ UNCHANGED <<page, step, viewVars, handoff, historyVars, owner>>

(* on_dispatched: the write comes before the driver call, and failing it   *)
(* is the end of the run.                                                  *)
RecordDispatch ==
  /\ pc = "dispatch"
  /\ \/ DispatchWritten    /\ Goto("operate")
     \/ DispatchNotWritten /\ FailMarked("EVIDENCE_ERROR", FALSE)
  /\ UNCHANGED <<page, step, viewVars, handoff, historyVars, owner>>

(* The driver operation: it may fail after having had its effect. *)
Operate ==
  /\ pc = "operate"
  /\ attempts' = [attempts EXCEPT ![step] = @ + 1]
  /\ \/ page' \in Leads[step][page] /\ Goto("completed")
     \/ page' \in Leads[step][page] \cup {page} /\ Goto("failed")
  /\ UNCHANGED <<step, viewVars, handoff, humanDid, startedAs, owner, recorderVars>>

(* on_completed: past this point the action has happened, whatever the     *)
(* recorder says.                                                          *)
RecordCompleted ==
  /\ pc = "completed"
  /\ \/ /\ Written("ACTION_COMPLETED")
        /\ steps' = [steps EXCEPT ![step].dispatched = TRUE]
        /\ pc' = IF Act.action = "READ" THEN "output" ELSE "postcondition"
        /\ left' \in 0..Ticks
        /\ UNCHANGED <<outputs, result>>
     \/ /\ NotWritten("ACTION_COMPLETED")
        /\ FailMarked("EVIDENCE_ERROR", TRUE)
        /\ UNCHANGED left
  /\ UNCHANGED <<page, step, snap, ruling, before, handoff, historyVars, owner>>

(* Seeded fault of RecordFailed: a failed driver operation is retried.     *)
RetryFailed ==
  /\ pc = "failed"
  /\ \/ Written("ACTION_FAILED")    /\ Goto("dispatch")
     \/ NotWritten("ACTION_FAILED") /\ FailMarked("EVIDENCE_ERROR", TRUE)
  /\ UNCHANGED <<page, step, viewVars, handoff, historyVars, owner>>

RecordFailed ==
  /\ pc = "failed"
  /\ \/ Written("ACTION_FAILED")    /\ FailMarked("SURFACE_ERROR", CountedSince)
     \/ NotWritten("ACTION_FAILED") /\ FailMarked("EVIDENCE_ERROR", TRUE)
  /\ UNCHANGED <<page, step, viewVars, handoff, historyVars, owner>>

(* _record_output: the value is missing, does not parse, or is recorded. *)
RecordOutput ==
  /\ pc = "output"
  /\ \/ Fail("SURFACE_ERROR")
     \/ Fail("TRANSFORM_ERROR")
     \/ CompleteStep(Current) /\ outputs' = outputs \cup {step}
  /\ UNCHANGED <<page, step, viewVars, handoff, historyVars, owner, recorderVars>>

------------------------------------------------------------------------------
(* Waiting for a condition: _wait_for *)

(* One observation that does not settle the wait: poll again, or time out. *)
Unsettled(s) == ~Holds(KnownOutcome, s) /\ ~Holds(step, s)

(* Seeded fault of PollAgain: the window is opened anew by every poll.     *)
WindowReopens(s) == Unsettled(s) /\ left > 0 /\ left' \in 1..Ticks /\ Goto(pc)

(* Seeded fault of PollAgain: the deadline may be passed by one poll.      *)
PollsPastDeadline(s) == Unsettled(s) /\ left > 0 /\ left' \in -1..(left - 1) /\ Goto(pc)

PollAgain(s) == /\ Unsettled(s) /\ left > 0
                /\ left' \in 0..(left - 1)
                /\ Goto(pc)

WaitFails == ObserveFails("postcondition") \/ ObserveFails("checkpoint")

(* Postcondition and success checkpoint; known outcomes come first. *)
Await(at, done) ==
  /\ pc = at
  /\ \E s \in Snapshots :
       /\ Observe(s)
       /\ \/ Holds(KnownOutcome, s) /\ Outcome /\ UNCHANGED left
          \/ ~Holds(KnownOutcome, s) /\ Holds(step, s) /\ done /\ UNCHANGED left
          \/ Unsettled(s) /\ left = 0 /\ Fail("POSTCONDITION_FAILED") /\ UNCHANGED left
          \/ PollAgain(s)
  /\ UNCHANGED <<step, snap, ruling, before, handoff, historyVars, owner, recorderVars>>

AwaitPostcondition == Await("postcondition", CompleteStep(Current) /\ UNCHANGED outputs)

(* SUCCESS is in memory only, until the terminal event is on disk. *)
Succeed == /\ pc' = "terminal"
           /\ result' = [NoResult EXCEPT !.status = "SUCCESS"]
           /\ UNCHANGED <<steps, outputs>>

AwaitCheckpoint == Await("checkpoint", Succeed)

------------------------------------------------------------------------------
(* Intervention: _intervene.  Evidence before the human fails closed. *)

ObservePre ==
  /\ pc = "pre"
  /\ \E s \in Snapshots : Observe(s)
  /\ Goto("preshot")
  /\ handoff' = NoHandoff
  /\ UNCHANGED <<step, viewVars, historyVars, owner, recorderVars>>

ObservePreFails == ObserveFails("pre")

CapturePre ==
  /\ pc = "preshot"
  /\ \/ Fail("SURFACE_ERROR") /\ UNCHANGED recorderVars
     \/ ArtifactStored        /\ Goto("request")
     \/ ArtifactRefused       /\ Fail("EVIDENCE_ERROR")
  /\ UNCHANGED <<page, step, viewVars, handoff, historyVars, owner>>

(* Seeded fault of EarlyEmit: a failed event is noted, not obeyed.         *)
EmitAndGoOn(type, next) == (Written(type) \/ NotWritten(type)) /\ Goto(next)

(* _emit_before_human *)
EarlyEmit(type, next) ==
  \/ Written(type)    /\ Goto(next)
  \/ NotWritten(type) /\ Fail("EVIDENCE_ERROR")

RequestIntervention ==
  /\ pc = "request"
  /\ EarlyEmit("INTERVENTION_REQUESTED", "escalate")
  /\ UNCHANGED <<page, step, viewVars, handoff, historyVars, owner>>

(* _transfer: the owner moves first and the event follows, so a failed     *)
(* event leaves the owner where it has moved to.                           *)
EscalateControl ==
  /\ pc = "escalate"
  /\ Escalate
  /\ EarlyEmit("CONTROL_TRANSFERRED", "accept")
  /\ UNCHANGED <<page, step, viewVars, handoff, historyVars>>

AcceptControl ==
  /\ pc = "accept"
  /\ Accept
  /\ EarlyEmit("CONTROL_TRANSFERRED", "human")
  /\ UNCHANGED <<page, step, viewVars, handoff, historyVars>>

(* External: the human performs the step's operation in the open window.   *)
(* Once is the bound: nothing the engine does depends on how often.        *)
HumanActs ==
  /\ pc = "human" /\ step \notin humanDid
  /\ humanDid' = humanDid \cup {step}
  /\ page' \in Leads[step][page]
  /\ UNCHANGED <<pc, step, viewVars, reportVars, handoff, attempts, startedAs, owner,
                 recorderVars>>

(* StdinInterventionHandler.intervene returns: done, or abort (end of      *)
(* input included).                                                        *)
HandsBack ==
  /\ pc = "human"
  /\ \E k \in HandBackKinds : handoff' = [handoff EXCEPT !.kind = k]
  /\ Goto("handback")
  /\ UNCHANGED <<page, step, viewVars, historyVars, owner, recorderVars>>

(* The handler raises (an interrupt at the prompt): run() propagates it,   *)
(* through end_run and without a result.                                   *)
HandlerRaises ==
  /\ pc = "human"
  /\ pc' = "ending"
  /\ result' = [NoResult EXCEPT !.status = "RAISED"]
  /\ UNCHANGED <<page, step, viewVars, steps, outputs, handoff, historyVars, owner,
                 recorderVars>>

(* _emit_after_human: the first failure is remembered, later events are    *)
(* not attempted.                                                          *)
LateEmit(type) ==
  \/ handoff.failed /\ UNCHANGED <<handoff, recorderVars>>
  \/ ~handoff.failed /\ Written(type) /\ UNCHANGED handoff
  \/ ~handoff.failed /\ NotWritten(type) /\ handoff' = [handoff EXCEPT !.failed = TRUE]

RecordHandBack ==
  /\ pc = "handback"
  /\ LateEmit("HAND_BACK")
  /\ Goto("return")
  /\ UNCHANGED <<page, step, viewVars, historyVars, owner>>

ReturnControl ==
  /\ pc = "return"
  /\ HandBack
  /\ LateEmit("CONTROL_TRANSFERRED")
  /\ Goto("verify")
  /\ left' \in 0..Ticks
  /\ UNCHANGED <<page, step, snap, ruling, before, historyVars>>

(* _verify_human_step: the step's own postcondition, freshly observed.  A  *)
(* business outcome is reported as such.                                   *)
Verify ==
  /\ pc = "verify"
  /\ \E s \in Snapshots :
       /\ Observe(s)
       /\ \/ Holds(KnownOutcome, s) /\ Outcome /\ UNCHANGED <<left, handoff>>
          \/ /\ ~Holds(KnownOutcome, s) /\ Holds(step, s)
             /\ handoff' = [handoff EXCEPT !.verdict = "VERIFIED"]
             /\ Goto("postshot") /\ UNCHANGED left
          \/ /\ Unsettled(s) /\ left = 0
             /\ handoff' = [handoff EXCEPT !.verdict = "UNKNOWN"]
             /\ Goto("postshot") /\ UNCHANGED left
          \/ PollAgain(s) /\ UNCHANGED handoff
  /\ UNCHANGED <<step, snap, ruling, before, historyVars, owner, recorderVars>>

(* The surface fails while verifying: unknown, and there is no observation *)
(* to take a screenshot of.                                                *)
VerifyBlind ==
  /\ pc = "verify"
  /\ handoff' = [handoff EXCEPT !.verdict = "UNKNOWN"]
  /\ Goto("verified")
  /\ UNCHANGED <<page, step, viewVars, historyVars, owner, recorderVars>>

(* _capture after the human: failures are noted and change nothing else. *)
CapturePost ==
  /\ pc = "postshot"
  /\ \/ ArtifactStored  /\ UNCHANGED handoff
     \/ ArtifactRefused /\ handoff' = [handoff EXCEPT !.failed = TRUE]
     \/ UNCHANGED recorderVars /\ handoff' = [handoff EXCEPT !.failed = TRUE]
  /\ Goto("verified")
  /\ UNCHANGED <<page, step, viewVars, historyVars, owner>>

RecordVerified ==
  /\ pc = "verified"
  /\ LateEmit("INTERVENTION_VERIFIED")
  /\ Goto("settle")
  /\ UNCHANGED <<page, step, viewVars, historyVars, owner>>

(* Seeded fault of Verified: the human's word is enough.                   *)
SaidDone == handoff.kind = "DONE"

Verified == handoff.verdict = "VERIFIED"

ByHuman == [Current EXCEPT !.byHuman = TRUE]

(* Seeded fault of Settle: the human's DONE restores automation whatever   *)
(* became of the evidence.                                                 *)
SettleUnrecorded ==
  /\ pc = "settle"
  /\ \/ ~Verified /\ FailNoRetry("UNKNOWN_COMMIT_STATE")
     \/ /\ Verified
        /\ \/ handoff.kind = "ABORT" /\ Stop("FAILURE", "INTERVENTION_ABANDONED", "no", ByHuman)
           \/ /\ handoff.kind = "DONE"
              /\ pc' = "restore"
              /\ steps' = [steps EXCEPT ![step] = ByHuman]
              /\ UNCHANGED <<outputs, result>>
  /\ UNCHANGED <<page, step, viewVars, handoff, historyVars, owner, recorderVars>>

(* What the verdict, the evidence and the hand-back amount to, in this     *)
(* order.                                                                  *)
Settle ==
  /\ pc = "settle"
  /\ \/ ~Verified /\ FailNoRetry("UNKNOWN_COMMIT_STATE")
     \/ /\ Verified
        /\ \/ handoff.failed /\ Stop("FAILURE", "EVIDENCE_ERROR", "no", ByHuman)
           \/ /\ ~handoff.failed /\ handoff.kind = "ABORT"
              /\ Stop("FAILURE", "INTERVENTION_ABANDONED", "no", ByHuman)
           \/ /\ ~handoff.failed /\ handoff.kind = "DONE"
              /\ pc' = "restore"
              /\ steps' = [steps EXCEPT ![step] = ByHuman]
              /\ UNCHANGED <<outputs, result>>
  /\ UNCHANGED <<page, step, viewVars, handoff, historyVars, owner, recorderVars>>

RestoreControl ==
  /\ pc = "restore"
  /\ Restore
  /\ LateEmit("CONTROL_TRANSFERRED")
  /\ \/ handoff'.failed  /\ Fail("EVIDENCE_ERROR")
     \/ ~handoff'.failed /\ CompleteStep(Current) /\ UNCHANGED outputs
  /\ UNCHANGED <<page, step, viewVars, historyVars>>

------------------------------------------------------------------------------
(* Ending: _record_terminal, then end_run *)

RecorderGivenUp == ~rec.active \/ rec.failed

(* Once evidence has failed nothing more is written. *)
SkipTerminal ==
  /\ pc = "terminal" /\ RecorderGivenUp
  /\ Goto("ending")
  /\ UNCHANGED <<page, step, viewVars, handoff, historyVars, owner, recorderVars>>

(* Seeded fault of Unproven: the result stands without its proof.          *)
StandsUnproven == Goto("ending")

(* A run whose proof could not be written is not a proven run. *)
Unproven == /\ pc' = "ending"
            /\ result' = [status |-> "FAILURE", code |-> "EVIDENCE_ERROR", step |-> 0,
                          retry |-> "unstated"]
            /\ UNCHANGED <<steps, outputs>>

ReportOutcome ==
  /\ pc = "terminal" /\ ~RecorderGivenUp /\ result.status = "BUSINESS_OUTCOME"
  /\ \/ Written("BUSINESS_OUTCOME")    /\ Goto("closing")
     \/ NotWritten("BUSINESS_OUTCOME") /\ Unproven
  /\ UNCHANGED <<page, step, viewVars, handoff, historyVars, owner>>

RecordTerminal ==
  /\ \/ pc = "terminal" /\ ~RecorderGivenUp /\ result.status # "BUSINESS_OUTCOME"
     \/ pc = "closing"
  /\ LET type == IF result.status = "FAILURE" THEN "RUN_FAILED" ELSE "RUN_COMPLETED"
     IN  \/ TerminalWritten(type) /\ Goto("ending")
         \/ TerminalFails(type)   /\ Unproven
  /\ UNCHANGED <<page, step, viewVars, handoff, historyVars, owner>>

(* The finally of run(). *)
Finish ==
  /\ pc = "ending"
  /\ EndRun
  /\ Goto("idle")
  /\ UNCHANGED <<page, step, viewVars, handoff, historyVars, owner>>

(* External: the page moves by itself. *)
PageDrifts ==
  /\ page' \in Moves[page]
  /\ UNCHANGED <<pc, step, viewVars, reportVars, handoff, historyVars, owner, recorderVars>>

------------------------------------------------------------------------------
Automated ==
  \/ BeginEvidence \/ Bind \/ BeginStep \/ BeginCheckpoint
  \/ ResolveFails \/ Resolve \/ Decide \/ Locate \/ RecordDispatch \/ Operate
  \/ RecordCompleted \/ RecordFailed \/ RecordOutput
  \/ WaitFails \/ AwaitPostcondition \/ AwaitCheckpoint

Handover ==
  \/ ObservePre \/ ObservePreFails \/ CapturePre \/ RequestIntervention
  \/ EscalateControl \/ AcceptControl
  \/ RecordHandBack \/ ReturnControl \/ Verify \/ VerifyBlind \/ CapturePost
  \/ RecordVerified \/ Settle \/ RestoreControl

Ending == SkipTerminal \/ ReportOutcome \/ RecordTerminal \/ Finish

EngineStep == Automated \/ Handover \/ Ending

Human == HumanActs \/ HandsBack \/ HandlerRaises

Next == StartRun \/ EngineStep \/ Human \/ PageDrifts

Spec == Init /\ [][Next]_vars

(* run() is one thread that only ever blocks on the human: the engine's    *)
(* own steps are weakly fair, the human, the caller and the page are not.  *)
FairSpec == Spec /\ WF_vars(EngineStep)
=============================================================================
