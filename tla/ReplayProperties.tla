-------------------------- MODULE ReplayProperties --------------------------
(***************************************************************************)
(* What a replay run must and must not do, over ReplayEngine's state.      *)
(***************************************************************************)
EXTENDS ReplayEngine

AtGateOrBefore == {"idle", "begin", "bind", "step", "resolve", "gate"}
Acting      == {"locate", "dispatch", "operate", "completed", "failed"}
BeforeHuman == {"pre", "preshot", "request", "escalate"}
AfterHuman  == {"verify", "postshot", "verified", "settle", "restore"}
Labels == AtGateOrBefore \cup Acting \cup BeforeHuman \cup AfterHuman
          \cup {"output", "postcondition", "checkpoint", "accept", "human", "handback",
                "return", "terminal", "closing", "ending"}

Statuses == {"NONE", "SUCCESS", "BUSINESS_OUTCOME", "FAILURE", "RAISED"}
Codes == {"NONE", "KNOWN_OUTCOME", "AMBIGUOUS_TARGET", "TARGET_NOT_FOUND", "POLICY_DENIED",
          "INTERVENTION_REQUIRED", "UNKNOWN_COMMIT_STATE", "INTERVENTION_ABANDONED",
          "POSTCONDITION_FAILED", "INVALID_INPUT", "TRANSFORM_ERROR", "SURFACE_ERROR",
          "EVIDENCE_ERROR"}
StepRecords == [status : {"NOT_REACHED", "COMPLETED", "FAILED", "OUTCOME"},
                dispatched : BOOLEAN, byHuman : BOOLEAN]
Results  == [status : Statuses, code : Codes, step : 0..N, retry : {"unstated", "no"}]
Handoffs == [kind : HandBackKinds \cup {"NONE"},
             verdict : {"NONE", "VERIFIED", "UNKNOWN"}, failed : BOOLEAN]
Rulings  == [decision : Decisions, risk : RiskTiers,
             reason : {"NONE", "CONTROL_NOT_OWNED", "ACTION_TYPE_NOT_ALLOWED",
                       "ORIGIN_NOT_ALLOWED", "ROUTE_NOT_ALLOWED"}]

EventTypes == {"RUN_STARTED", "GATE_DECISION", "ACTION_DISPATCHED", "ACTION_COMPLETED",
               "ACTION_FAILED", "INTERVENTION_REQUESTED", "CONTROL_TRANSFERRED", "HAND_BACK",
               "INTERVENTION_VERIFIED", "BUSINESS_OUTCOME"} \cup TerminalTypes
Events == [type : EventTypes, step : 0..N, seq : Nat \ {0}]

RecStates  == [active : BOOLEAN, step : 0..N, seq : Nat, dispatches : Nat,
               failed : BOOLEAN, terminal : BOOLEAN]
SinkStates == [open : BOOLEAN, buffer : Seq(Events)]

(* The types of the engine's state; the sink and the log are the recorder's *)
(* (RecorderProtocol).                                                     *)
EngineTypeOK ==
  /\ page \in Pages /\ pc \in Labels /\ step \in 0..Checkpoint
  /\ snap \in Snapshots /\ left \in 0..Ticks /\ ruling \in Rulings /\ before \in Nat
  /\ steps \in [StepIds -> StepRecords] /\ outputs \subseteq StepIds /\ result \in Results
  /\ handoff \in Handoffs
  /\ attempts \in [StepIds -> Nat] /\ humanDid \subseteq StepIds
  /\ owner \in OwnerStates /\ startedAs \in OwnerStates

RecorderTypeOK == rec \in RecStates /\ log \in Seq(Events) /\ sink \in SinkStates

TypeOK == EngineTypeOK /\ RecorderTypeOK

------------------------------------------------------------------------------
(* Events of step i in the file. *)
LogHas(type, i) == \E k \in DOMAIN log : log[k].type = type /\ log[k].step = i

Returned == pc = "idle" /\ result.status # "NONE"

(* Only the control owner operates the browser: no driver operation while  *)
(* the human has, is about to get, or is giving back control, and only     *)
(* after the gate allowed this very action.                                *)
ExclusiveOwnership ==
  [][\A i \in StepIds : attempts'[i] > attempts[i] =>
       /\ owner = "AUTOMATION" /\ ruling.decision = "ALLOW" /\ i = step]_vars

(* A step the artifact declares IRREVERSIBLE is never operated by          *)
(* automation, whatever policy says of the page it is on.                  *)
IrreversibleNeverAutomated ==
  \A i \in StepIds : Plan[i].declared = "IRREVERSIBLE" => attempts[i] = 0

LiveRisk == RequestRisk(Policy, RequestOn(page))

(* When automation nevertheless operates what policy, had it seen the live *)
(* page, calls IRREVERSIBLE, the page is not the one that was observed.    *)
IrreversibleOnlyUnseen ==
  [][pc = "operate" /\ attempts' # attempts /\ Act.action # "NAVIGATE"
       /\ LiveRisk = "IRREVERSIBLE" => page # snap.url]_vars

(* The write-ahead rule: a driver operation has its ACTION_DISPATCHED in    *)
(* the file, whatever failed afterwards.                                   *)
WriteAhead == \A i \in StepIds : attempts[i] > 0 => LogHas("ACTION_DISPATCHED", i)

(* A returned result says of every step whether the driver was asked to do *)
(* it, exactly: on success, and on every path where a driver call or a     *)
(* write failed at any point.                                              *)
DispatchedIsTrue ==
  Returned /\ result.status # "RAISED" =>
    \A i \in StepIds : steps[i].dispatched <=> attempts[i] = 1

(* _assert_dispatch_recorded never raises: at the assertion the steps      *)
(* marked dispatched are as many as the recorder counted.                  *)
AssertionHolds ==
  pc \in {"output", "postcondition"} =>
    rec.dispatches = Cardinality({i \in StepIds : steps[i].dispatched})

(* What SUCCESS stands on: the file is complete, from RUN_STARTED to       *)
(* RUN_COMPLETED, it holds each step's completion or human verification,   *)
(* every declared output was recorded, and automation owns the browser.    *)
WellFounded ==
  /\ log[1].type = "RUN_STARTED" /\ log[Len(log)].type = "RUN_COMPLETED"
  /\ \A i \in StepIds : /\ steps[i].status = "COMPLETED"
                        /\ \/ LogHas("ACTION_COMPLETED", i)
                           \/ steps[i].byHuman /\ LogHas("INTERVENTION_VERIFIED", i)
  /\ outputs = {i \in StepIds : Plan[i].action = "READ"}
  /\ owner = "AUTOMATION"

(* What the terminal event of a file allows the caller to have been told.  *)
(* RUN_COMPLETED may be followed by a failing flush, fsync or close, or    *)
(* reach the file only when the run is released: that is an EVIDENCE_ERROR *)
(* and nothing else.                                                       *)
Told(type) ==
  CASE type = "RUN_COMPLETED" -> \/ result.status \in {"SUCCESS", "BUSINESS_OUTCOME"}
                                 \/ result.code = "EVIDENCE_ERROR"
    [] type = "RUN_FAILED"    -> result.status = "FAILURE"
    [] OTHER                  -> TRUE

(* The result and the file agree: SUCCESS is proven by the file, and a     *)
(* file's terminal event says of the run what the caller was told, or the  *)
(* caller was told that the evidence failed.                               *)
SuccessIsProven ==
  Returned => /\ result.status = "SUCCESS" => WellFounded
              /\ \A k \in DOMAIN log : Told(log[k].type)

(* The human is asked only once the request and both transfers are on      *)
(* disk.                                                                   *)
HumanAskedOnRecord ==
  pc = "human" =>
    /\ LogHas("INTERVENTION_REQUESTED", step)
    /\ Cardinality({k \in DOMAIN log : /\ log[k].type = "CONTROL_TRANSFERRED"
                                       /\ log[k].step = step}) = 2

(* Automation gets control back in one way only: the step was verified, the *)
(* human said DONE, and the verdict is on disk.                            *)
RestoreOnlyVerified ==
  [][owner # "AUTOMATION" /\ owner' = "AUTOMATION" =>
       /\ handoff.verdict = "VERIFIED" /\ handoff.kind = "DONE"
       /\ steps[step].byHuman
       /\ LogHas("INTERVENTION_VERIFIED", step)]_vars

(* What the human did is not forgotten when a run concludes in failure: the *)
(* step is reported as done by the human, or the caller is told not to     *)
(* retry.  (Until the terminal event: see PostHumanEvidenceErrorNotRetried.) *)
HumanActNotForgotten ==
  pc = "terminal" /\ result.status = "FAILURE" =>
    \A i \in humanDid : steps[i].byHuman \/ result.retry = "no"

(* An owner left by an earlier run with the human stays there: later runs  *)
(* operate nothing and ask nobody.                                         *)
StuckOwnerBlocks ==
  startedAs # "AUTOMATION" => /\ owner = startedAs
                              /\ \A i \in StepIds : attempts[i] = 0
                              /\ humanDid = {}

(* Control goes round one cycle, and every edge has one event (which names *)
(* it; here their number does): the owner after n transfers.               *)
OwnerCycle == <<"AUTOMATION", "PENDING_HUMAN", "HUMAN", "RETURNING">>
OwnerAfter(n) == OwnerCycle[(n % 4) + 1]
OnFile == Count("CONTROL_TRANSFERRED")

(* The file of a run that began with automation in control shows who       *)
(* controls the browser.  The owner moves before its event is written, so  *)
(* it may be ahead of the file: by one edge at most, however many          *)
(* interventions the run had and whatever failed, only once evidence has   *)
(* failed, and never in a file that reached its terminal event.            *)
ControlOnRecord ==
  startedAs = "AUTOMATION" /\ pc # "begin" =>
    \/ owner = OwnerAfter(OnFile)
    \/ /\ owner = OwnerAfter(OnFile + 1)
       /\ rec.failed \/ ~rec.active
       /\ \A k \in DOMAIN log : log[k].type \notin TerminalTypes

(* The contract of a run, read off the engine's state. *)
DoneBy(i) == CASE attempts[i] = 0 /\ ~steps[i].byHuman -> "nobody"
               [] attempts[i] = 1 /\ ~steps[i].byHuman -> "automation"
               [] attempts[i] = 0 /\ steps[i].byHuman  -> "human"
               [] OTHER                                -> "repeated"

Contract == INSTANCE RunContract WITH
  StepCount    <- N,
  Irreversible <- {i \in StepIds : Plan[i].declared = "IRREVERSIBLE"},
  doer         <- [i \in StepIds |-> DoneBy(i)],
  verdict      <- IF pc = "idle" THEN result.status ELSE "RUNNING"

(* Each run does every step at most once, in order, leaves the             *)
(* irreversible ones to the human and succeeds only when all are done.     *)
FulfilsContract == Contract!ContractSpec

(* A run that is not waiting for its human ends, or gets to where it waits: *)
(* every window is bounded and nothing is retried for ever.                *)
RunsEnd == pc \notin {"idle", "human"} ~> pc \in {"idle", "human"}

(* "safe_to_retry: False when an irreversible action may have happened ...  *)
(* (UNKNOWN_COMMIT_STATE, INTERVENTION_ABANDONED, post-human               *)
(* EVIDENCE_ERROR)" (result.py).  Refuted: when the event of the restore   *)
(* edge, or the terminal event, cannot be written the field is unstated.   *)
PostHumanEvidenceErrorNotRetried ==
  Returned /\ result.code = "EVIDENCE_ERROR" /\ humanDid # {} => result.retry = "no"
=============================================================================
