---------------------------- MODULE ReplayProofs ----------------------------
(***************************************************************************)
(* Theorems about ReplayEngine, for every plan, site, policy and window.   *)
(***************************************************************************)
EXTENDS ReplayInvariant, ActionGateProofs, FiniteSetTheorems, SequenceTheorems

LEMMA SeqElement ==
  ASSUME NEW S, NEW s \in Seq(S), NEW i \in DOMAIN s
  PROVE  s[i] \in S
<1>1. DOMAIN s = 1..Len(s)
  OBVIOUS
<1>2. QED BY <1>1

LEMMA PlanFacts ==
  /\ N \in Nat \ {0} /\ StepIds = 1..N /\ Checkpoint = N + 1 /\ Checkpoint \in Nat
  /\ \A i \in StepIds : /\ Plan[i].action \in ActionTypes
                        /\ Plan[i].dest \in Pages
                        /\ Plan[i].declared \in RiskTiers
<1> DEFINE S == [action : ActionTypes, dest : Pages, target : STRING, declared : RiskTiers]
<1>1. Plan \in Seq(S) /\ Plan # <<>>
  BY PlanAssumption
<1>2. N \in Nat \ {0} /\ StepIds = 1..N /\ DOMAIN Plan = 1..N
  BY <1>1 DEF N, StepIds
<1> HIDE DEF S
<1>3. \A i \in StepIds : Plan[i] \in S
  BY <1>1, <1>2, SeqElement
<1>4. QED BY <1>2, <1>3 DEF Checkpoint, S

------------------------------------------------------------------------------
(* The recorder's part of the type invariant. *)

LEMMA StampType ==
  ASSUME NEW r \in RecStates, NEW type \in EventTypes
  PROVE  Stamp(r, type) \in Events
BY DEF Stamp, Events, RecStates

(* The states the recorder's assignments lead to. *)
LEMMA RecUpdates ==
  ASSUME NEW r \in RecStates, NEW s \in 0..N
  PROVE  /\ [r EXCEPT !.seq = @ + 1] \in RecStates
         /\ [r EXCEPT !.seq = @ + 1, !.failed = TRUE] \in RecStates
         /\ [r EXCEPT !.seq = @ + 1, !.dispatches = @ + 1] \in RecStates
         /\ [r EXCEPT !.seq = @ + 1, !.terminal = TRUE] \in RecStates
         /\ [r EXCEPT !.seq = @ + 1, !.failed = TRUE, !.terminal = TRUE] \in RecStates
         /\ [r EXCEPT !.seq = 1] \in RecStates
         /\ [r EXCEPT !.seq = 1, !.failed = TRUE] \in RecStates
         /\ [r EXCEPT !.failed = TRUE] \in RecStates
         /\ [r EXCEPT !.step = s] \in RecStates
<1>0. r.seq + 1 \in Nat /\ r.dispatches + 1 \in Nat
  BY DEF RecStates
<1>1. [r EXCEPT !.seq = @ + 1] \in RecStates
  BY <1>0 DEF RecStates
<1>2. [r EXCEPT !.seq = @ + 1, !.failed = TRUE] \in RecStates
  BY <1>0 DEF RecStates
<1>3. [r EXCEPT !.seq = @ + 1, !.dispatches = @ + 1] \in RecStates
  BY <1>0 DEF RecStates
<1>4. [r EXCEPT !.seq = @ + 1, !.terminal = TRUE] \in RecStates
  BY <1>0 DEF RecStates
<1>5. [r EXCEPT !.seq = @ + 1, !.failed = TRUE, !.terminal = TRUE] \in RecStates
  BY <1>0 DEF RecStates
<1>6. [r EXCEPT !.seq = 1] \in RecStates
  BY <1>0 DEF RecStates
<1>7. [r EXCEPT !.seq = 1, !.failed = TRUE] \in RecStates
  BY <1>0 DEF RecStates
<1>8. [r EXCEPT !.failed = TRUE] \in RecStates
  BY <1>0 DEF RecStates
<1>9. [r EXCEPT !.step = s] \in RecStates
  BY <1>0 DEF RecStates
<1>10. QED BY <1>1, <1>2, <1>3, <1>4, <1>5, <1>6, <1>7, <1>8, <1>9

LEMMA WriteFailsType ==
  ASSUME NEW b \in Seq(Events), NEW e \in Events, WriteFails(b, e)
  PROVE  log' \in Seq(Events) /\ sink' \in SinkStates
<1>1. <<>> \in Seq(Events) /\ <<e>> \in Seq(Events) /\ Append(b, e) \in Seq(Events)
  OBVIOUS
<1>2. Opened \in SinkStates /\ [Opened EXCEPT !.buffer = <<e>>] \in SinkStates
  BY <1>1 DEF Opened, SinkStates
<1>3. QED BY <1>1, <1>2 DEF WriteFails

(* Every call of the recorder keeps the types of its state. *)
LEMMA RecorderTyped ==
  ASSUME RecorderTypeOK, NEW type \in EventTypes, NEW t \in TerminalTypes, NEW s \in 0..N,
         \/ Written(type) \/ NotWritten(type) \/ DispatchWritten \/ DispatchNotWritten
         \/ BeginWritten(type) \/ BeginFails(type) \/ SetStep(s)
         \/ ArtifactStored \/ ArtifactRefused
         \/ TerminalWritten(t) \/ TerminalFails(t) \/ EndRun \/ UNCHANGED recorderVars
  PROVE  RecorderTypeOK'
<1>0. /\ TerminalTypes \subseteq EventTypes /\ "ACTION_DISPATCHED" \in EventTypes
      /\ <<>> \in Seq(Events)
      /\ rec \in RecStates /\ log \in Seq(Events) /\ sink \in SinkStates
  BY DEF EventTypes, RecorderTypeOK
<1>1. NoRun \in RecStates /\ FreshRun \in RecStates /\ Unstamped \in RecStates
  <2>1. 0 \in 0..N
    BY PlanFacts
  <2>2. QED BY <1>0, <2>1 DEF NoRun, FreshRun, Unstamped, NoStep, RecStates
<1>2. \A x \in EventTypes : /\ Stamp(rec, x) \in Events /\ Stamp(FreshRun, x) \in Events
                            /\ Stamp(Unstamped, x) \in Events
                            /\ Append(log, Stamp(rec, x)) \in Seq(Events)
                            /\ Append(log, Stamp(Unstamped, x)) \in Seq(Events)
                            /\ <<Stamp(FreshRun, x)>> \in Seq(Events)
  <2> SUFFICES ASSUME NEW x \in EventTypes
               PROVE  /\ Stamp(rec, x) \in Events /\ Stamp(FreshRun, x) \in Events
                      /\ Stamp(Unstamped, x) \in Events
                      /\ Append(log, Stamp(rec, x)) \in Seq(Events)
                      /\ Append(log, Stamp(Unstamped, x)) \in Seq(Events)
                      /\ <<Stamp(FreshRun, x)>> \in Seq(Events)
    OBVIOUS
  <2>1. /\ Stamp(rec, x) \in Events /\ Stamp(FreshRun, x) \in Events
        /\ Stamp(Unstamped, x) \in Events
    BY <1>0, <1>1, StampType
  <2>2. QED BY <1>0, <2>1
<1>3. Closed \in SinkStates /\ Opened \in SinkStates
  BY DEF Closed, Opened, SinkStates
<1> USE DEF RecorderTypeOK
<1>5. CASE Written(type)
  BY <1>0, <1>2, <1>5, RecUpdates DEF Written
<1>6. \A x \in EventTypes : NotWritten(x) => RecorderTypeOK'
  <2> SUFFICES ASSUME NEW x \in EventTypes, NotWritten(x) PROVE RecorderTypeOK'
    OBVIOUS
  <2>1. CASE UNCHANGED recorderVars
    BY <1>0, <2>1 DEF recorderVars
  <2>2. CASE WriteFails(log, Stamp(rec, x)) /\ rec' = [rec EXCEPT !.seq = @ + 1, !.failed = TRUE]
    BY <1>0, <1>2, <2>2, WriteFailsType, RecUpdates
  <2>3. QED BY <2>1, <2>2 DEF NotWritten
<1>7. CASE DispatchWritten
  BY <1>0, <1>2, <1>7, RecUpdates DEF DispatchWritten
<1>8. CASE BeginWritten(type)
  BY <1>1, <1>2, <1>3, <1>8, RecUpdates DEF BeginWritten
<1>9. CASE BeginFails(type)
  <2>1. CASE UNCHANGED recorderVars
    BY <1>0, <2>1 DEF recorderVars
  <2>2. CASE UNCHANGED rec /\ log' = <<>> /\ sink' = Closed
    BY <1>0, <1>3, <2>2
  <2>3. CASE rec' = [FreshRun EXCEPT !.seq = 1, !.failed = TRUE]
             /\ WriteFails(<<>>, Stamp(FreshRun, type))
    BY <1>0, <1>1, <1>2, <2>3, WriteFailsType, RecUpdates
  <2>4. QED BY <1>9, <2>1, <2>2, <2>3 DEF BeginFails
<1>10. CASE SetStep(s)
  BY <1>0, <1>10, RecUpdates DEF SetStep
<1>11. CASE ArtifactStored \/ ArtifactRefused
  <2>1. CASE UNCHANGED recorderVars
    BY <1>0, <2>1 DEF recorderVars
  <2>2. CASE rec' = [rec EXCEPT !.failed = TRUE] /\ UNCHANGED <<log, sink>>
    BY <1>0, <2>2, RecUpdates
  <2>3. QED BY <1>11, <2>1, <2>2 DEF ArtifactStored, ArtifactRefused
<1>12. CASE TerminalWritten(t)
  BY <1>0, <1>1, <1>2, <1>3, <1>12, RecUpdates DEF TerminalWritten
<1>13. CASE TerminalFails(t)
  <2>1. CASE rec' = Unstamped /\ UNCHANGED <<log, sink>>
    BY <1>0, <1>1, <2>1
  <2>2. CASE /\ rec' = [Unstamped EXCEPT !.seq = @ + 1, !.failed = TRUE]
             /\ WriteFails(log, Stamp(Unstamped, t))
    BY <1>0, <1>1, <1>2, <2>2, WriteFailsType, RecUpdates
  <2>3. CASE /\ rec' = [Unstamped EXCEPT !.seq = @ + 1, !.failed = TRUE, !.terminal = TRUE]
             /\ log' = Append(log, Stamp(Unstamped, t)) /\ sink' = Closed
    BY <1>0, <1>1, <1>2, <1>3, <2>3, RecUpdates
  <2>4. QED BY <1>13, <2>1, <2>2, <2>3 DEF TerminalFails
<1>14. CASE EndRun
  <2>1. log \o sink.buffer \in Seq(Events)
    BY <1>0 DEF SinkStates
  <2>2. QED BY <1>0, <1>1, <1>3, <1>14, <2>1 DEF EndRun, recorderVars
<1>15. CASE UNCHANGED recorderVars
  BY <1>0, <1>15 DEF recorderVars
<1>16. QED BY <1>0, <1>5, <1>6, <1>7, <1>8, <1>9, <1>10, <1>11, <1>12, <1>13, <1>14, <1>15
           DEF DispatchNotWritten

------------------------------------------------------------------------------
(* The engine's part of the type invariant. *)

LEMMA EventFacts ==
  /\ TerminalTypes \subseteq EventTypes /\ {"RUN_COMPLETED", "RUN_FAILED"} = TerminalTypes
  /\ {"RUN_STARTED", "GATE_DECISION", "ACTION_DISPATCHED", "ACTION_COMPLETED",
      "ACTION_FAILED", "INTERVENTION_REQUESTED", "CONTROL_TRANSFERRED", "HAND_BACK",
      "INTERVENTION_VERIFIED", "BUSINESS_OUTCOME"} \subseteq EventTypes
BY DEF EventTypes, TerminalTypes

Reported == /\ pc \in Labels
            /\ steps \in [StepIds -> StepRecords] /\ outputs \subseteq StepIds
            /\ result \in Results

LEMMA StopTyped ==
  ASSUME EngineTypeOK, NEW status \in {"BUSINESS_OUTCOME", "FAILURE"}, NEW code \in Codes,
         NEW retry \in {"unstated", "no"}, NEW r \in StepRecords,
         Stop(status, code, retry, r)
  PROVE  Reported'
<1>1. pc' \in Labels
  BY DEF Stop, Labels
<1>2. result' \in Results
  <2>1. (IF step \in StepIds THEN step ELSE 0) \in 0..N
    BY PlanFacts DEF EngineTypeOK
  <2>2. QED BY <2>1 DEF Stop, Results, Statuses
<1>3. steps' \in [StepIds -> StepRecords]
  <2>1. \A x \in {"OUTCOME", "FAILED"} : [r EXCEPT !.status = x] \in StepRecords
    BY DEF StepRecords
  <2>2. QED BY <2>1 DEF Stop, EngineTypeOK
<1>4. outputs' \subseteq StepIds
  BY DEF Stop, EngineTypeOK
<1>5. QED BY <1>1, <1>2, <1>3, <1>4 DEF Reported

(* Every way a call ends the run keeps the types. *)
LEMMA EndsTyped ==
  ASSUME EngineTypeOK, NEW code \in Codes, NEW flag \in BOOLEAN,
         \/ Fail(code) \/ FailNoRetry(code) \/ FailMarked(code, flag) \/ Outcome
         \/ Stop("FAILURE", code, "no", ByHuman)
  PROVE  Reported'
<1>1. /\ Current \in StepRecords /\ [Current EXCEPT !.dispatched = flag] \in StepRecords
      /\ ByHuman \in StepRecords
  <2>1. Current \in StepRecords
    BY DEF Current, EngineTypeOK, NotReached, StepRecords
  <2>2. QED BY <2>1 DEF ByHuman, StepRecords
<1>2. "KNOWN_OUTCOME" \in Codes
  BY DEF Codes
<1>3. QED BY <1>1, <1>2, StopTyped DEF Fail, FailNoRetry, FailMarked, Outcome

LEMMA GotoTyped ==
  ASSUME EngineTypeOK, NEW label \in Labels, Goto(label)
  PROVE  Reported'
BY DEF Goto, reportVars, EngineTypeOK, Reported

LEMMA CompleteTyped ==
  ASSUME EngineTypeOK, step \in StepIds, CompleteStep(Current), outputs' \subseteq StepIds
  PROVE  Reported'
<1>1. [Current EXCEPT !.status = "COMPLETED"] \in StepRecords
  BY DEF Current, EngineTypeOK, StepRecords
<1>2. QED BY <1>1 DEF CompleteStep, EngineTypeOK, Reported, Labels, AtGateOrBefore

(* The gate's answer to the engine's request. *)
LEMMA RulingTyped ==
  ASSUME step \in StepIds, owner \in OwnerStates
  PROVE  LET a == Authorize(Policy, IsAutomation, Request)
         IN  /\ a \in Rulings
             /\ a.decision # "DENY" => owner = "AUTOMATION"
             /\ a.decision = "ALLOW" => Plan[step].declared # "IRREVERSIBLE"
<1>1. /\ Request.action = Plan[step].action /\ Request.declared = Plan[step].declared
      /\ Request.action \in ActionTypes /\ Request.declared \in RiskTiers
  BY PlanFacts DEF Request, RequestOn, Act
<1>2. IsAutomation \in BOOLEAN /\ (IsAutomation <=> owner = "AUTOMATION")
  BY DEF IsAutomation
<1>3. DenyReason(Policy, IsAutomation, Request)
        \in {"NONE", "CONTROL_NOT_OWNED", "ACTION_TYPE_NOT_ALLOWED",
             "ORIGIN_NOT_ALLOWED", "ROUTE_NOT_ALLOWED"}
  BY DEF DenyReason
<1>4. RequestRisk(Policy, Request) \in RiskTiers
  BY <1>1, <1>2, PolicyAssumption, AuthorizeFacts
<1>5. Authorize(Policy, IsAutomation, Request) \in Rulings
  BY <1>3, <1>4 DEF Authorize, Rulings, Decisions
<1>6. QED BY <1>1, <1>2, <1>5, PolicyAssumption, AuthorizeFacts

LEMMA LabelFacts ==
  /\ {"idle", "begin", "bind", "step", "resolve", "gate", "locate", "dispatch", "operate",
      "completed", "failed", "output", "postcondition", "checkpoint", "pre", "preshot",
      "request", "escalate", "accept", "human", "handback", "return", "verify", "postshot",
      "verified", "settle", "restore", "terminal", "closing", "ending"} = Labels
BY DEF Labels, AtGateOrBefore, Acting, BeforeHuman, AfterHuman

LEMMA EventTyped ==
  ASSUME RecorderTypeOK, NEW type \in EventTypes, Written(type) \/ NotWritten(type)
  PROVE  RecorderTypeOK'
<1>1. "RUN_FAILED" \in TerminalTypes /\ 0 \in 0..N
  BY EventFacts, PlanFacts
<1>2. QED BY <1>1, RecorderTyped

LEMMA DispatchTyped ==
  ASSUME RecorderTypeOK, DispatchWritten \/ DispatchNotWritten
  PROVE  RecorderTypeOK'
<1>1. "RUN_FAILED" \in TerminalTypes /\ 0 \in 0..N /\ "ACTION_DISPATCHED" \in EventTypes
  BY EventFacts, PlanFacts
<1>2. QED BY <1>1, RecorderTyped

LEMMA TerminalTyped ==
  ASSUME RecorderTypeOK, NEW t \in TerminalTypes, TerminalWritten(t) \/ TerminalFails(t)
  PROVE  RecorderTypeOK'
<1>1. 0 \in 0..N /\ "ACTION_DISPATCHED" \in EventTypes
  BY EventFacts, PlanFacts
<1>2. QED BY <1>1, RecorderTyped

LEMMA EndRunTyped ==
  ASSUME RecorderTypeOK, EndRun
  PROVE  RecorderTypeOK'
<1>1. "RUN_FAILED" \in TerminalTypes /\ 0 \in 0..N /\ "ACTION_DISPATCHED" \in EventTypes
  BY EventFacts, PlanFacts
<1>2. QED BY <1>1, RecorderTyped

LEMMA LateTyped ==
  ASSUME RecorderTypeOK, NEW type \in EventTypes, LateEmit(type)
  PROVE  RecorderTypeOK'
BY EventTyped DEF LateEmit, recorderVars, RecorderTypeOK

(* What is not in the report. *)
Others == /\ page \in Pages /\ step \in 0..Checkpoint
          /\ snap \in Snapshots /\ left \in 0..Ticks /\ ruling \in Rulings /\ before \in Nat
          /\ handoff \in Handoffs
          /\ attempts \in [StepIds -> Nat] /\ humanDid \subseteq StepIds
          /\ owner \in OwnerStates /\ startedAs \in OwnerStates

LEMMA EngineParts == (EngineTypeOK <=> Reported /\ Others) /\ (EngineTypeOK' <=> (Reported /\ Others)')
BY DEF EngineTypeOK, Reported, Others

LEMMA ObserveTyped ==
  ASSUME page \in Pages, NEW s \in Snapshots, Observe(s)
  PROVE  page' \in Pages
BY DEF Observe, Snapshots

(* Beginning a run and its steps. *)
LEMMA BeginTyped ==
  ASSUME TypeOK, StepPlace,
         StartRun \/ BeginEvidence \/ Bind \/ BeginStep \/ BeginCheckpoint
  PROVE  TypeOK'
<1> USE EngineParts, PlanFacts
<1>0. EngineTypeOK /\ RecorderTypeOK /\ Reported /\ Others
  BY DEF TypeOK
<1>1. CASE StartRun
  <2>1. Reported'
    BY <1>0, <1>1, LabelFacts DEF StartRun, Reported, NotReached, NoResult, StepRecords,
                                  Results, Statuses, Codes
  <2>2. Others'
    BY <1>0, <1>1, ConfigAssumption DEF StartRun, Others, viewVars, NoHandoff, Handoffs
  <2>3. RecorderTypeOK'
    BY <1>0, <1>1 DEF StartRun, recorderVars, RecorderTypeOK
  <2>4. QED BY <2>1, <2>2, <2>3 DEF TypeOK
<1>2. CASE BeginEvidence
  <2>1. Reported'
    BY <1>0, <1>2, LabelFacts, GotoTyped, EndsTyped DEF BeginEvidence, Codes
  <2>2. Others'
    BY <1>0, <1>2 DEF BeginEvidence, Others, viewVars, historyVars
  <2>3. RecorderTypeOK'
    BY <1>0, <1>2, EventFacts, RecorderTyped DEF BeginEvidence
  <2>4. QED BY <2>1, <2>2, <2>3 DEF TypeOK
<1>3. CASE Bind
  <2>1. Reported'
    BY <1>0, <1>3, LabelFacts, GotoTyped, EndsTyped DEF Bind, Codes
  <2>2. Others'
    BY <1>0, <1>3 DEF Bind, Others, viewVars, historyVars
  <2>3. RecorderTypeOK'
    BY <1>0, <1>3 DEF Bind, recorderVars, RecorderTypeOK
  <2>4. QED BY <2>1, <2>2, <2>3 DEF TypeOK
<1>4. CASE BeginStep
  <2>0. step + 1 \in StepIds /\ step + 1 \in 0..N
    BY <1>0, <1>4 DEF BeginStep, StepPlace
  <2>1. Reported'
    BY <1>0, <1>4, LabelFacts, GotoTyped DEF BeginStep
  <2>2. Others'
    BY <1>0, <1>4, <2>0 DEF BeginStep, Others, historyVars
  <2>3. RecorderTypeOK'
    BY <1>0, <1>4, <2>0, EventFacts, RecorderTyped DEF BeginStep
  <2>4. QED BY <2>1, <2>2, <2>3 DEF TypeOK
<1>5. CASE BeginCheckpoint
  <2>1. Reported'
    BY <1>0, <1>5, LabelFacts, GotoTyped DEF BeginCheckpoint
  <2>2. Others'
    BY <1>0, <1>5 DEF BeginCheckpoint, Others, historyVars
  <2>3. RecorderTypeOK'
    BY <1>0, <1>5, EventFacts, RecorderTyped DEF BeginCheckpoint, NoStep
  <2>4. QED BY <2>1, <2>2, <2>3 DEF TypeOK
<1>6. QED BY <1>1, <1>2, <1>3, <1>4, <1>5

LEMMA CountedType == CountedSince \in BOOLEAN
BY DEF CountedSince

(* Resolving, the gate and the driver. *)
LEMMA ActTyped ==
  ASSUME TypeOK, StepPlace,
         ResolveFails \/ Resolve \/ Decide \/ Locate \/ RecordDispatch \/ Operate
         \/ RecordCompleted \/ RecordFailed \/ RecordOutput
  PROVE  TypeOK'
<1> USE EngineParts, PlanFacts
<1>0. EngineTypeOK /\ RecorderTypeOK /\ Reported /\ Others
  BY DEF TypeOK
<1>1. CASE ResolveFails
  <2>1. Reported'
    BY <1>0, <1>1, LabelFacts, GotoTyped, EndsTyped DEF ResolveFails, ObserveFails, Codes
  <2>2. Others'
    BY <1>0, <1>1 DEF ResolveFails, Others, ObserveFails, viewVars, historyVars
  <2>3. RecorderTypeOK'
    BY <1>0, <1>1 DEF ResolveFails, ObserveFails, recorderVars, RecorderTypeOK
  <2>4. QED BY <2>1, <2>2, <2>3 DEF TypeOK
<1>2. CASE Resolve
  <2>1. Reported'
    BY <1>0, <1>2, LabelFacts, GotoTyped, EndsTyped DEF Resolve, Codes
  <2>2. Others'
    BY <1>0, <1>2, ObserveTyped, ConfigAssumption DEF Resolve, Others, historyVars
  <2>3. RecorderTypeOK'
    BY <1>0, <1>2 DEF Resolve, recorderVars, RecorderTypeOK
  <2>4. QED BY <2>1, <2>2, <2>3 DEF TypeOK
<1>3. CASE Decide
  <2>1. Reported'
    BY <1>0, <1>3, LabelFacts, GotoTyped, EndsTyped DEF Decide, Obey, Codes
  <2>2. Others'
    <3>1. step \in StepIds /\ owner \in OwnerStates /\ rec.dispatches \in Nat
      BY <1>0, <1>3 DEF Decide, StepPlace, InStep, Others, RecorderTypeOK, RecStates
    <3>2. Authorize(Policy, IsAutomation, Request) \in Rulings
      BY <3>1, RulingTyped
    <3>3. QED BY <1>0, <1>3, <3>1, <3>2 DEF Decide, Others, historyVars
  <2>3. RecorderTypeOK'
    BY <1>0, <1>3, EventFacts, EventTyped DEF Decide
  <2>4. QED BY <2>1, <2>2, <2>3 DEF TypeOK
<1>4. CASE Locate
  <2>1. Reported'
    BY <1>0, <1>4, LabelFacts, GotoTyped, EndsTyped, CountedType DEF Locate, Codes
  <2>2. Others'
    BY <1>0, <1>4 DEF Locate, Others, viewVars, historyVars
  <2>3. RecorderTypeOK'
    BY <1>0, <1>4 DEF Locate, recorderVars, RecorderTypeOK
  <2>4. QED BY <2>1, <2>2, <2>3 DEF TypeOK
<1>5. CASE RecordDispatch
  <2>1. Reported'
    BY <1>0, <1>5, LabelFacts, GotoTyped, EndsTyped DEF RecordDispatch, Codes
  <2>2. Others'
    BY <1>0, <1>5 DEF RecordDispatch, Others, viewVars, historyVars
  <2>3. RecorderTypeOK'
    BY <1>0, <1>5, EventFacts, DispatchTyped DEF RecordDispatch
  <2>4. QED BY <2>1, <2>2, <2>3 DEF TypeOK
<1>6. CASE Operate
  <2>1. Reported'
    BY <1>0, <1>6, LabelFacts, GotoTyped, EndsTyped DEF Operate, Codes
  <2>2. Others'
    <3>1. step \in StepIds
      BY <1>0, <1>6 DEF Operate, StepPlace, InStep, Acting
    <3>2. page' \in Pages
      <4>1. Leads[step] \in [Pages -> SUBSET Pages]
        BY <3>1, WorldAssumption
      <4>2. QED BY <1>0, <1>6, <4>1 DEF Operate, Others
    <3>3. attempts' \in [StepIds -> Nat]
      BY <1>0, <1>6, <3>1 DEF Operate, Others
    <3>4. QED BY <1>0, <1>6, <3>2, <3>3 DEF Operate, Others, viewVars
  <2>3. RecorderTypeOK'
    BY <1>0, <1>6 DEF Operate, recorderVars, RecorderTypeOK
  <2>4. QED BY <2>1, <2>2, <2>3 DEF TypeOK
<1>7. CASE RecordCompleted
  <2>1. Reported'
    <3>1. CASE FailMarked("EVIDENCE_ERROR", TRUE)
      <4>1. "EVIDENCE_ERROR" \in Codes /\ TRUE \in BOOLEAN
        BY DEF Codes
      <4> QED BY <1>0, <3>1, <4>1, EndsTyped
    <3>2. CASE /\ steps' = [steps EXCEPT ![step].dispatched = TRUE]
               /\ pc' \in {"output", "postcondition"}
               /\ UNCHANGED <<outputs, result>>
      <4>1. \A r \in StepRecords : [r EXCEPT !.dispatched = TRUE] \in StepRecords
        BY DEF StepRecords
      <4>2. steps' \in [StepIds -> StepRecords]
        BY <1>0, <3>2, <4>1 DEF Reported
      <4>3. pc' \in Labels
        BY <3>2, LabelFacts
      <4> QED BY <1>0, <3>2, <4>2, <4>3 DEF Reported
    <3> QED BY <1>7, <3>1, <3>2 DEF RecordCompleted
  <2>2. Others'
    BY <1>0, <1>7, ConfigAssumption DEF RecordCompleted, Others, historyVars
  <2>3. RecorderTypeOK'
    BY <1>0, <1>7, EventFacts, EventTyped DEF RecordCompleted
  <2>4. QED BY <2>1, <2>2, <2>3 DEF TypeOK
<1>8. CASE RecordFailed
  <2>1. Reported'
    BY <1>0, <1>8, LabelFacts, GotoTyped, EndsTyped, CountedType DEF RecordFailed, Codes
  <2>2. Others'
    BY <1>0, <1>8 DEF RecordFailed, Others, viewVars, historyVars
  <2>3. RecorderTypeOK'
    BY <1>0, <1>8, EventFacts, EventTyped DEF RecordFailed
  <2>4. QED BY <2>1, <2>2, <2>3 DEF TypeOK
<1>9. CASE RecordOutput
  <2>1. Reported'
    <3>1. step \in StepIds
      BY <1>9 DEF RecordOutput, StepPlace, InStep
    <3>2. CASE Fail("SURFACE_ERROR") \/ Fail("TRANSFORM_ERROR")
      <4>1. {"SURFACE_ERROR", "TRANSFORM_ERROR"} \subseteq Codes
        BY DEF Codes
      <4>2. TRUE \in BOOLEAN
        OBVIOUS
      <4> QED BY <1>0, <3>2, <4>1, <4>2, EndsTyped
    <3>3. CASE CompleteStep(Current) /\ outputs' = outputs \cup {step}
      <4>1. outputs' \subseteq StepIds
        BY <1>0, <3>1, <3>3 DEF Reported
      <4> QED BY <1>0, <3>1, <3>3, <4>1, CompleteTyped
    <3> QED BY <1>9, <3>2, <3>3 DEF RecordOutput
  <2>2. Others'
    BY <1>0, <1>9 DEF RecordOutput, Others, viewVars, historyVars
  <2>3. RecorderTypeOK'
    BY <1>0, <1>9 DEF RecordOutput, recorderVars, RecorderTypeOK
  <2>4. QED BY <2>1, <2>2, <2>3 DEF TypeOK
<1>10. QED BY <1>1, <1>2, <1>3, <1>4, <1>5, <1>6, <1>7, <1>8, <1>9

(* Waiting for a condition. *)
LEMMA AwaitTyped ==
  ASSUME TypeOK, StepPlace,
         WaitFails \/ AwaitPostcondition \/ AwaitCheckpoint
  PROVE  TypeOK'
<1> USE EngineParts, PlanFacts
<1>0. EngineTypeOK /\ RecorderTypeOK /\ Reported /\ Others
  BY DEF TypeOK
<1>1. CASE WaitFails
  <2>1. Reported'
    BY <1>0, <1>1, LabelFacts, GotoTyped, EndsTyped DEF WaitFails, ObserveFails, Codes
  <2>2. Others'
    BY <1>0, <1>1 DEF WaitFails, Others, ObserveFails, viewVars, historyVars
  <2>3. RecorderTypeOK'
    BY <1>0, <1>1 DEF WaitFails, ObserveFails, recorderVars, RecorderTypeOK
  <2>4. QED BY <2>1, <2>2, <2>3 DEF TypeOK
<1>2. CASE AwaitPostcondition
  <2>1. Reported'
    BY <1>0, <1>2, LabelFacts, GotoTyped, EndsTyped, CompleteTyped
       DEF AwaitPostcondition, Await, PollAgain, Codes, Reported, StepPlace, InStep
  <2>2. Others'
    BY <1>0, <1>2, ObserveTyped, ConfigAssumption
       DEF AwaitPostcondition, Others, Await, PollAgain, historyVars
  <2>3. RecorderTypeOK'
    BY <1>0, <1>2 DEF AwaitPostcondition, Await, recorderVars, RecorderTypeOK
  <2>4. QED BY <2>1, <2>2, <2>3 DEF TypeOK
<1>3. CASE AwaitCheckpoint
  <2>1. Reported'
    <3>1. [NoResult EXCEPT !.status = "SUCCESS"] \in Results
      BY DEF NoResult, Results, Statuses, Codes
    <3>2. Succeed => Reported'
      BY <1>0, <3>1, LabelFacts DEF Succeed, Reported
    <3>3. QED BY <1>0, <1>3, <3>2, LabelFacts, GotoTyped, EndsTyped
              DEF AwaitCheckpoint, Await, PollAgain, Codes, Reported
  <2>2. Others'
    BY <1>0, <1>3, ObserveTyped, ConfigAssumption
       DEF AwaitCheckpoint, Others, Await, PollAgain, historyVars
  <2>3. RecorderTypeOK'
    BY <1>0, <1>3 DEF AwaitCheckpoint, Await, recorderVars, RecorderTypeOK
  <2>4. QED BY <2>1, <2>2, <2>3 DEF TypeOK
<1>4. QED BY <1>1, <1>2, <1>3

(* Up to the human. *)
LEMMA AskTyped ==
  ASSUME TypeOK, StepPlace,
         ObservePre \/ ObservePreFails \/ CapturePre \/ RequestIntervention
         \/ EscalateControl \/ AcceptControl
  PROVE  TypeOK'
<1> USE EngineParts, PlanFacts
<1>0. EngineTypeOK /\ RecorderTypeOK /\ Reported /\ Others
  BY DEF TypeOK
<1>1. CASE ObservePre
  <2>1. Reported'
    BY <1>0, <1>1, LabelFacts, GotoTyped, EndsTyped DEF ObservePre, Codes
  <2>2. Others'
    BY <1>0, <1>1, ObserveTyped
       DEF ObservePre, Others, viewVars, historyVars, NoHandoff, Handoffs
  <2>3. RecorderTypeOK'
    BY <1>0, <1>1 DEF ObservePre, recorderVars, RecorderTypeOK
  <2>4. QED BY <2>1, <2>2, <2>3 DEF TypeOK
<1>2. CASE ObservePreFails
  <2>1. Reported'
    BY <1>0, <1>2, LabelFacts, GotoTyped, EndsTyped
       DEF ObservePreFails, ObserveFails, Codes
  <2>2. Others'
    BY <1>0, <1>2 DEF ObservePreFails, Others, ObserveFails, viewVars, historyVars
  <2>3. RecorderTypeOK'
    BY <1>0, <1>2 DEF ObservePreFails, ObserveFails, recorderVars, RecorderTypeOK
  <2>4. QED BY <2>1, <2>2, <2>3 DEF TypeOK
<1>3. CASE CapturePre
  <2>1. Reported'
    BY <1>0, <1>3, LabelFacts, GotoTyped, EndsTyped DEF CapturePre, Codes
  <2>2. Others'
    BY <1>0, <1>3 DEF CapturePre, Others, viewVars, historyVars
  <2>3. RecorderTypeOK'
    BY <1>0, <1>3, EventFacts, RecorderTyped DEF CapturePre
  <2>4. QED BY <2>1, <2>2, <2>3 DEF TypeOK
<1>4. CASE RequestIntervention
  <2>1. Reported'
    BY <1>0, <1>4, LabelFacts, GotoTyped, EndsTyped
       DEF RequestIntervention, EarlyEmit, Codes
  <2>2. Others'
    BY <1>0, <1>4 DEF RequestIntervention, Others, viewVars, historyVars
  <2>3. RecorderTypeOK'
    BY <1>0, <1>4, EventFacts, EventTyped DEF RequestIntervention, EarlyEmit
  <2>4. QED BY <2>1, <2>2, <2>3 DEF TypeOK
<1>5. CASE EscalateControl
  <2>1. Reported'
    BY <1>0, <1>5, LabelFacts, GotoTyped, EndsTyped DEF EscalateControl, EarlyEmit, Codes
  <2>2. Others'
    BY <1>0, <1>5
       DEF EscalateControl, Others, Escalate, Move, Edges, OwnerStates, viewVars,
           historyVars
  <2>3. RecorderTypeOK'
    BY <1>0, <1>5, EventFacts, EventTyped DEF EscalateControl, EarlyEmit
  <2>4. QED BY <2>1, <2>2, <2>3 DEF TypeOK
<1>6. CASE AcceptControl
  <2>1. Reported'
    BY <1>0, <1>6, LabelFacts, GotoTyped, EndsTyped DEF AcceptControl, EarlyEmit, Codes
  <2>2. Others'
    BY <1>0, <1>6
       DEF AcceptControl, Others, Accept, Move, Edges, OwnerStates, viewVars,
           historyVars
  <2>3. RecorderTypeOK'
    BY <1>0, <1>6, EventFacts, EventTyped DEF AcceptControl, EarlyEmit
  <2>4. QED BY <2>1, <2>2, <2>3 DEF TypeOK
<1>7. QED BY <1>1, <1>2, <1>3, <1>4, <1>5, <1>6

(* The human, and the page. *)
LEMMA HumanTyped ==
  ASSUME TypeOK, StepPlace,
         HumanActs \/ HandsBack \/ HandlerRaises \/ PageDrifts
  PROVE  TypeOK'
<1> USE EngineParts, PlanFacts
<1>0. EngineTypeOK /\ RecorderTypeOK /\ Reported /\ Others
  BY DEF TypeOK
<1>1. CASE HumanActs
  <2>1. Reported'
    BY <1>0, <1>1, LabelFacts DEF HumanActs, Reported, reportVars
  <2>2. Others'
    BY <1>0, <1>1, WorldAssumption
       DEF HumanActs, Others, viewVars, StepPlace, InStep, WithHuman
  <2>3. RecorderTypeOK'
    BY <1>0, <1>1 DEF HumanActs, recorderVars, RecorderTypeOK
  <2>4. QED BY <2>1, <2>2, <2>3 DEF TypeOK
<1>2. CASE HandsBack
  <2>1. Reported'
    BY <1>0, <1>2, LabelFacts, GotoTyped DEF HandsBack
  <2>2. Others'
    BY <1>0, <1>2 DEF HandsBack, Others, viewVars, historyVars, Handoffs
  <2>3. RecorderTypeOK'
    BY <1>0, <1>2 DEF HandsBack, recorderVars, RecorderTypeOK
  <2>4. QED BY <2>1, <2>2, <2>3 DEF TypeOK
<1>3. CASE HandlerRaises
  <2>1. Reported'
    BY <1>0, <1>3, LabelFacts
       DEF HandlerRaises, Reported, NoResult, Results, Statuses, Codes
  <2>2. Others'
    BY <1>0, <1>3 DEF HandlerRaises, Others, viewVars, historyVars
  <2>3. RecorderTypeOK'
    BY <1>0, <1>3 DEF HandlerRaises, recorderVars, RecorderTypeOK
  <2>4. QED BY <2>1, <2>2, <2>3 DEF TypeOK
<1>4. CASE PageDrifts
  <2>1. Reported'
    BY <1>0, <1>4, LabelFacts DEF PageDrifts, Reported, reportVars
  <2>2. Others'
    BY <1>0, <1>4, WorldAssumption DEF PageDrifts, Others, viewVars, historyVars
  <2>3. RecorderTypeOK'
    BY <1>0, <1>4 DEF PageDrifts, recorderVars, RecorderTypeOK
  <2>4. QED BY <2>1, <2>2, <2>3 DEF TypeOK
<1>5. QED BY <1>1, <1>2, <1>3, <1>4

(* Back from the human. *)
LEMMA ReturnTyped ==
  ASSUME TypeOK, StepPlace,
         RecordHandBack \/ ReturnControl \/ Verify \/ VerifyBlind \/ CapturePost
         \/ RecordVerified \/ Settle \/ RestoreControl
  PROVE  TypeOK'
<1> USE EngineParts, PlanFacts
<1>0. EngineTypeOK /\ RecorderTypeOK /\ Reported /\ Others
  BY DEF TypeOK
<1>1. CASE RecordHandBack
  <2>1. Reported'
    BY <1>0, <1>1, LabelFacts, GotoTyped, EndsTyped DEF RecordHandBack, Codes
  <2>2. Others'
    BY <1>0, <1>1 DEF RecordHandBack, Others, LateEmit, Handoffs, viewVars, historyVars
  <2>3. RecorderTypeOK'
    BY <1>0, <1>1, EventFacts, LateTyped DEF RecordHandBack
  <2>4. QED BY <2>1, <2>2, <2>3 DEF TypeOK
<1>2. CASE ReturnControl
  <2>1. Reported'
    BY <1>0, <1>2, LabelFacts, GotoTyped, EndsTyped DEF ReturnControl, Codes
  <2>2. Others'
    BY <1>0, <1>2, ConfigAssumption
       DEF ReturnControl, Others, LateEmit, Handoffs, HandBack, Move, Edges, OwnerStates,
           historyVars
  <2>3. RecorderTypeOK'
    BY <1>0, <1>2, EventFacts, LateTyped DEF ReturnControl
  <2>4. QED BY <2>1, <2>2, <2>3 DEF TypeOK
<1>3. CASE Verify
  <2>1. Reported'
    BY <1>0, <1>3, LabelFacts, GotoTyped, EndsTyped DEF Verify, PollAgain, Codes, Reported
  <2>2. Others'
    BY <1>0, <1>3, ObserveTyped, ConfigAssumption
       DEF Verify, Others, PollAgain, Handoffs, historyVars
  <2>3. RecorderTypeOK'
    BY <1>0, <1>3 DEF Verify, recorderVars, RecorderTypeOK
  <2>4. QED BY <2>1, <2>2, <2>3 DEF TypeOK
<1>4. CASE VerifyBlind
  <2>1. Reported'
    BY <1>0, <1>4, LabelFacts, GotoTyped, EndsTyped DEF VerifyBlind, Codes
  <2>2. Others'
    BY <1>0, <1>4 DEF VerifyBlind, Others, Handoffs, viewVars, historyVars
  <2>3. RecorderTypeOK'
    BY <1>0, <1>4 DEF VerifyBlind, recorderVars, RecorderTypeOK
  <2>4. QED BY <2>1, <2>2, <2>3 DEF TypeOK
<1>5. CASE CapturePost
  <2>1. Reported'
    BY <1>0, <1>5, LabelFacts, GotoTyped, EndsTyped DEF CapturePost, Codes
  <2>2. Others'
    BY <1>0, <1>5 DEF CapturePost, Others, Handoffs, viewVars, historyVars
  <2>3. RecorderTypeOK'
    <3>1. /\ "RUN_FAILED" \in TerminalTypes /\ "RUN_FAILED" \in EventTypes
          /\ 0 \in 0..N
      BY EventFacts, PlanFacts
    <3>2. ArtifactStored \/ ArtifactRefused \/ UNCHANGED recorderVars
      BY <1>5 DEF CapturePost
    <3> QED BY <1>0, <3>1, <3>2, RecorderTyped
  <2>4. QED BY <2>1, <2>2, <2>3 DEF TypeOK
<1>6. CASE RecordVerified
  <2>1. Reported'
    BY <1>0, <1>6, LabelFacts, GotoTyped, EndsTyped DEF RecordVerified, Codes
  <2>2. Others'
    BY <1>0, <1>6 DEF RecordVerified, Others, LateEmit, Handoffs, viewVars, historyVars
  <2>3. RecorderTypeOK'
    BY <1>0, <1>6, EventFacts, LateTyped DEF RecordVerified
  <2>4. QED BY <2>1, <2>2, <2>3 DEF TypeOK
<1>7. CASE Settle
  <2>1. Reported'
    <3>1. ByHuman \in StepRecords
      <4>1. Current \in StepRecords
        BY <1>0 DEF Current, EngineTypeOK, NotReached, StepRecords
      <4> QED BY <4>1 DEF ByHuman, StepRecords
    <3>2. {"UNKNOWN_COMMIT_STATE", "EVIDENCE_ERROR", "INTERVENTION_ABANDONED"} \subseteq Codes
      BY DEF Codes
    <3>3. CASE FailNoRetry("UNKNOWN_COMMIT_STATE")
      <4>1. "UNKNOWN_COMMIT_STATE" \in Codes /\ TRUE \in BOOLEAN
        BY <3>2
      <4> QED BY <1>0, <3>3, <4>1, EndsTyped
    <3>4. CASE \/ Stop("FAILURE", "EVIDENCE_ERROR", "no", ByHuman)
               \/ Stop("FAILURE", "INTERVENTION_ABANDONED", "no", ByHuman)
      BY <1>0, <3>1, <3>2, <3>4, StopTyped
    <3>5. CASE /\ pc' = "restore" /\ steps' = [steps EXCEPT ![step] = ByHuman]
               /\ UNCHANGED <<outputs, result>>
      <4>1. pc' \in Labels
        BY <3>5, LabelFacts
      <4> QED BY <1>0, <3>1, <3>5, <4>1 DEF Reported
    <3> QED BY <1>7, <3>3, <3>4, <3>5 DEF Settle
  <2>2. Others'
    BY <1>0, <1>7 DEF Settle, Others, viewVars, historyVars
  <2>3. RecorderTypeOK'
    BY <1>0, <1>7 DEF Settle, recorderVars, RecorderTypeOK
  <2>4. QED BY <2>1, <2>2, <2>3 DEF TypeOK
<1>8. CASE RestoreControl
  <2>1. Reported'
    BY <1>0, <1>8, LabelFacts, EndsTyped, CompleteTyped
       DEF RestoreControl, Codes, Reported, StepPlace, InStep, AfterHuman
  <2>2. Others'
    BY <1>0, <1>8
       DEF RestoreControl, Others, LateEmit, Handoffs, Restore, Move, Edges, OwnerStates,
           viewVars, historyVars
  <2>3. RecorderTypeOK'
    BY <1>0, <1>8, EventFacts, LateTyped DEF RestoreControl
  <2>4. QED BY <2>1, <2>2, <2>3 DEF TypeOK
<1>9. QED BY <1>1, <1>2, <1>3, <1>4, <1>5, <1>6, <1>7, <1>8

LEMMA UnprovenTyped ==
  ASSUME Reported, Unproven
  PROVE  Reported'
<1>1. [status |-> "FAILURE", code |-> "EVIDENCE_ERROR", step |-> 0, retry |-> "unstated"]
        \in Results
  BY PlanFacts DEF Results, Statuses, Codes
<1>2. QED BY <1>1, LabelFacts DEF Unproven, Reported

(* Ending. *)
LEMMA EndTyped ==
  ASSUME TypeOK, StepPlace,
         SkipTerminal \/ ReportOutcome \/ RecordTerminal \/ Finish
  PROVE  TypeOK'
<1> USE EngineParts, PlanFacts
<1>0. EngineTypeOK /\ RecorderTypeOK /\ Reported /\ Others
  BY DEF TypeOK
<1>1. CASE SkipTerminal
  <2>1. Reported'
    BY <1>0, <1>1, LabelFacts, GotoTyped, EndsTyped DEF SkipTerminal, Codes
  <2>2. Others'
    BY <1>0, <1>1 DEF SkipTerminal, Others, viewVars, historyVars
  <2>3. RecorderTypeOK'
    BY <1>0, <1>1 DEF SkipTerminal, recorderVars, RecorderTypeOK
  <2>4. QED BY <2>1, <2>2, <2>3 DEF TypeOK
<1>2. CASE ReportOutcome
  <2>1. Reported'
    BY <1>0, <1>2, LabelFacts, GotoTyped, UnprovenTyped DEF ReportOutcome
  <2>2. Others'
    BY <1>0, <1>2 DEF ReportOutcome, Others, viewVars, historyVars
  <2>3. RecorderTypeOK'
    BY <1>0, <1>2, EventFacts, EventTyped DEF ReportOutcome
  <2>4. QED BY <2>1, <2>2, <2>3 DEF TypeOK
<1>3. CASE RecordTerminal
  <2>1. Reported'
    BY <1>0, <1>3, LabelFacts, GotoTyped, UnprovenTyped DEF RecordTerminal
  <2>2. Others'
    BY <1>0, <1>3 DEF RecordTerminal, Others, viewVars, historyVars
  <2>3. RecorderTypeOK'
    BY <1>0, <1>3, EventFacts, TerminalTyped DEF RecordTerminal
  <2>4. QED BY <2>1, <2>2, <2>3 DEF TypeOK
<1>4. CASE Finish
  <2>1. Reported'
    BY <1>0, <1>4, LabelFacts, GotoTyped, EndsTyped DEF Finish, Codes
  <2>2. Others'
    BY <1>0, <1>4 DEF Finish, Others, viewVars, historyVars
  <2>3. RecorderTypeOK'
    BY <1>0, <1>4, EventFacts, EndRunTyped DEF Finish
  <2>4. QED BY <2>1, <2>2, <2>3 DEF TypeOK
<1>5. QED BY <1>1, <1>2, <1>3, <1>4

------------------------------------------------------------------------------
(* Where the run is, who owns control, and what is never automated. *)

(* Whatever ends the run leaves nothing to own. *)
LEMMA EndsControl ==
  ASSUME pc' \in Concluded \cup {"idle"}
  PROVE  StepPlace' /\ Ownership'
BY DEF Concluded, StepPlace, Ownership, InStep, Acting, BeforeHuman, AfterHuman, WithHuman

LEMMA StopsRun ==
  ASSUME NEW code, NEW flag,
         \/ Fail(code) \/ FailNoRetry(code) \/ FailMarked(code, flag) \/ Outcome
         \/ Stop("FAILURE", code, "no", ByHuman) \/ Unproven \/ Succeed
  PROVE  pc' \in Concluded
BY DEF Fail, FailNoRetry, FailMarked, Outcome, Stop, Unproven, Succeed, Concluded

(* A call that operates nothing keeps the irreversible steps untouched. *)
LEMMA UntouchedStays ==
  ASSUME IrreversibleNeverAutomated, UNCHANGED attempts
  PROVE  IrreversibleNeverAutomated'
BY DEF IrreversibleNeverAutomated

(* Beginning. *)
LEMMA BeginControl ==
  ASSUME TypeOK, Control,
         BeginEvidence \/ Bind \/ BeginStep \/ BeginCheckpoint
  PROVE  Control'
<1> USE EndsControl, StopsRun, UntouchedStays, PlanFacts
<1>0. EngineTypeOK /\ StepPlace /\ Ownership /\ IrreversibleNeverAutomated
  BY DEF TypeOK, Control
<1>1. CASE BeginEvidence
  BY <1>0, <1>1
     DEF Control, BeginEvidence, Goto, historyVars, StepPlace, Ownership, InStep, Acting,
         BeforeHuman, AfterHuman, WithHuman
<1>2. CASE Bind
  BY <1>0, <1>2
     DEF Control, Bind, Goto, historyVars, StepPlace, Ownership, InStep, Acting,
         BeforeHuman, AfterHuman, WithHuman
<1>3. CASE BeginStep
  BY <1>0, <1>3
     DEF Control, BeginStep, Goto, historyVars, StepPlace, Ownership, InStep, Acting,
         BeforeHuman, AfterHuman, WithHuman
<1>4. CASE BeginCheckpoint
  BY <1>0, <1>4
     DEF Control, BeginCheckpoint, Goto, historyVars, StepPlace, Ownership, InStep,
         Acting, BeforeHuman, AfterHuman, WithHuman
<1>5. QED BY <1>1, <1>2, <1>3, <1>4

(* Resolving, the gate and the driver. *)
LEMMA ActControl ==
  ASSUME TypeOK, Control,
         ResolveFails \/ Resolve \/ Locate \/ RecordDispatch \/ RecordCompleted
         \/ RecordFailed \/ RecordOutput
  PROVE  Control'
<1> USE EndsControl, StopsRun, UntouchedStays, PlanFacts
<1>0. EngineTypeOK /\ StepPlace /\ Ownership /\ IrreversibleNeverAutomated
  BY DEF TypeOK, Control
<1>1. CASE ResolveFails
  BY <1>0, <1>1
     DEF Control, ResolveFails, ObserveFails, historyVars, StepPlace, Ownership, InStep,
         Acting, BeforeHuman, AfterHuman, WithHuman
<1>2. CASE Resolve
  BY <1>0, <1>2
     DEF Control, Resolve, Goto, historyVars, StepPlace, Ownership, InStep, Acting,
         BeforeHuman, AfterHuman, WithHuman
<1>3. CASE Locate
  BY <1>0, <1>3
     DEF Control, Locate, Goto, viewVars, historyVars, StepPlace, Ownership, InStep, Acting,
         BeforeHuman, AfterHuman, WithHuman
<1>4. CASE RecordDispatch
  BY <1>0, <1>4
     DEF Control, RecordDispatch, Goto, viewVars, historyVars, StepPlace, Ownership, InStep,
         Acting, BeforeHuman, AfterHuman, WithHuman
<1>5. CASE RecordCompleted
  BY <1>0, <1>5
     DEF Control, RecordCompleted, historyVars, StepPlace, Ownership, InStep, Acting,
         BeforeHuman, AfterHuman, WithHuman
<1>6. CASE RecordFailed
  BY <1>0, <1>6
     DEF Control, RecordFailed, historyVars, StepPlace, Ownership, InStep, Acting,
         BeforeHuman, AfterHuman, WithHuman
<1>7. CASE RecordOutput
  BY <1>0, <1>7
     DEF Control, RecordOutput, CompleteStep, historyVars, StepPlace, Ownership, InStep,
         Acting, BeforeHuman, AfterHuman, WithHuman
<1>8. QED BY <1>1, <1>2, <1>3, <1>4, <1>5, <1>6, <1>7

(* Waiting. *)
LEMMA AwaitControl ==
  ASSUME TypeOK, Control,
         WaitFails \/ AwaitPostcondition \/ AwaitCheckpoint
  PROVE  Control'
<1> USE EndsControl, StopsRun, UntouchedStays, PlanFacts
<1>0. EngineTypeOK /\ StepPlace /\ Ownership /\ IrreversibleNeverAutomated
  BY DEF TypeOK, Control
<1>1. CASE WaitFails
  BY <1>0, <1>1
     DEF Control, WaitFails, ObserveFails, historyVars, StepPlace, Ownership, InStep,
         Acting, BeforeHuman, AfterHuman, WithHuman
<1>2. CASE AwaitPostcondition
  BY <1>0, <1>2
     DEF Control, AwaitPostcondition, Await, PollAgain, Goto, CompleteStep, historyVars,
         StepPlace, Ownership, InStep, Acting, BeforeHuman, AfterHuman, WithHuman
<1>3. CASE AwaitCheckpoint
  BY <1>0, <1>3
     DEF Control, AwaitCheckpoint, Await, PollAgain, Goto, historyVars, StepPlace,
         Ownership, InStep, Acting, BeforeHuman, AfterHuman, WithHuman
<1>4. QED BY <1>1, <1>2, <1>3

(* Up to the human. *)
LEMMA AskControl ==
  ASSUME TypeOK, Control,
         ObservePre \/ ObservePreFails \/ CapturePre \/ RequestIntervention
         \/ EscalateControl \/ AcceptControl
  PROVE  Control'
<1> USE EndsControl, StopsRun, UntouchedStays, PlanFacts
<1>0. EngineTypeOK /\ StepPlace /\ Ownership /\ IrreversibleNeverAutomated
  BY DEF TypeOK, Control
<1>1. CASE ObservePre
  BY <1>0, <1>1
     DEF Control, ObservePre, Goto, historyVars, StepPlace, Ownership, InStep, Acting,
         BeforeHuman, AfterHuman, WithHuman
<1>2. CASE ObservePreFails
  BY <1>0, <1>2
     DEF Control, ObservePreFails, ObserveFails, historyVars, StepPlace, Ownership,
         InStep, Acting, BeforeHuman, AfterHuman, WithHuman
<1>3. CASE CapturePre
  BY <1>0, <1>3
     DEF Control, CapturePre, Goto, historyVars, StepPlace, Ownership, InStep, Acting,
         BeforeHuman, AfterHuman, WithHuman
<1>4. CASE RequestIntervention
  BY <1>0, <1>4
     DEF Control, RequestIntervention, EarlyEmit, Goto, historyVars, StepPlace,
         Ownership, InStep, Acting, BeforeHuman, AfterHuman, WithHuman
<1>5. CASE EscalateControl
  BY <1>0, <1>5
     DEF Control, EscalateControl, EarlyEmit, Escalate, Move, Edges, Goto, historyVars,
         StepPlace, Ownership, InStep, Acting, BeforeHuman, AfterHuman, WithHuman
<1>6. CASE AcceptControl
  BY <1>0, <1>6
     DEF Control, AcceptControl, EarlyEmit, Accept, Move, Edges, Goto, historyVars,
         StepPlace, Ownership, InStep, Acting, BeforeHuman, AfterHuman, WithHuman
<1>7. QED BY <1>1, <1>2, <1>3, <1>4, <1>5, <1>6

(* The human, and the page. *)
LEMMA HumanControl ==
  ASSUME TypeOK, Control,
         HumanActs \/ HandsBack \/ HandlerRaises \/ PageDrifts
  PROVE  Control'
<1> USE EndsControl, StopsRun, UntouchedStays, PlanFacts
<1>0. EngineTypeOK /\ StepPlace /\ Ownership /\ IrreversibleNeverAutomated
  BY DEF TypeOK, Control
<1>1. CASE HumanActs
  BY <1>0, <1>1
     DEF Control, HumanActs, StepPlace, Ownership, InStep, Acting, BeforeHuman,
         AfterHuman, WithHuman
<1>2. CASE HandsBack
  BY <1>0, <1>2
     DEF Control, HandsBack, Goto, historyVars, StepPlace, Ownership, InStep, Acting,
         BeforeHuman, AfterHuman, WithHuman
<1>3. CASE HandlerRaises
  BY <1>0, <1>3
     DEF Control, HandlerRaises, Concluded, historyVars, StepPlace, Ownership, InStep,
         Acting, BeforeHuman, AfterHuman, WithHuman
<1>4. CASE PageDrifts
  BY <1>0, <1>4
     DEF Control, PageDrifts, viewVars, historyVars, StepPlace, Ownership, InStep,
         Acting, BeforeHuman, AfterHuman, WithHuman
<1>5. QED BY <1>1, <1>2, <1>3, <1>4

(* Back from the human. *)
LEMMA ReturnControls ==
  ASSUME TypeOK, Control,
         RecordHandBack \/ ReturnControl \/ Verify \/ VerifyBlind \/ CapturePost
         \/ RecordVerified \/ Settle \/ RestoreControl
  PROVE  Control'
<1> USE EndsControl, StopsRun, UntouchedStays, PlanFacts
<1>0. EngineTypeOK /\ StepPlace /\ Ownership /\ IrreversibleNeverAutomated
  BY DEF TypeOK, Control
<1>1. CASE RecordHandBack
  BY <1>0, <1>1
     DEF Control, RecordHandBack, Goto, historyVars, StepPlace, Ownership, InStep,
         Acting, BeforeHuman, AfterHuman, WithHuman
<1>2. CASE ReturnControl
  BY <1>0, <1>2
     DEF Control, ReturnControl, HandBack, Move, Edges, Goto, historyVars, StepPlace,
         Ownership, InStep, Acting, BeforeHuman, AfterHuman, WithHuman
<1>3. CASE Verify
  BY <1>0, <1>3
     DEF Control, Verify, PollAgain, Goto, historyVars, StepPlace, Ownership, InStep,
         Acting, BeforeHuman, AfterHuman, WithHuman
<1>4. CASE VerifyBlind
  BY <1>0, <1>4
     DEF Control, VerifyBlind, Goto, historyVars, StepPlace, Ownership, InStep, Acting,
         BeforeHuman, AfterHuman, WithHuman
<1>5. CASE CapturePost
  BY <1>0, <1>5
     DEF Control, CapturePost, Goto, historyVars, StepPlace, Ownership, InStep, Acting,
         BeforeHuman, AfterHuman, WithHuman
<1>6. CASE RecordVerified
  BY <1>0, <1>6
     DEF Control, RecordVerified, Goto, historyVars, StepPlace, Ownership, InStep,
         Acting, BeforeHuman, AfterHuman, WithHuman
<1>7. CASE Settle
  BY <1>0, <1>7
     DEF Control, Settle, historyVars, StepPlace, Ownership, InStep, Acting, BeforeHuman,
         AfterHuman, WithHuman
<1>8. CASE RestoreControl
  BY <1>0, <1>8
     DEF Control, RestoreControl, CompleteStep, Restore, Move, Edges, historyVars,
         StepPlace, Ownership, InStep, Acting, BeforeHuman, AfterHuman, WithHuman
<1>9. QED BY <1>1, <1>2, <1>3, <1>4, <1>5, <1>6, <1>7, <1>8

(* Ending. *)
LEMMA EndControl ==
  ASSUME TypeOK, Control,
         SkipTerminal \/ ReportOutcome \/ RecordTerminal \/ Finish
  PROVE  Control'
<1> USE EndsControl, StopsRun, UntouchedStays, PlanFacts
<1>0. EngineTypeOK /\ StepPlace /\ Ownership /\ IrreversibleNeverAutomated
  BY DEF TypeOK, Control
<1>1. CASE SkipTerminal
  BY <1>0, <1>1
     DEF Control, SkipTerminal, Concluded, Goto, historyVars, StepPlace, Ownership,
         InStep, Acting, BeforeHuman, AfterHuman, WithHuman
<1>2. CASE ReportOutcome
  BY <1>0, <1>2
     DEF Control, ReportOutcome, Concluded, Goto, historyVars, StepPlace, Ownership,
         InStep, Acting, BeforeHuman, AfterHuman, WithHuman
<1>3. CASE RecordTerminal
  BY <1>0, <1>3
     DEF Control, RecordTerminal, Concluded, Goto, historyVars, StepPlace, Ownership,
         InStep, Acting, BeforeHuman, AfterHuman, WithHuman
<1>4. CASE Finish
  BY <1>0, <1>4
     DEF Control, Finish, Concluded, Goto, historyVars, StepPlace, Ownership, InStep,
         Acting, BeforeHuman, AfterHuman, WithHuman
<1>5. QED BY <1>1, <1>2, <1>3, <1>4

(* The three calls that matter: a new run, the decision, the operation. *)
LEMMA CoreControl ==
  ASSUME TypeOK, Control, StartRun \/ Decide \/ Operate
  PROVE  Control'
<1> USE PlanFacts
<1>0. EngineTypeOK /\ StepPlace /\ Ownership /\ IrreversibleNeverAutomated
  BY DEF TypeOK, Control
<1>1. CASE StartRun
  <2>1. StepPlace' /\ Ownership'
    BY <1>1 DEF StartRun, StepPlace, Ownership, InStep, Acting, BeforeHuman, AfterHuman,
                WithHuman
  <2>2. IrreversibleNeverAutomated'
    BY <1>1 DEF StartRun, IrreversibleNeverAutomated
  <2>3. QED BY <2>1, <2>2 DEF Control
<1>2. CASE Decide
  <2>1. step \in StepIds /\ owner \in OwnerStates
    BY <1>0, <1>2 DEF Decide, StepPlace, InStep, EngineTypeOK
  <2>2. /\ ruling'.decision # "DENY" => owner = "AUTOMATION"
        /\ ruling'.decision = "ALLOW" => Plan[step].declared # "IRREVERSIBLE"
    BY <1>2, <2>1, RulingTyped DEF Decide
  <2>3. CASE FailMarked("EVIDENCE_ERROR", FALSE)
    BY <1>0, <1>2, <2>3, StopsRun, EndsControl, UntouchedStays DEF Control, Decide, historyVars
  <2>4. CASE Obey(ruling'.decision)
    <3>1. CASE pc' = "terminal"
      BY <1>0, <1>2, <3>1, EndsControl, UntouchedStays
         DEF Control, Decide, historyVars, Concluded
    <3>2. CASE pc' \in {"dispatch", "locate"}
      <4>1. ruling'.decision = "ALLOW"
        BY <2>4, <3>2 DEF Obey, Goto, Fail, Stop
      <4>2. StepPlace' /\ Ownership'
        BY <1>0, <1>2, <2>1, <2>2, <3>2, <4>1
           DEF Decide, StepPlace, Ownership, InStep, Acting, BeforeHuman, AfterHuman, WithHuman
      <4>3. QED BY <1>0, <1>2, <4>2, UntouchedStays DEF Control, Decide, historyVars
    <3>3. CASE pc' = "pre"
      <4>1. owner = "AUTOMATION"
        BY <2>2, <2>4, <3>3 DEF Obey, Goto, Fail, Stop
      <4>2. StepPlace' /\ Ownership'
        BY <1>0, <1>2, <2>1, <3>3, <4>1
           DEF Decide, StepPlace, Ownership, InStep, Acting, BeforeHuman, AfterHuman, WithHuman
      <4>3. QED BY <1>0, <1>2, <4>2, UntouchedStays DEF Control, Decide, historyVars
    <3>4. QED BY <2>4, <3>1, <3>2, <3>3 DEF Obey, Goto, Fail, Stop
  <2>5. QED BY <1>2, <2>3, <2>4 DEF Decide
<1>3. CASE Operate
  <2>1. step \in StepIds /\ Plan[step].declared # "IRREVERSIBLE"
    BY <1>0, <1>3 DEF Operate, StepPlace, Ownership, InStep, Acting
  <2>2. IrreversibleNeverAutomated'
    BY <1>0, <1>3, <2>1 DEF Operate, IrreversibleNeverAutomated, EngineTypeOK
  <2>3. StepPlace' /\ Ownership'
    BY <1>0, <1>3, <2>1
       DEF Operate, Goto, viewVars, StepPlace, Ownership, InStep, Acting, BeforeHuman,
           AfterHuman, WithHuman
  <2>4. QED BY <2>2, <2>3 DEF Control
<1>4. QED BY <1>1, <1>2, <1>3

------------------------------------------------------------------------------
(* The theorems. *)

Invariant == TypeOK /\ Control

LEMMA InitHolds == Init => Invariant
<1> SUFFICES ASSUME Init PROVE Invariant
  OBVIOUS
<1> USE PlanFacts
<1>1. Reported
  BY LabelFacts DEF Init, Reported, NotReached, NoResult, StepRecords, Results, Statuses, Codes
<1>2. Others
  <2>1. ruling \in Rulings
    BY DEF Init, NoRuling, Rulings, Decisions, RiskTiers
  <2>2. QED BY <2>1, ConfigAssumption
            DEF Init, Others, NoHandoff, Handoffs, OwnerInit, OwnerStates
<1>3. RecorderTypeOK
  BY DEF Init, RecorderTypeOK, NoRun, NoStep, Closed, RecStates, SinkStates
<1>4. Control
  BY DEF Init, Control, StepPlace, Ownership, IrreversibleNeverAutomated, InStep, Acting,
         BeforeHuman, AfterHuman, WithHuman
<1>5. QED BY <1>1, <1>2, <1>3, <1>4, EngineParts DEF Invariant, TypeOK

LEMMA StepHolds == Invariant /\ [Next]_vars => Invariant'
<1> SUFFICES ASSUME Invariant, [Next]_vars PROVE Invariant'
  OBVIOUS
<1>0. TypeOK /\ Control /\ StepPlace
  BY DEF Invariant, Control
<1>1. CASE StartRun \/ Automated
  BY <1>0, <1>1, BeginTyped, ActTyped, AwaitTyped, BeginControl, ActControl, AwaitControl,
     CoreControl DEF Automated, Invariant
<1>2. CASE Handover
  BY <1>0, <1>2, AskTyped, ReturnTyped, AskControl, ReturnControls DEF Handover, Invariant
<1>3. CASE Ending
  BY <1>0, <1>3, EndTyped, EndControl DEF Ending, Invariant
<1>4. CASE Human \/ PageDrifts
  BY <1>0, <1>4, HumanTyped, HumanControl DEF Human, Invariant
<1>5. CASE UNCHANGED vars
  <2>1. TypeOK'
    BY <1>0, <1>5 DEF vars, viewVars, reportVars, historyVars, recorderVars, TypeOK,
                      EngineTypeOK, RecorderTypeOK
  <2>2. Control'
    BY <1>0, <1>5 DEF vars, viewVars, reportVars, historyVars, Control, StepPlace, Ownership,
                      IrreversibleNeverAutomated
  <2>3. QED BY <2>1, <2>2 DEF Invariant
<1>6. QED BY <1>1, <1>2, <1>3, <1>4, <1>5 DEF Next, EngineStep

LEMMA InvariantHolds == Spec => []Invariant
BY InitHolds, StepHolds, PTL DEF Spec

(* Every variable keeps its type, at every call of run() and whatever the   *)
(* recorder, the page and the human do.                                    *)
THEOREM TypeCorrect == Spec => []TypeOK
<1>1. Invariant => TypeOK
  BY DEF Invariant
<1>2. QED BY <1>1, InvariantHolds, PTL

(* Automation never operates a step declared IRREVERSIBLE, under any policy *)
(* and on any page (engine._dispatch behind ActionGate.authorize).         *)
THEOREM NeverAutomated == Spec => []IrreversibleNeverAutomated
<1>1. Invariant => IrreversibleNeverAutomated
  BY DEF Invariant, Control
<1>2. QED BY <1>1, InvariantHolds, PTL

(* The only step that counts an operation is Operate. *)
LEMMA OnlyOperate ==
  ASSUME [Next]_vars, ~Operate, ~StartRun
  PROVE  UNCHANGED attempts
<1>1. CASE Automated
  BY <1>1 DEF Automated, BeginEvidence, Bind, BeginStep, BeginCheckpoint, ResolveFails,
              Resolve, Decide, Locate, RecordDispatch, RecordCompleted, RecordFailed,
              RecordOutput, WaitFails, ObserveFails, AwaitPostcondition, AwaitCheckpoint,
              Await, historyVars
<1>2. CASE Handover
  BY <1>2 DEF Handover, ObservePre, ObservePreFails, ObserveFails, CapturePre,
              RequestIntervention, EscalateControl, AcceptControl, RecordHandBack,
              ReturnControl, Verify, VerifyBlind, CapturePost, RecordVerified, Settle,
              RestoreControl, historyVars
<1>3. CASE Ending
  BY <1>3 DEF Ending, SkipTerminal, ReportOutcome, RecordTerminal, Finish, historyVars
<1>4. CASE Human \/ PageDrifts
  BY <1>4 DEF Human, HumanActs, HandsBack, HandlerRaises, PageDrifts, historyVars
<1>5. CASE UNCHANGED vars
  BY <1>5 DEF vars, historyVars
<1>6. QED BY <1>1, <1>2, <1>3, <1>4, <1>5 DEF Next, EngineStep

(* Only the control owner operates the browser: every driver operation      *)
(* happens with automation owning control, on the gate's ALLOW, for the    *)
(* current step.                                                           *)
THEOREM OwnedOperations == Spec => ExclusiveOwnership
<1>1. Invariant /\ [Next]_vars =>
        [\A i \in StepIds : attempts'[i] > attempts[i] =>
           /\ owner = "AUTOMATION" /\ ruling.decision = "ALLOW" /\ i = step]_vars
  <2> SUFFICES ASSUME Invariant, [Next]_vars, NEW i \in StepIds, attempts'[i] > attempts[i]
               PROVE  owner = "AUTOMATION" /\ ruling.decision = "ALLOW" /\ i = step
    OBVIOUS
  <2>0. EngineTypeOK /\ Ownership
    BY DEF Invariant, TypeOK, Control
  <2>1. CASE Operate
    BY <2>0, <2>1 DEF Operate, Ownership, Acting, EngineTypeOK
  <2>2. CASE StartRun
    BY <2>0, <2>2 DEF StartRun, EngineTypeOK
  <2>3. CASE UNCHANGED attempts
    BY <2>0, <2>3 DEF EngineTypeOK
  <2>4. QED BY <2>1, <2>2, <2>3, OnlyOperate
<1>2. QED BY <1>1, InvariantHolds, PTL DEF Spec, ExclusiveOwnership

------------------------------------------------------------------------------
(* What a run reports.                                                     *)

(* A call that ends the run before its conclusion: the current step's       *)
(* record gets the marks d (dispatched) and h (done by the human).         *)
Halts(d, h) ==
  /\ pc' = "terminal"
  /\ UNCHANGED outputs
  /\ result'.status \in {"BUSINESS_OUTCOME", "FAILURE"}
  /\ \A i \in StepIds : i # step => steps'[i] = steps[i]
  /\ step \in StepIds => steps'[step].dispatched = d /\ steps'[step].byHuman = h

(* A call that leaves the report as it was. *)
Passes == UNCHANGED <<step, steps, attempts, outputs, result, startedAs>>

LEMMA StopHalts ==
  ASSUME EngineTypeOK, NEW status \in {"BUSINESS_OUTCOME", "FAILURE"}, NEW code, NEW retry,
         NEW r \in StepRecords, Stop(status, code, retry, r)
  PROVE  Halts(r.dispatched, r.byHuman) /\ result'.status = status /\ result'.retry = retry
<1>1. \A x \in {"OUTCOME", "FAILED"} : /\ [r EXCEPT !.status = x].dispatched = r.dispatched
                                        /\ [r EXCEPT !.status = x].byHuman = r.byHuman
  BY DEF StepRecords
<1>2. \A i \in StepIds : i # step => steps'[i] = steps[i]
  BY DEF Stop
<1>3. step \in StepIds => steps'[step].dispatched = r.dispatched /\ steps'[step].byHuman = r.byHuman
  BY <1>1 DEF Stop
<1>4. QED BY <1>2, <1>3 DEF Stop, Halts

LEMMA CurrentFacts ==
  ASSUME EngineTypeOK
  PROVE  /\ Current \in StepRecords /\ ByHuman \in StepRecords
         /\ step \in StepIds => /\ Current.dispatched = steps[step].dispatched
                                /\ Current.byHuman = steps[step].byHuman
                                /\ ByHuman.dispatched = steps[step].dispatched
                                /\ ByHuman.byHuman = TRUE
<1>1. Current \in StepRecords
  BY DEF Current, EngineTypeOK, NotReached, StepRecords
<1>2. /\ ByHuman \in StepRecords /\ ByHuman.dispatched = Current.dispatched
      /\ ByHuman.byHuman = TRUE
  BY <1>1 DEF ByHuman, StepRecords
<1>3. QED BY <1>1, <1>2 DEF Current

(* The ways to fail, and what each marks. *)
LEMMA FailHalts ==
  ASSUME EngineTypeOK
  PROVE  /\ \A code \in Codes : Fail(code) =>
              Halts(Current.dispatched, Current.byHuman) /\ result'.status = "FAILURE"
         /\ \A code \in Codes : FailNoRetry(code) =>
              /\ Halts(Current.dispatched, Current.byHuman)
              /\ result'.status = "FAILURE" /\ result'.retry = "no"
         /\ \A code \in Codes, d \in BOOLEAN : FailMarked(code, d) =>
              Halts(d, Current.byHuman) /\ result'.status = "FAILURE"
         /\ \A code \in Codes : Stop("FAILURE", code, "no", ByHuman) =>
              /\ Halts(Current.dispatched, TRUE)
              /\ result'.status = "FAILURE" /\ result'.retry = "no"
         /\ Outcome =>
              Halts(Current.dispatched, Current.byHuman) /\ result'.status = "BUSINESS_OUTCOME"
<1>0. Current \in StepRecords /\ ByHuman \in StepRecords
  BY CurrentFacts
<1>1. ASSUME NEW code \in Codes, Fail(code)
      PROVE  Halts(Current.dispatched, Current.byHuman) /\ result'.status = "FAILURE"
  BY <1>0, <1>1, StopHalts DEF Fail
<1>2. ASSUME NEW code \in Codes, FailNoRetry(code)
      PROVE  /\ Halts(Current.dispatched, Current.byHuman)
             /\ result'.status = "FAILURE" /\ result'.retry = "no"
  BY <1>0, <1>2, StopHalts DEF FailNoRetry
<1>3. ASSUME NEW code \in Codes, NEW d \in BOOLEAN, FailMarked(code, d)
      PROVE  Halts(d, Current.byHuman) /\ result'.status = "FAILURE"
  <2>1. /\ [Current EXCEPT !.dispatched = d] \in StepRecords
        /\ [Current EXCEPT !.dispatched = d].dispatched = d
        /\ [Current EXCEPT !.dispatched = d].byHuman = Current.byHuman
    BY <1>0 DEF StepRecords
  <2>2. QED BY <1>3, <2>1, StopHalts DEF FailMarked
<1>4. ASSUME NEW code \in Codes, Stop("FAILURE", code, "no", ByHuman)
      PROVE  /\ Halts(Current.dispatched, TRUE)
             /\ result'.status = "FAILURE" /\ result'.retry = "no"
  <2>1. ByHuman.dispatched = Current.dispatched /\ ByHuman.byHuman = TRUE
    BY <1>0 DEF ByHuman, StepRecords
  <2>2. Halts(ByHuman.dispatched, ByHuman.byHuman) /\ result'.status = "FAILURE" /\ result'.retry = "no"
    BY <1>0, <1>4, StopHalts
  <2>3. QED BY <2>1, <2>2
<1>5. ASSUME Outcome
      PROVE  Halts(Current.dispatched, Current.byHuman) /\ result'.status = "BUSINESS_OUTCOME"
  BY <1>0, <1>5, StopHalts DEF Outcome
<1>6. QED BY <1>1, <1>2, <1>3, <1>4, <1>5

------------------------------------------------------------------------------
(* Where the run is, against what has been done. *)

Standing == Progress /\ Marks

(* Leaving the report alone, within one phase of a step or of the run. *)
SamePhase ==
  \/ pc' = pc
  \/ pc \in NotYetDone /\ pc' \in NotYetDone
  \/ step = 0 /\ pc \in {"begin", "bind"} /\ pc' \in {"bind", "step"}
  \/ pc \in Concluded /\ pc' \in Concluded \cup {"idle"}

LEMMA PassStanding ==
  ASSUME EngineTypeOK, Standing, Passes, SamePhase
  PROVE  Standing'
<1>1. Marks'
  BY DEF Standing, Passes, SamePhase, Marks, Marked, NotYetDone, InStep, Attempted, Concluded,
         Acting, BeforeHuman, WithHuman, AfterHuman
<1>2. VerdictPlace'
  BY DEF Standing, Progress, Passes, SamePhase, VerdictPlace, NotYetDone, InStep, Attempted,
         Concluded, Acting, BeforeHuman, WithHuman, AfterHuman
<1>3. InOrder'
  BY PlanFacts DEF Standing, Progress, Passes, SamePhase, InOrder, Undone, DoneOnce,
         NotYetDone, InStep, Attempted, Concluded, Acting, BeforeHuman, WithHuman, AfterHuman
<1>4. QED BY <1>1, <1>2, <1>3 DEF Standing, Progress

LEMMA HaltStanding ==
  ASSUME EngineTypeOK, Standing, pc \in Underway \cup {"begin"}, UNCHANGED <<step, attempts>>,
         NEW d, NEW h, Halts(d, h),
         step \in StepIds => /\ d <=> attempts[step] = 1
                             /\ h = steps[step].byHuman \/ (attempts[step] = 0 /\ h = TRUE)
  PROVE  Standing'
<1>1. Marks'
  BY DEF Standing, Halts, Marks, Marked
<1>2. VerdictPlace'
  BY DEF Standing, Progress, Halts, VerdictPlace, Concluded
<1>3. InOrder'
  <2>1. \A i \in StepIds : (i < step => DoneOnce(i)') /\ (i > step => Undone(i)')
    BY PlanFacts DEF Standing, Progress, Halts, InOrder, Undone, DoneOnce, EngineTypeOK
  <2>2. step \in StepIds => Undone(step)' \/ DoneOnce(step)'
    BY DEF Standing, Progress, Halts, InOrder, Undone, DoneOnce
  <2>3. QED BY <2>1, <2>2 DEF Halts, InOrder, NotYetDone, InStep, Attempted,
           Acting, BeforeHuman, WithHuman, AfterHuman
<1>4. QED BY <1>1, <1>2, <1>3 DEF Standing, Progress

(* An end that keeps the record, or whose mark agrees with what was done. *)
Ends == /\ pc \in Underway \cup {"begin"}
        /\ UNCHANGED <<step, attempts>>
        /\ \E d \in BOOLEAN, h \in BOOLEAN :
             /\ Halts(d, h)
             /\ step \in StepIds => /\ d <=> attempts[step] = 1
                                    /\ h = steps[step].byHuman \/ (attempts[step] = 0 /\ h = TRUE)

LEMMA EndStanding ==
  ASSUME EngineTypeOK, Standing, Ends
  PROVE  Standing'
BY HaltStanding DEF Ends

(* Failing outside the driver call keeps the record; its mark is right. *)
LEMMA FailEnds ==
  ASSUME EngineTypeOK, Standing, UNCHANGED <<step, attempts>>,
         pc \in (Underway \cup {"begin"}) \ {"completed", "failed"},
         \/ \E code \in Codes : Fail(code) \/ FailNoRetry(code)
         \/ Outcome
  PROVE  Ends
<1>1. Halts(Current.dispatched, Current.byHuman)
  BY FailHalts
<1>2. Current.dispatched \in BOOLEAN /\ Current.byHuman \in BOOLEAN
  BY CurrentFacts DEF StepRecords
<1>3. step \in StepIds => Marked(step)
  BY DEF Standing, Marks
<1>4. QED BY <1>1, <1>2, <1>3, CurrentFacts DEF Ends, Marked

LEMMA MarkedEnds ==
  ASSUME EngineTypeOK, Standing, UNCHANGED <<step, attempts>>, pc \in Underway,
         NEW d \in BOOLEAN, NEW code \in Codes, FailMarked(code, d),
         step \in StepIds => (d <=> attempts[step] = 1)
  PROVE  Ends
<1>1. Halts(d, Current.byHuman)
  BY FailHalts
<1>2. Current.byHuman \in BOOLEAN
  BY CurrentFacts DEF StepRecords
<1>3. QED BY <1>1, <1>2, CurrentFacts DEF Ends

LEMMA UnderwayFacts ==
  /\ Underway = Labels \ {"idle", "begin", "terminal", "closing", "ending"}
  /\ InStep \cup {"bind", "step", "checkpoint"} = Underway
BY LabelFacts DEF Underway, Concluded, InStep, Acting, BeforeHuman, WithHuman, AfterHuman

(* What failing, or halting, needs to know of a code. *)
LEMMA CodeFacts ==
  {"AMBIGUOUS_TARGET", "TARGET_NOT_FOUND", "POLICY_DENIED",
   "INTERVENTION_REQUIRED", "UNKNOWN_COMMIT_STATE", "INTERVENTION_ABANDONED",
   "POSTCONDITION_FAILED", "INVALID_INPUT", "TRANSFORM_ERROR", "SURFACE_ERROR",
   "EVIDENCE_ERROR"} \subseteq Codes
BY DEF Codes

LEMMA BeginStanding ==
  ASSUME TypeOK, Control, Standing,
         BeginEvidence \/ Bind \/ BeginStep \/ BeginCheckpoint
  PROVE  Standing'
<1> USE PassStanding, EndStanding, FailEnds, CodeFacts
<1>0. EngineTypeOK /\ StepPlace
  BY DEF TypeOK, Control
<1>1. CASE BeginEvidence
  <2>1. CASE Fail("EVIDENCE_ERROR")
    BY <1>0, <1>1, <2>1, UnderwayFacts, LabelFacts DEF BeginEvidence, historyVars
  <2>2. CASE Goto("bind")
    BY <1>0, <1>1, <2>2
       DEF BeginEvidence, Goto, reportVars, historyVars, Passes, SamePhase, StepPlace
  <2>3. QED BY <1>1, <2>1, <2>2 DEF BeginEvidence
<1>2. CASE Bind
  <2>1. CASE Fail("INVALID_INPUT")
    BY <1>0, <1>2, <2>1, UnderwayFacts, LabelFacts DEF Bind, historyVars
  <2>2. CASE Goto("step")
    BY <1>0, <1>2, <2>2
       DEF Bind, Goto, reportVars, historyVars, Passes, SamePhase, StepPlace
  <2>3. QED BY <1>2, <2>1, <2>2 DEF Bind
<1>3. CASE BeginStep \/ BeginCheckpoint
  <2>0. /\ pc = "step" /\ step' = step + 1 /\ pc' \in {"gate", "resolve", "checkpoint"}
        /\ UNCHANGED <<steps, attempts, result>> /\ step \in 0..N
        /\ pc' # "checkpoint" => step' \in StepIds
        /\ pc' = "checkpoint" => step' = Checkpoint
    BY <1>0, <1>3, PlanFacts
       DEF BeginStep, BeginCheckpoint, Goto, reportVars, historyVars, StepPlace
  <2>1. Marks'
    BY <2>0, PlanFacts DEF Standing, Marks, Marked
  <2>2. VerdictPlace'
    BY <1>0, <2>0, PlanFacts DEF Standing, Progress, VerdictPlace, Concluded
  <2>3. InOrder'
    <3>1. \A i \in StepIds : (i < step' => DoneOnce(i)') /\ (i >= step' => Undone(i)')
      BY <2>0, PlanFacts DEF Standing, Progress, InOrder, Undone, DoneOnce
    <3>2. QED BY <2>0, <3>1, PlanFacts
              DEF InOrder, NotYetDone, Attempted, InStep, Acting, BeforeHuman, WithHuman,
                  AfterHuman
  <2>4. QED BY <2>1, <2>2, <2>3 DEF Standing, Progress
<1>4. QED BY <1>1, <1>2, <1>3

(* A step is complete once it has been done. *)
LEMMA CompleteStanding ==
  ASSUME EngineTypeOK, Standing, step \in StepIds, pc \in {"output", "postcondition", "restore"},
         UNCHANGED <<step, attempts>>, CompleteStep(Current)
  PROVE  Standing'
<1>0. /\ pc' = "step" /\ UNCHANGED result
      /\ \A i \in StepIds : /\ steps'[i].byHuman = steps[i].byHuman
                            /\ steps'[i].dispatched = steps[i].dispatched
  BY DEF CompleteStep, Current, EngineTypeOK, StepRecords
<1>1. Marks'
  BY <1>0 DEF Standing, Marks, Marked
<1>2. VerdictPlace'
  BY <1>0 DEF Standing, Progress, VerdictPlace, Concluded
<1>3. InOrder'
  <2>1. \A i \in StepIds : (i < step => DoneOnce(i)') /\ (i > step => Undone(i)')
    BY <1>0 DEF Standing, Progress, InOrder, Undone, DoneOnce
  <2>2. DoneOnce(step)'
    BY <1>0 DEF Standing, Progress, InOrder, Undone, DoneOnce, Attempted
  <2>3. QED BY <1>0, <2>1, <2>2
            DEF InOrder, NotYetDone, Attempted, InStep, Acting, BeforeHuman, WithHuman,
                AfterHuman
<1>4. QED BY <1>1, <1>2, <1>3 DEF Standing, Progress

(* Up to the gate and through it; the marks of a failed call come from the *)
(* recorder's count.                                                       *)
LEMMA GateStanding ==
  ASSUME TypeOK, Control, Standing, Counted,
         ResolveFails \/ Resolve \/ Decide \/ Locate \/ RecordDispatch
  PROVE  Standing'
<1>0. EngineTypeOK /\ RecorderTypeOK /\ StepPlace
  BY DEF TypeOK, Control
<1>u. {"resolve", "gate", "locate", "dispatch"} \subseteq Underway
  BY UnderwayFacts, LabelFacts
<1>n. {"resolve", "gate", "locate", "dispatch", "operate", "pre"} \subseteq NotYetDone
  BY DEF NotYetDone, InStep, Acting, BeforeHuman, Attempted
<1>s. pc \in {"resolve", "gate", "locate", "dispatch"} =>
        step \in StepIds /\ attempts[step] = 0
  BY <1>0, <1>n DEF StepPlace, InStep, Acting, Standing, Progress, InOrder, Undone
<1>1. CASE ResolveFails
  BY <1>0, <1>1, <1>u, FailEnds, EndStanding, CodeFacts DEF ResolveFails, ObserveFails, historyVars
<1>2. CASE Resolve
  <2>1. CASE \E code \in Codes : Fail(code) \/ Outcome
    BY <1>0, <1>2, <2>1, <1>u, FailEnds, EndStanding DEF Resolve, historyVars
  <2>2. CASE Goto("resolve") \/ Goto("gate")
    BY <1>0, <1>2, <2>2, <1>n, PassStanding
       DEF Resolve, Goto, reportVars, historyVars, Passes, SamePhase
  <2>3. QED BY <1>2, <2>1, <2>2, CodeFacts DEF Resolve
<1>3. CASE Decide
  <2>1. CASE \E code \in Codes : Fail(code)
    BY <1>0, <1>3, <2>1, <1>u, FailEnds, EndStanding DEF Decide, historyVars
  <2>2. CASE FailMarked("EVIDENCE_ERROR", FALSE)
    <3>1. FALSE \in BOOLEAN /\ "EVIDENCE_ERROR" \in Codes
      BY CodeFacts
    <3>2. /\ pc \in Underway /\ UNCHANGED <<step, attempts>>
          /\ step \in StepIds => (FALSE <=> attempts[step] = 1)
      BY <1>3, <1>u, <1>s DEF Decide, historyVars
    <3>3. Ends
      BY <1>0, <2>2, <3>1, <3>2, MarkedEnds
    <3>4. QED BY <1>0, <3>3, EndStanding
  <2>3. CASE \E b \in {"dispatch", "locate", "pre"} : Goto(b)
    BY <1>0, <1>3, <2>3, <1>n, PassStanding
       DEF Decide, Goto, reportVars, historyVars, Passes, SamePhase
  <2>4. QED BY <1>3, <2>1, <2>2, <2>3, CodeFacts DEF Decide, Obey
<1>4. CASE Locate
  <2>1. CASE FailMarked("SURFACE_ERROR", CountedSince)
    <3>1. "SURFACE_ERROR" \in Codes /\ CountedSince = FALSE
      BY <1>0, <1>4, CodeFacts DEF Locate, Counted, CountedSince, EngineTypeOK
    <3>2. /\ pc \in Underway /\ UNCHANGED <<step, attempts>>
          /\ step \in StepIds => (FALSE <=> attempts[step] = 1)
      BY <1>4, <1>u, <1>s DEF Locate, historyVars
    <3>3. Ends
      BY <1>0, <2>1, <3>1, <3>2, MarkedEnds
    <3>4. QED BY <1>0, <3>3, EndStanding
  <2>2. CASE Goto("dispatch")
    BY <1>0, <1>4, <2>2, <1>n, PassStanding
       DEF Locate, Goto, reportVars, historyVars, Passes, SamePhase
  <2>3. QED BY <1>4, <2>1, <2>2 DEF Locate
<1>5. CASE RecordDispatch
  <2>1. CASE FailMarked("EVIDENCE_ERROR", FALSE)
    <3>1. FALSE \in BOOLEAN /\ "EVIDENCE_ERROR" \in Codes
      BY CodeFacts
    <3>2. /\ pc \in Underway /\ UNCHANGED <<step, attempts>>
          /\ step \in StepIds => (FALSE <=> attempts[step] = 1)
      BY <1>5, <1>u, <1>s DEF RecordDispatch, historyVars
    <3>3. Ends
      BY <1>0, <2>1, <3>1, <3>2, MarkedEnds
    <3>4. QED BY <1>0, <3>3, EndStanding
  <2>2. CASE Goto("operate")
    BY <1>0, <1>5, <2>2, <1>n, PassStanding
       DEF RecordDispatch, Goto, reportVars, historyVars, Passes, SamePhase
  <2>3. QED BY <1>5, <2>1, <2>2 DEF RecordDispatch
<1>6. QED BY <1>1, <1>2, <1>3, <1>4, <1>5

(* The operation itself, and what is made of its answer. *)
LEMMA ActStanding ==
  ASSUME TypeOK, Control, Standing, Counted,
         Operate \/ RecordCompleted \/ RecordFailed \/ RecordOutput
  PROVE  Standing'
<1> USE PlanFacts, CodeFacts
<1>0. EngineTypeOK /\ RecorderTypeOK /\ StepPlace
  BY DEF TypeOK, Control
<1>u. {"operate", "completed", "failed", "output"} \subseteq Underway
  BY UnderwayFacts, LabelFacts
<1>s. pc \in {"operate", "completed", "failed", "output"} => step \in StepIds
  BY <1>0 DEF StepPlace, InStep, Acting
<1>1. CASE Operate
  <2>0. /\ pc = "operate" /\ pc' \in {"completed", "failed"} /\ step \in StepIds
        /\ UNCHANGED <<step, steps, result>> /\ attempts[step] = 0
        /\ attempts' = [attempts EXCEPT ![step] = 1]
        /\ ~steps[step].byHuman /\ ~steps[step].dispatched
    <3>1. /\ pc = "operate" /\ pc' \in {"completed", "failed"} /\ step \in StepIds
          /\ UNCHANGED <<step, steps, result>>
          /\ attempts' = [attempts EXCEPT ![step] = attempts[step] + 1]
      BY <1>1, <1>s DEF Operate, Goto, reportVars
    <3>2. Undone(step) /\ Marked(step)
      BY <3>1 DEF Standing, Progress, InOrder, Marks, NotYetDone, InStep, Acting, Attempted
    <3>3. QED BY <1>0, <3>1, <3>2 DEF Undone, Marked, EngineTypeOK
  <2>1. Marks'
    BY <1>0, <2>0 DEF Standing, Marks, Marked, EngineTypeOK
  <2>2. VerdictPlace'
    BY <2>0 DEF Standing, Progress, VerdictPlace, Concluded
  <2>3. InOrder'
    <3>1. \A i \in StepIds : (i < step => DoneOnce(i)') /\ (i > step => Undone(i)')
      BY <1>0, <2>0 DEF Standing, Progress, InOrder, Undone, DoneOnce, EngineTypeOK
    <3>2. attempts'[step] = 1 /\ ~steps'[step].byHuman
      BY <1>0, <2>0 DEF EngineTypeOK
    <3>3. QED BY <2>0, <3>1, <3>2
              DEF InOrder, NotYetDone, Attempted, InStep, Acting, BeforeHuman, WithHuman,
                  AfterHuman, DoneOnce
  <2>4. QED BY <2>1, <2>2, <2>3 DEF Standing, Progress
<1>2. CASE RecordCompleted
  <2>0. step \in StepIds /\ attempts[step] = 1 /\ ~steps[step].byHuman /\ pc = "completed"
    BY <1>0, <1>2, <1>s
       DEF RecordCompleted, Standing, Progress, InOrder, Attempted
  <2>1. CASE FailMarked("EVIDENCE_ERROR", TRUE)
    <3>1. TRUE \in BOOLEAN /\ "EVIDENCE_ERROR" \in Codes
      BY CodeFacts
    <3>2. QED BY <1>0, <1>2, <2>0, <2>1, <3>1, <1>u, MarkedEnds, EndStanding
              DEF RecordCompleted, historyVars
  <2>2. CASE /\ steps' = [steps EXCEPT ![step].dispatched = TRUE]
             /\ pc' \in {"output", "postcondition"}
             /\ UNCHANGED result
    <3>0. /\ \A i \in StepIds : /\ steps'[i].byHuman = steps[i].byHuman
                                /\ i # step => steps'[i].dispatched = steps[i].dispatched
          /\ steps'[step].dispatched = TRUE
          /\ UNCHANGED <<step, attempts>>
      BY <1>0, <1>2, <2>0, <2>2 DEF RecordCompleted, historyVars, EngineTypeOK, StepRecords
    <3>1. Marks'
      BY <2>0, <2>2, <3>0 DEF Standing, Marks, Marked
    <3>2. VerdictPlace'
      BY <2>0, <2>2, <3>0 DEF Standing, Progress, VerdictPlace, Concluded
    <3>3. InOrder'
      <4>1. \A i \in StepIds : (i < step => DoneOnce(i)') /\ (i > step => Undone(i)')
        BY <3>0 DEF Standing, Progress, InOrder, Undone, DoneOnce
      <4>2. attempts'[step] = 1 /\ ~steps'[step].byHuman
        BY <2>0, <3>0
      <4>3. QED BY <2>2, <3>0, <4>1, <4>2
                DEF InOrder, NotYetDone, Attempted, DoneOnce
    <3>4. QED BY <3>1, <3>2, <3>3 DEF Standing, Progress
  <2>3. QED BY <1>2, <2>1, <2>2 DEF RecordCompleted
<1>3. CASE RecordFailed
  <2>0. step \in StepIds /\ attempts[step] = 1 /\ pc = "failed"
    BY <1>0, <1>3, <1>s DEF RecordFailed, Standing, Progress, InOrder, Attempted
  <2>1. CountedSince = TRUE
    BY <1>0, <2>0 DEF Counted, CountedSince, EngineTypeOK
  <2>2. \E code \in Codes : FailMarked(code, TRUE)
    BY <1>3, <2>1 DEF RecordFailed
  <2>3. QED BY <1>0, <1>3, <2>0, <2>2, <1>u, MarkedEnds, EndStanding
            DEF RecordFailed, historyVars
<1>4. CASE RecordOutput
  <2>1. CASE \E code \in Codes : Fail(code)
    BY <1>0, <1>4, <2>1, <1>u, FailEnds, EndStanding DEF RecordOutput, historyVars
  <2>2. CASE CompleteStep(Current)
    <3>1. step \in StepIds /\ pc = "output" /\ UNCHANGED <<step, attempts>>
      BY <1>4, <1>s DEF RecordOutput, historyVars
    <3>2. QED BY <1>0, <2>2, <3>1, CompleteStanding
  <2>3. QED BY <1>4, <2>1, <2>2 DEF RecordOutput
<1>5. QED BY <1>1, <1>2, <1>3, <1>4

(* Waiting for a condition. *)
LEMMA AwaitStanding ==
  ASSUME TypeOK, Control, Standing,
         WaitFails \/ AwaitPostcondition \/ AwaitCheckpoint
  PROVE  Standing'
<1> USE CodeFacts
<1>0. EngineTypeOK /\ StepPlace
  BY DEF TypeOK, Control
<1>u. {"postcondition", "checkpoint"} \subseteq Underway
  BY UnderwayFacts, LabelFacts
<1>1. CASE WaitFails
  BY <1>0, <1>1, <1>u, FailEnds, EndStanding DEF WaitFails, ObserveFails, historyVars
<1>2. CASE AwaitPostcondition
  <2>0. pc = "postcondition" /\ UNCHANGED <<step, attempts, startedAs>> /\ step \in StepIds
    BY <1>0, <1>2 DEF AwaitPostcondition, Await, historyVars, StepPlace, InStep
  <2>1. CASE \E code \in Codes : Fail(code) \/ Outcome
    BY <1>0, <2>0, <2>1, <1>u, FailEnds, EndStanding
  <2>2. CASE Goto(pc)
    BY <1>0, <2>0, <2>2, PassStanding DEF Goto, reportVars, Passes, SamePhase
  <2>3. CASE CompleteStep(Current)
    BY <1>0, <2>0, <2>3, CompleteStanding
  <2>4. QED BY <1>2, <2>1, <2>2, <2>3 DEF AwaitPostcondition, Await, PollAgain
<1>3. CASE AwaitCheckpoint
  <2>0. pc = "checkpoint" /\ UNCHANGED <<step, attempts, startedAs>> /\ step = Checkpoint
    BY <1>0, <1>3 DEF AwaitCheckpoint, Await, historyVars, StepPlace
  <2>1. CASE \E code \in Codes : Fail(code) \/ Outcome
    BY <1>0, <2>0, <2>1, <1>u, FailEnds, EndStanding
  <2>2. CASE Goto(pc)
    BY <1>0, <2>0, <2>2, PassStanding DEF Goto, reportVars, Passes, SamePhase
  <2>3. CASE Succeed
    <3>0. pc' = "terminal" /\ result'.status = "SUCCESS" /\ UNCHANGED steps
      BY <2>3 DEF Succeed, NoResult
    <3>1. Marks'
      BY <2>0, <3>0 DEF Standing, Marks, Marked
    <3>2. VerdictPlace'
      BY <2>0, <3>0 DEF VerdictPlace, Concluded
    <3>3. InOrder'
      BY <2>0, <3>0, PlanFacts DEF Standing, Progress, InOrder, Undone, DoneOnce
    <3>4. QED BY <3>1, <3>2, <3>3 DEF Standing, Progress
  <2>4. QED BY <1>3, <2>1, <2>2, <2>3 DEF AwaitCheckpoint, Await, PollAgain
<1>4. QED BY <1>1, <1>2, <1>3

(* Up to the human. *)
LEMMA AskStanding ==
  ASSUME TypeOK, Control, Standing,
         ObservePre \/ ObservePreFails \/ CapturePre \/ RequestIntervention
         \/ EscalateControl \/ AcceptControl
  PROVE  Standing'
<1>0. EngineTypeOK /\ UNCHANGED <<step, attempts, startedAs>>
  BY DEF TypeOK, ObservePre, ObservePreFails, ObserveFails, CapturePre, RequestIntervention,
         EscalateControl, AcceptControl, historyVars
<1>1. /\ pc \in BeforeHuman \cup {"accept"}
      /\ \/ \E code \in Codes : Fail(code)
         \/ \E b \in BeforeHuman \cup {"accept", "human"} : Goto(b)
  BY CodeFacts
     DEF ObservePre, ObservePreFails, ObserveFails, CapturePre, RequestIntervention,
         EscalateControl, AcceptControl, EarlyEmit, BeforeHuman
<1>2. CASE \E code \in Codes : Fail(code)
  <2>1. pc \in Underway \ {"completed", "failed"}
    BY <1>1, UnderwayFacts, LabelFacts DEF BeforeHuman
  <2>2. QED BY <1>0, <1>2, <2>1, FailEnds, EndStanding
<1>3. CASE \E b \in BeforeHuman \cup {"accept", "human"} : Goto(b)
  <2>1. Passes /\ SamePhase
    BY <1>0, <1>1, <1>3
       DEF Goto, reportVars, Passes, SamePhase, NotYetDone, InStep, BeforeHuman, WithHuman,
           Attempted
  <2>2. QED BY <1>0, <2>1, PassStanding
<1>4. QED BY <1>1, <1>2, <1>3

(* The human, and the page. *)
LEMMA HumanStanding ==
  ASSUME TypeOK, Control, Standing,
         HumanActs \/ HandsBack \/ HandlerRaises \/ PageDrifts
  PROVE  Standing'
<1>0. EngineTypeOK
  BY DEF TypeOK
<1>1. CASE HumanActs \/ HandsBack \/ PageDrifts
  <2>1. Passes /\ SamePhase
    BY <1>1 DEF HumanActs, HandsBack, PageDrifts, Goto, reportVars, historyVars, Passes,
                SamePhase, NotYetDone, InStep, WithHuman, Attempted
  <2>2. QED BY <1>0, <2>1, PassStanding
<1>2. CASE HandlerRaises
  <2>0. /\ pc = "human" /\ pc' = "ending" /\ result'.status = "RAISED"
        /\ UNCHANGED <<step, steps, attempts>>
    BY <1>2 DEF HandlerRaises, NoResult, historyVars
  <2>1. Marks'
    BY <2>0 DEF Standing, Marks, Marked
  <2>2. VerdictPlace'
    BY <2>0 DEF VerdictPlace, Concluded
  <2>3. InOrder'
    BY <2>0 DEF Standing, Progress, InOrder, Undone, DoneOnce, NotYetDone, InStep, Attempted,
                WithHuman, AfterHuman, Acting, BeforeHuman
  <2>4. QED BY <2>1, <2>2, <2>3 DEF Standing, Progress
<1>3. QED BY <1>1, <1>2

(* Back from the human. *)
LEMMA ReturnStanding ==
  ASSUME TypeOK, Control, Standing,
         RecordHandBack \/ ReturnControl \/ Verify \/ VerifyBlind \/ CapturePost
         \/ RecordVerified \/ Settle \/ RestoreControl
  PROVE  Standing'
<1> USE CodeFacts
<1>0. EngineTypeOK /\ StepPlace /\ UNCHANGED <<step, attempts, startedAs>>
  BY DEF TypeOK, Control, RecordHandBack, ReturnControl, Verify, VerifyBlind, CapturePost,
         RecordVerified, Settle, RestoreControl, historyVars
<1>u. {"verify", "settle", "restore"} \subseteq Underway
  BY UnderwayFacts, LabelFacts
<1>1. CASE RecordHandBack \/ ReturnControl \/ VerifyBlind \/ CapturePost \/ RecordVerified
  <2>1. Passes /\ SamePhase
    BY <1>0, <1>1
       DEF RecordHandBack, ReturnControl, VerifyBlind, CapturePost, RecordVerified, Goto,
           reportVars, Passes, SamePhase, NotYetDone, InStep, WithHuman, AfterHuman, Attempted
  <2>2. QED BY <1>0, <2>1, PassStanding
<1>2. CASE Verify
  <2>1. CASE Outcome
    BY <1>0, <1>2, <2>1, <1>u, FailEnds, EndStanding DEF Verify
  <2>2. CASE Goto("postshot") \/ Goto(pc)
    <3>1. Passes /\ SamePhase
      BY <1>0, <1>2, <2>2
         DEF Verify, Goto, reportVars, Passes, SamePhase, NotYetDone, InStep, AfterHuman,
             Attempted
    <3>2. QED BY <1>0, <3>1, PassStanding
  <2>3. QED BY <1>2, <2>1, <2>2 DEF Verify, PollAgain
<1>3. CASE Settle
  <2>0. /\ pc = "settle" /\ step \in StepIds /\ UNCHANGED <<step, attempts>>
        /\ attempts[step] = 0 /\ ~steps[step].byHuman /\ ~steps[step].dispatched
    BY <1>0, <1>3
       DEF Settle, StepPlace, InStep, AfterHuman, Standing, Progress, InOrder, Undone, Marks,
           Marked, NotYetDone, Attempted
  <2>1. CASE FailNoRetry("UNKNOWN_COMMIT_STATE")
    BY <1>0, <2>0, <2>1, <1>u, FailEnds, EndStanding
  <2>2. CASE \E code \in Codes : Stop("FAILURE", code, "no", ByHuman)
    <3>1. Halts(Current.dispatched, TRUE)
      <4>1. PICK code \in Codes : Stop("FAILURE", code, "no", ByHuman)
        BY <2>2
      <4>2. QED BY <1>0, <4>1, FailHalts
    <3>2. Current.dispatched = FALSE
      BY <1>0, <2>0, CurrentFacts DEF StepRecords
    <3>3. Halts(FALSE, TRUE) /\ pc \in Underway
      BY <2>0, <3>1, <3>2, <1>u
    <3>4. /\ FALSE <=> attempts[step] = 1
          /\ TRUE = steps[step].byHuman \/ (attempts[step] = 0 /\ TRUE = TRUE)
      BY <2>0
    <3>5. QED BY <1>0, <2>0, <3>3, <3>4, HaltStanding
  <2>3. CASE pc' = "restore" /\ steps' = [steps EXCEPT ![step] = ByHuman] /\ UNCHANGED result
    <3>0. /\ \A i \in StepIds : i # step => steps'[i] = steps[i]
          /\ steps'[step].byHuman /\ ~steps'[step].dispatched
      BY <1>0, <2>0, <2>3, CurrentFacts DEF EngineTypeOK
    <3>1. Marks'
      BY <2>0, <2>3, <3>0 DEF Standing, Marks, Marked
    <3>2. VerdictPlace'
      BY <2>0, <2>3, <3>0 DEF Standing, Progress, VerdictPlace, Concluded
    <3>3. InOrder'
      <4>1. \A i \in StepIds : (i < step => DoneOnce(i)') /\ (i > step => Undone(i)')
        BY <1>0, <2>0, <3>0 DEF Standing, Progress, InOrder, Undone, DoneOnce, EngineTypeOK
      <4>2. QED BY <2>0, <2>3, <3>0, <4>1 DEF InOrder, NotYetDone, Attempted, DoneOnce
    <3>4. QED BY <3>1, <3>2, <3>3 DEF Standing, Progress
  <2>4. QED BY <1>3, <2>1, <2>2, <2>3 DEF Settle
<1>4. CASE RestoreControl
  <2>0. pc = "restore" /\ step \in StepIds
    BY <1>0, <1>4 DEF RestoreControl, StepPlace, InStep, AfterHuman
  <2>1. CASE Fail("EVIDENCE_ERROR")
    BY <1>0, <2>0, <2>1, <1>u, FailEnds, EndStanding
  <2>2. CASE CompleteStep(Current)
    BY <1>0, <2>0, <2>2, CompleteStanding
  <2>3. QED BY <1>4, <2>1, <2>2 DEF RestoreControl
<1>5. QED BY <1>1, <1>2, <1>3, <1>4

(* Ending, and beginning again. *)
LEMMA EndingStanding ==
  ASSUME TypeOK, Control, Standing,
         SkipTerminal \/ ReportOutcome \/ RecordTerminal \/ Finish \/ StartRun
  PROVE  Standing'
<1>0. EngineTypeOK
  BY DEF TypeOK
<1>1. CASE StartRun
  <2>0. /\ pc' = "begin" /\ step' = 0 /\ result'.status = "NONE"
        /\ \A i \in StepIds : /\ attempts'[i] = 0
                              /\ steps'[i].byHuman = FALSE /\ steps'[i].dispatched = FALSE
    BY <1>1 DEF StartRun, NoResult, NotReached
  <2>1. Marks'
    BY <2>0 DEF Marks, Marked
  <2>2. VerdictPlace'
    BY <2>0 DEF VerdictPlace, Concluded
  <2>3. InOrder'
    BY <2>0, PlanFacts DEF InOrder, Undone
  <2>4. QED BY <2>1, <2>2, <2>3 DEF Standing, Progress
<1>2. CASE SkipTerminal \/ ReportOutcome \/ RecordTerminal \/ Finish
  <2>0. pc \in Concluded /\ UNCHANGED <<step, steps, attempts, outputs, startedAs>>
    BY <1>2 DEF SkipTerminal, ReportOutcome, RecordTerminal, Finish, Goto, Unproven,
                reportVars, historyVars, Concluded
  <2>1. CASE Unproven
    <3>0. pc' = "ending" /\ result'.status = "FAILURE"
      BY <2>1 DEF Unproven
    <3>1. Marks'
      BY <2>0, <3>0 DEF Standing, Marks, Marked, Concluded
    <3>2. VerdictPlace'
      BY <2>0, <3>0 DEF VerdictPlace, Concluded
    <3>3. InOrder'
      BY <2>0, <3>0
         DEF Standing, Progress, InOrder, Undone, DoneOnce, NotYetDone, InStep, Attempted,
             WithHuman, AfterHuman, Acting, BeforeHuman
    <3>4. QED BY <3>1, <3>2, <3>3 DEF Standing, Progress
  <2>2. CASE ~Unproven
    <3>1. Passes /\ SamePhase
      BY <1>2, <2>0, <2>2
         DEF SkipTerminal, ReportOutcome, RecordTerminal, Finish, Goto, reportVars, Passes,
             SamePhase, Concluded
    <3>2. QED BY <1>0, <3>1, PassStanding
  <2>3. QED BY <2>1, <2>2
<1>3. QED BY <1>1, <1>2

------------------------------------------------------------------------------
(* What the recorder has counted, against what has been announced. *)

Counts == Counted /\ Tally

(* Only an announced dispatch is counted. *)
LEMMA CountFacts ==
  ASSUME RecorderTypeOK
  PROVE  /\ \A type \in EventTypes : Written(type) \/ NotWritten(type) \/ LateEmit(type)
              => rec'.dispatches = rec.dispatches
         /\ ArtifactStored \/ ArtifactRefused => rec'.dispatches = rec.dispatches
         /\ \A s \in 0..N : SetStep(s) => rec'.dispatches = rec.dispatches
         /\ DispatchWritten => rec'.dispatches = rec.dispatches + 1
         /\ DispatchNotWritten => rec'.dispatches = rec.dispatches
         /\ \A type \in EventTypes : BeginWritten(type) => rec'.dispatches = 0
         /\ UNCHANGED recorderVars => rec'.dispatches = rec.dispatches
<1>0. rec \in RecStates
  BY DEF RecorderTypeOK
<1>1. \A type \in EventTypes : Written(type) \/ NotWritten(type)
        => rec'.dispatches = rec.dispatches
  BY <1>0 DEF Written, NotWritten, recorderVars, RecStates
<1>2. ArtifactStored \/ ArtifactRefused => rec'.dispatches = rec.dispatches
  BY <1>0 DEF ArtifactStored, ArtifactRefused, recorderVars, RecStates
<1>3. \A s \in 0..N : SetStep(s) => rec'.dispatches = rec.dispatches
  BY <1>0 DEF SetStep, RecStates
<1>4. DispatchWritten => rec'.dispatches = rec.dispatches + 1
  BY <1>0 DEF DispatchWritten, RecStates
<1>5. DispatchNotWritten => rec'.dispatches = rec.dispatches
  BY <1>1, EventFacts DEF DispatchNotWritten
<1>6. \A type \in EventTypes : BeginWritten(type) => rec'.dispatches = 0
  BY DEF BeginWritten, FreshRun, NoRun
<1>7. UNCHANGED recorderVars => rec'.dispatches = rec.dispatches
  BY DEF recorderVars
<1>8. QED BY <1>1, <1>2, <1>3, <1>4, <1>5, <1>6, <1>7 DEF LateEmit

Announced == {"operate", "completed", "failed"}

LEMMA DispatchedFinite == IsFiniteSet(Dispatched) /\ Cardinality(Dispatched) \in Nat
<1>1. IsFiniteSet(Dispatched)
  BY FS_Interval, FS_Subset, PlanFacts DEF Dispatched
<1>2. QED BY <1>1, FS_CardinalityType

LEMMA IdleCounts ==
  ASSUME pc' \notin Underway
  PROVE  Counts'
<1>1. {"locate", "dispatch", "operate", "completed", "failed"} \subseteq Underway
  BY UnderwayFacts, LabelFacts
<1>2. QED BY <1>1 DEF Counts, Counted, Tally

LEMMA HaltCounts ==
  ASSUME pc' = "terminal"
  PROVE  Counts'
BY IdleCounts, UnderwayFacts

(* A call that counts nothing and marks nothing. *)
LEMMA KeptCounts ==
  ASSUME Counts, pc \in Underway, rec'.dispatches = rec.dispatches,
         \A i \in StepIds : steps'[i].dispatched = steps[i].dispatched,
         pc \in Announced <=> pc' \in Announced,
         pc' \in {"locate", "dispatch"} => pc \in {"locate", "dispatch"},
         UNCHANGED before
  PROVE  Counts'
<1>1. Dispatched' = Dispatched
  BY DEF Dispatched
<1>2. Tally'
  BY <1>1 DEF Counts, Tally, Announced
<1>3. Counted'
  BY DEF Counts, Counted, Announced
<1>4. QED BY <1>2, <1>3 DEF Counts

LEMMA CompleteCounts ==
  ASSUME EngineTypeOK, Counts, step \in StepIds, pc \in Underway, pc \notin Announced,
         rec'.dispatches = rec.dispatches, UNCHANGED before, CompleteStep(Current)
  PROVE  Counts'
<1>1. /\ pc' = "step"
      /\ \A i \in StepIds : steps'[i].dispatched = steps[i].dispatched
  BY DEF CompleteStep, Current, EngineTypeOK, StepRecords
<1>2. QED BY <1>1, KeptCounts DEF Announced

LEMMA BeginCounts ==
  ASSUME TypeOK, Control, Standing, Counts,
         StartRun \/ BeginEvidence \/ Bind \/ BeginStep \/ BeginCheckpoint
  PROVE  Counts'
<1>0. EngineTypeOK /\ RecorderTypeOK /\ StepPlace
  BY DEF TypeOK, Control
<1>u. {"bind", "step"} \subseteq Underway /\ "begin" \notin Underway
  BY UnderwayFacts, LabelFacts
<1>1. CASE StartRun
  BY <1>1, <1>u, IdleCounts DEF StartRun
<1>2. CASE BeginEvidence
  <2>1. CASE Fail("EVIDENCE_ERROR")
    BY <2>1, HaltCounts DEF Fail, Stop
  <2>2. CASE BeginWritten("RUN_STARTED") /\ Goto("bind")
    <3>0. pc' = "bind" /\ step = 0 /\ UNCHANGED steps /\ rec'.dispatches = 0
      BY <1>0, <1>2, <2>2, CountFacts, EventFacts DEF BeginEvidence, Goto, reportVars, StepPlace
    <3>1. Dispatched' = {}
      BY <1>0, <3>0, PlanFacts
         DEF Dispatched, Standing, Progress, InOrder, Undone, Marks, Marked
    <3>2. Cardinality(Dispatched') = 0
      BY <3>1, FS_EmptySet
    <3>3. QED BY <3>0, <3>2 DEF Counts, Counted, Tally
  <2>3. QED BY <1>2, <2>1, <2>2 DEF BeginEvidence
<1>3. CASE Bind
  <2>1. CASE Fail("INVALID_INPUT")
    BY <2>1, HaltCounts DEF Fail, Stop
  <2>2. CASE Goto("step")
    BY <1>0, <1>3, <2>2, <1>u, KeptCounts, CountFacts
       DEF Bind, Goto, reportVars, viewVars, Announced
  <2>3. QED BY <1>3, <2>1, <2>2 DEF Bind
<1>4. CASE BeginStep \/ BeginCheckpoint
  <2>1. rec'.dispatches = rec.dispatches
    BY <1>0, <1>4, CountFacts, PlanFacts DEF BeginStep, BeginCheckpoint, StepPlace, NoStep
  <2>2. QED BY <1>4, <2>1, <1>u, KeptCounts
            DEF BeginStep, BeginCheckpoint, Goto, reportVars, Announced
<1>5. QED BY <1>1, <1>2, <1>3, <1>4

LEMMA GateCounts ==
  ASSUME TypeOK, Control, Standing, Counts,
         ResolveFails \/ Resolve \/ Decide \/ Locate \/ RecordDispatch
  PROVE  Counts'
<1>0. EngineTypeOK /\ RecorderTypeOK /\ StepPlace
  BY DEF TypeOK, Control
<1>u. {"resolve", "gate", "locate", "dispatch", "operate", "pre"} \subseteq Underway
  BY UnderwayFacts, LabelFacts
<1>h. CASE pc' = "terminal"
  BY <1>h, HaltCounts
<1>1. CASE ResolveFails
  BY <1>1, HaltCounts DEF ResolveFails, ObserveFails, Fail, Stop
<1>2. CASE Resolve /\ pc' # "terminal"
  <2>1. /\ pc = "resolve" /\ pc' \in {"resolve", "gate"} /\ UNCHANGED <<steps, before>>
        /\ rec'.dispatches = rec.dispatches
    BY <1>2 DEF Resolve, Goto, reportVars, Fail, Outcome, Stop, recorderVars
  <2>2. QED BY <2>1, <1>u, KeptCounts DEF Announced
<1>3. CASE Decide /\ pc' # "terminal"
  <2>1. /\ pc = "gate" /\ pc' \in {"locate", "dispatch", "pre"} /\ UNCHANGED steps
        /\ before' = rec.dispatches
    BY <1>3 DEF Decide, Obey, Goto, reportVars, Fail, FailMarked, Stop
  <2>2. rec'.dispatches = rec.dispatches
    BY <1>0, <1>3, CountFacts, EventFacts DEF Decide
  <2>3. Dispatched' = Dispatched
    BY <2>1 DEF Dispatched
  <2>4. Tally'
    BY <2>1, <2>2, <2>3, <1>u DEF Counts, Tally
  <2>5. Counted'
    BY <2>1, <2>2 DEF Counted
  <2>6. QED BY <2>4, <2>5 DEF Counts
<1>4. CASE Locate /\ pc' # "terminal"
  <2>1. /\ pc = "locate" /\ pc' = "dispatch" /\ UNCHANGED <<steps, before>>
        /\ rec'.dispatches = rec.dispatches
    BY <1>4 DEF Locate, Goto, reportVars, viewVars, FailMarked, Stop, recorderVars
  <2>2. QED BY <2>1, <1>u, KeptCounts DEF Announced
<1>5. CASE RecordDispatch /\ pc' # "terminal"
  <2>1. /\ pc = "dispatch" /\ pc' = "operate" /\ UNCHANGED <<steps, before>> /\ DispatchWritten
    BY <1>5 DEF RecordDispatch, Goto, reportVars, viewVars, FailMarked, Stop
  <2>2. rec'.dispatches = rec.dispatches + 1
    BY <1>0, <2>1, CountFacts
  <2>3. Dispatched' = Dispatched
    BY <2>1 DEF Dispatched
  <2>4. rec.dispatches = Cardinality(Dispatched)
    BY <2>1, <1>u, DispatchedFinite DEF Counts, Tally
  <2>5. QED BY <2>1, <2>2, <2>3, <2>4, <1>u DEF Counts, Counted, Tally
<1>6. QED BY <1>h, <1>1, <1>2, <1>3, <1>4, <1>5

LEMMA ActCounts ==
  ASSUME TypeOK, Control, Standing, Counts,
         Operate \/ RecordCompleted \/ RecordFailed \/ RecordOutput
  PROVE  Counts'
<1>0. EngineTypeOK /\ RecorderTypeOK /\ StepPlace
  BY DEF TypeOK, Control
<1>u. {"operate", "completed", "failed", "output", "postcondition"} \subseteq Underway
  BY UnderwayFacts, LabelFacts
<1>h. CASE pc' = "terminal"
  BY <1>h, HaltCounts
<1>1. CASE Operate
  BY <1>1, <1>u, KeptCounts
     DEF Operate, Goto, reportVars, viewVars, recorderVars, Announced
<1>2. CASE RecordCompleted /\ pc' # "terminal"
  <2>1. /\ pc = "completed" /\ step \in StepIds /\ pc' \in {"output", "postcondition"}
        /\ steps' = [steps EXCEPT ![step].dispatched = TRUE]
        /\ Written("ACTION_COMPLETED")
    BY <1>0, <1>2 DEF RecordCompleted, FailMarked, Stop, StepPlace, InStep, Acting
  <2>2. rec'.dispatches = rec.dispatches
    BY <1>0, <2>1, CountFacts, EventFacts
  <2>3. /\ steps'[step].dispatched = TRUE
        /\ \A i \in StepIds : i # step => steps'[i].dispatched = steps[i].dispatched
    BY <1>0, <2>1 DEF EngineTypeOK, StepRecords
  <2>4. Dispatched' = Dispatched \cup {step}
    BY <2>1, <2>3 DEF Dispatched
  <2>5. step \notin Dispatched
    BY <2>1 DEF Dispatched, Standing, Marks
  <2>7. Cardinality(Dispatched') = Cardinality(Dispatched) + 1
    BY <2>4, <2>5, DispatchedFinite, FS_AddElement
  <2>8. rec.dispatches = Cardinality(Dispatched) + 1 /\ Cardinality(Dispatched) \in Nat
    BY <2>1, <1>u, DispatchedFinite DEF Counts, Tally
  <2>9. QED BY <2>1, <2>2, <2>7, <2>8 DEF Counts, Counted, Tally
<1>3. CASE RecordFailed
  BY <1>3, HaltCounts DEF RecordFailed, FailMarked, Stop
<1>4. CASE RecordOutput /\ pc' # "terminal"
  <2>1. /\ pc = "output" /\ step \in StepIds /\ CompleteStep(Current)
        /\ UNCHANGED before /\ rec'.dispatches = rec.dispatches
    BY <1>0, <1>4
       DEF RecordOutput, Fail, Stop, viewVars, recorderVars, StepPlace, InStep
  <2>2. QED BY <1>0, <2>1, <1>u, CompleteCounts DEF Announced
<1>5. QED BY <1>h, <1>1, <1>2, <1>3, <1>4

LEMMA AwaitCounts ==
  ASSUME TypeOK, Control, Standing, Counts,
         WaitFails \/ AwaitPostcondition \/ AwaitCheckpoint
  PROVE  Counts'
<1>0. EngineTypeOK /\ StepPlace
  BY DEF TypeOK, Control
<1>u. {"postcondition", "checkpoint"} \subseteq Underway
  BY UnderwayFacts, LabelFacts
<1>h. CASE pc' = "terminal"
  BY <1>h, HaltCounts
<1>1. CASE WaitFails
  BY <1>1, HaltCounts DEF WaitFails, ObserveFails, Fail, Stop
<1>2. CASE pc' # "terminal" /\ (AwaitPostcondition \/ AwaitCheckpoint)
  <2>1. /\ pc \in {"postcondition", "checkpoint"} /\ UNCHANGED before
        /\ rec'.dispatches = rec.dispatches
    BY <1>2 DEF AwaitPostcondition, AwaitCheckpoint, Await, recorderVars
  <2>2. CASE Goto(pc)
    BY <2>1, <2>2, <1>u, KeptCounts DEF Goto, reportVars, Announced
  <2>3. CASE pc = "postcondition" /\ CompleteStep(Current)
    BY <1>0, <2>1, <2>3, <1>u, CompleteCounts DEF Announced, StepPlace, InStep
  <2>4. QED BY <1>2, <2>2, <2>3
            DEF AwaitPostcondition, AwaitCheckpoint, Await, PollAgain, Succeed, Fail, Outcome,
                Stop
<1>3. QED BY <1>h, <1>1, <1>2

LEMMA HandoverCounts ==
  ASSUME TypeOK, Control, Standing, Counts, Handover
  PROVE  Counts'
<1>0. EngineTypeOK /\ RecorderTypeOK /\ StepPlace
  BY DEF TypeOK, Control
<1>u. BeforeHuman \cup AfterHuman \cup {"accept", "handback", "return"} \subseteq Underway
  BY UnderwayFacts, LabelFacts DEF BeforeHuman, AfterHuman
<1>n. Announced \cap (BeforeHuman \cup AfterHuman \cup {"accept", "handback", "return"}) = {}
  BY DEF BeforeHuman, AfterHuman, Announced
<1>h. CASE pc' = "terminal"
  BY <1>h, HaltCounts
<1>1. rec'.dispatches = rec.dispatches
  BY <1>0, CountFacts, EventFacts
     DEF Handover, ObservePre, ObservePreFails, ObserveFails, CapturePre, RequestIntervention,
         EscalateControl, AcceptControl, EarlyEmit, RecordHandBack, ReturnControl, Verify,
         VerifyBlind, CapturePost, RecordVerified, Settle, RestoreControl
<1>2. /\ pc \in BeforeHuman \cup AfterHuman \cup {"accept", "handback", "return"}
      /\ UNCHANGED before
  BY DEF Handover, ObservePre, ObservePreFails, ObserveFails, CapturePre, RequestIntervention,
         EscalateControl, AcceptControl, RecordHandBack, ReturnControl, Verify,
         VerifyBlind, CapturePost, RecordVerified, Settle, RestoreControl, BeforeHuman,
         AfterHuman, viewVars
<1>3. CASE ~Settle /\ ~RestoreControl /\ pc' # "terminal"
  <2>1. /\ UNCHANGED steps
        /\ pc' \in BeforeHuman \cup AfterHuman \cup {"accept", "handback", "return", "human"}
    BY <1>3 DEF Handover, ObservePre, ObservePreFails, ObserveFails, CapturePre,
         RequestIntervention, EscalateControl, AcceptControl, EarlyEmit, RecordHandBack,
         ReturnControl, Verify, VerifyBlind, CapturePost, RecordVerified, PollAgain, Goto,
         reportVars, Fail, Outcome, Stop, BeforeHuman, AfterHuman
  <2>2. QED BY <1>1, <1>2, <2>1, <1>u, <1>n, KeptCounts DEF Announced, BeforeHuman, AfterHuman
<1>4. CASE Settle /\ pc' # "terminal"
  <2>1. /\ pc = "settle" /\ pc' = "restore" /\ step \in StepIds
        /\ steps' = [steps EXCEPT ![step] = ByHuman]
    BY <1>0, <1>4 DEF Settle, FailNoRetry, Stop, StepPlace, InStep, AfterHuman
  <2>2. \A i \in StepIds : steps'[i].dispatched = steps[i].dispatched
    BY <1>0, <2>1, CurrentFacts DEF EngineTypeOK
  <2>3. QED BY <1>1, <1>2, <2>1, <2>2, <1>u, KeptCounts DEF Announced
<1>5. CASE RestoreControl /\ pc' # "terminal"
  <2>1. pc = "restore" /\ step \in StepIds /\ CompleteStep(Current)
    BY <1>0, <1>5 DEF RestoreControl, Fail, Stop, StepPlace, InStep, AfterHuman
  <2>2. QED BY <1>0, <1>1, <1>2, <2>1, <1>u, CompleteCounts DEF Announced
<1>6. QED BY <1>h, <1>3, <1>4, <1>5

LEMMA EndingCounts ==
  ASSUME TypeOK, Standing, Counts, Ending \/ Human \/ PageDrifts
  PROVE  Counts'
<1>1. CASE Ending \/ HandlerRaises
  <2>1. pc' \in {"closing", "ending", "idle"}
    BY <1>1 DEF Ending, SkipTerminal, ReportOutcome, RecordTerminal, Finish, Goto, Unproven,
                HandlerRaises
  <2>2. QED BY <2>1, IdleCounts, UnderwayFacts
<1>2. CASE HumanActs \/ HandsBack
  <2>1. /\ pc = "human" /\ pc' \in {"human", "handback"} /\ UNCHANGED <<steps, before>>
        /\ rec'.dispatches = rec.dispatches
    BY <1>2 DEF HumanActs, HandsBack, Goto, reportVars, viewVars, recorderVars
  <2>2. QED BY <2>1, UnderwayFacts, LabelFacts, KeptCounts DEF Announced
<1>3. CASE PageDrifts
  <2>1. UNCHANGED <<pc, steps, before, rec>>
    BY <1>3 DEF PageDrifts, reportVars, viewVars, recorderVars
  <2>2. QED BY <2>1, IdleCounts, KeptCounts
<1>4. QED BY <1>1, <1>2, <1>3 DEF Human

------------------------------------------------------------------------------
(* Who may act, what the human did, what was judged, what was read. *)

ByHand == BeforeHuman \cup WithHuman \cup AfterHuman \cup {"accept"}

(* The calls that neither end a run, nor decide, nor operate. *)
Onward ==
  \/ pc' = pc
  \/ pc = "begin" /\ pc' = "bind"
  \/ pc = "bind" /\ pc' = "step" /\ step = 0
  \/ pc = "resolve" /\ pc' = "gate"
  \/ pc = "locate" /\ pc' = "dispatch"
  \/ pc = "dispatch" /\ pc' = "operate"
  \/ pc \in BeforeHuman \cup {"accept"} /\ pc' \in BeforeHuman \cup {"accept", "human"}
  \/ pc \in WithHuman \cup AfterHuman /\ pc' \in (WithHuman \cup AfterHuman) \ {"restore"}
  \/ pc \in Concluded /\ pc' \in {"closing", "ending", "idle"}

OwnerKept == \/ owner' = owner
             \/ pc \in ByHand /\ pc' \in ByHand /\ pc' # "terminal"

LEMMA OnwardFacts ==
  ASSUME Onward
  PROVE  /\ pc' \in Acting \cup ByHand => pc \in Acting \cup ByHand
         /\ pc' \in ByHand => pc \in ByHand
         /\ pc \in WithHuman \cup AfterHuman => pc' \in WithHuman \cup AfterHuman
         /\ pc' = "step" => pc = "step" \/ step = 0
         /\ pc = "step" => pc' = "step"
         /\ pc' \in {"output", "postcondition", "checkpoint", "terminal"} => pc' = pc
         /\ pc' \in {"locate", "dispatch", "operate"} => pc \in {"locate", "dispatch", "operate"}
         /\ pc \in {"closing", "ending", "idle"} => pc' \in {"closing", "ending", "idle"}
         /\ pc = "terminal" => pc' \in {"terminal", "closing", "ending", "idle"}
BY DEF Onward, ByHand, Acting, BeforeHuman, WithHuman, AfterHuman, Concluded

LEMMA PassConduct ==
  ASSUME EngineTypeOK, Standing, Conduct, Passes, UNCHANGED humanDid, Onward, OwnerKept,
         pc' \in {"locate", "dispatch", "operate"} => UNCHANGED snap
  PROVE  Conduct'
<1> USE OnwardFacts
<1>1. OwnedOnce'
  <2>1. pc \in ByHand => result.status # "SUCCESS" /\ startedAs = "AUTOMATION"
    BY DEF Standing, Progress, VerdictPlace, Concluded, ByHand, BeforeHuman, WithHuman,
           AfterHuman, Conduct, OwnedOnce
  <2>2. pc' \in ByHand => pc' \notin {"output", "postcondition", "checkpoint", "step"}
    BY DEF ByHand, BeforeHuman, WithHuman, AfterHuman
  <2>3. StuckOwnerBlocks'
    BY <2>1 DEF Conduct, OwnedOnce, StuckOwnerBlocks, Passes, OwnerKept
  <2>4. (pc \in Acting \cup ByHand => startedAs = "AUTOMATION")
    BY DEF Conduct, OwnedOnce, ByHand
  <2>5. (pc' \in Acting \cup ByHand => startedAs' = "AUTOMATION")
    BY <2>4 DEF Passes
  <2>6. PastHandover' => owner' = "AUTOMATION"
    BY <2>1, <2>2 DEF Conduct, OwnedOnce, PastHandover, Passes, OwnerKept
  <2>7. QED BY <2>3, <2>5, <2>6 DEF OwnedOnce, ByHand
<1>2. Remembered'
  BY DEF Conduct, Remembered, Passes
<1>3. Judged'
  BY DEF Conduct, Judged, Passes, RequestOn, Act
<1>4. Outputs'
  <2>1. (pc' = "output" => Act'.action = "READ")
    BY DEF Conduct, Outputs, Passes, Act
  <2>2. pc' \in ByHand \cup {"postcondition"} => Act'.action # "READ"
    BY DEF Conduct, Outputs, Passes, Act, ByHand
  <2>3. \A i \in StepIds : Past(i)' <=> Past(i)
    BY PlanFacts DEF Past, Passes
  <2>4. outputs' = {i \in StepIds : Past(i)' /\ Plan[i].action = "READ"}
    BY <2>3 DEF Conduct, Outputs, Passes
  <2>5. QED BY <2>1, <2>2, <2>4 DEF Outputs, ByHand
<1>5. QED BY <1>1, <1>2, <1>3, <1>4 DEF Conduct

(* Ending forgets nothing the human did: the record says so, or the caller *)
(* is told not to retry.                                                   *)
LEMMA HaltConduct ==
  ASSUME EngineTypeOK, Standing, Conduct, pc \in (Underway \cup {"begin"}) \ {"step"},
         UNCHANGED <<step, attempts, humanDid, startedAs>>,
         owner' = owner \/ pc \in ByHand,
         NEW d, NEW h, Halts(d, h),
         step \in StepIds /\ steps[step].byHuman => h = TRUE,
         \/ pc \notin WithHuman \cup AfterHuman
         \/ step \in StepIds /\ h = TRUE
         \/ result'.status = "BUSINESS_OUTCOME" \/ result'.retry = "no"
  PROVE  Conduct'
<1>0. pc' = "terminal" /\ result'.status # "SUCCESS"
  BY DEF Halts
<1>t. pc' \notin Acting \cup ByHand \cup {"output", "postcondition", "checkpoint", "step",
                                          "locate", "dispatch", "operate"}
  BY <1>0 DEF Acting, ByHand, BeforeHuman, WithHuman, AfterHuman
<1>1. OwnedOnce'
  <2>1. pc \in ByHand => startedAs = "AUTOMATION"
    BY DEF Conduct, OwnedOnce, ByHand
  <2>2. StuckOwnerBlocks'
    BY <2>1 DEF Conduct, OwnedOnce, StuckOwnerBlocks
  <2>3. QED BY <1>0, <1>t, <2>2 DEF OwnedOnce, PastHandover, ByHand
<1>2. Remembered'
  <2> SUFFICES ASSUME NEW i \in humanDid
               PROVE  steps'[i].byHuman \/ (result'.status = "FAILURE" => result'.retry = "no")
    BY <1>0 DEF Remembered
  <2>1. i \in StepIds /\ pc \notin {"terminal", "closing", "ending", "idle"}
    BY UnderwayFacts, LabelFacts DEF EngineTypeOK
  <2>2. CASE i # step
    BY <2>1, <2>2 DEF Conduct, Remembered, Halts
  <2>3. CASE i = step /\ steps[step].byHuman
    BY <2>1, <2>3 DEF Halts
  <2>4. CASE i = step /\ pc \in WithHuman \cup AfterHuman
    BY <2>1, <2>4 DEF Halts
  <2>5. QED BY <2>1, <2>2, <2>3, <2>4 DEF Conduct, Remembered
<1>3. Judged'
  BY <1>t DEF Judged
<1>4. Outputs'
  <2>1. \A i \in StepIds : Past(i)' <=> Past(i)
    BY <1>0 DEF Past
  <2>2. QED BY <1>0, <1>t, <2>1 DEF Conduct, Outputs, Halts, ByHand
<1>5. QED BY <1>1, <1>2, <1>3, <1>4 DEF Conduct

(* A step is complete once automation owns control. *)
LEMMA CompleteConduct ==
  ASSUME EngineTypeOK, Standing, Conduct, step \in StepIds, pc \in {"output", "postcondition", "restore"},
         UNCHANGED <<step, attempts, humanDid, startedAs>>, CompleteStep(Current),
         owner' = "AUTOMATION",
         outputs' = outputs \cup {i \in {step} : Plan[i].action = "READ"}
  PROVE  Conduct'
<1>0. /\ pc' = "step" /\ UNCHANGED result
      /\ \A i \in StepIds : steps'[i].byHuman = steps[i].byHuman
  BY DEF CompleteStep, Current, EngineTypeOK, StepRecords
<1>t. pc' \notin Acting \cup ByHand \cup {"output", "postcondition", "locate", "dispatch", "operate"}
  BY <1>0 DEF Acting, ByHand, BeforeHuman, WithHuman, AfterHuman
<1>1. OwnedOnce'
  <2>1. startedAs = "AUTOMATION"
    BY DEF Conduct, OwnedOnce, PastHandover, StuckOwnerBlocks, AfterHuman
  <2>2. QED BY <1>t, <2>1 DEF OwnedOnce, StuckOwnerBlocks, ByHand
<1>2. Remembered'
  <2>1. \A i \in humanDid : i \in StepIds /\ (steps[i].byHuman \/ (i = step /\ pc = "restore"))
    BY DEF Conduct, Remembered, WithHuman, AfterHuman, EngineTypeOK
  <2>2. pc = "restore" => steps[step].byHuman
    BY DEF Standing, Progress, InOrder
  <2>3. QED BY <1>0, <2>1, <2>2 DEF Remembered
<1>3. Judged'
  BY <1>t DEF Judged
<1>4. Outputs'
  <2>1. \A i \in StepIds : Past(i)' <=> Past(i) \/ i = step
    BY <1>0, PlanFacts DEF Past
  <2>2. outputs' = {i \in StepIds : Past(i)' /\ Plan[i].action = "READ"}
    BY <2>1 DEF Conduct, Outputs
  <2>3. QED BY <1>t, <2>2 DEF Outputs, ByHand
<1>5. QED BY <1>1, <1>2, <1>3, <1>4 DEF Conduct

(* A failure that keeps the record keeps what it says of the human. *)
LEMMA FailConduct ==
  ASSUME EngineTypeOK, StepPlace, Standing, Conduct,
         pc \in (Underway \cup {"begin"}) \ {"step"},
         UNCHANGED <<step, attempts, humanDid, startedAs>>,
         owner' = owner \/ pc \in ByHand,
         \/ /\ pc \notin (WithHuman \cup AfterHuman) \ {"restore"}
            /\ \E code \in Codes, d \in BOOLEAN : Fail(code) \/ FailMarked(code, d)
         \/ \E code \in Codes : FailNoRetry(code)
         \/ Outcome
  PROVE  Conduct'
<1>1. step \in StepIds /\ steps[step].byHuman => Current.byHuman = TRUE
  BY CurrentFacts DEF EngineTypeOK, StepRecords
<1>2. pc = "restore" => step \in StepIds /\ Current.byHuman = TRUE
  BY CurrentFacts
     DEF EngineTypeOK, StepRecords, Standing, Progress, InOrder, StepPlace, InStep, AfterHuman
<1>3. CASE \/ \E code \in Codes : FailNoRetry(code)
           \/ Outcome
  <2>1. /\ Halts(Current.dispatched, Current.byHuman)
        /\ result'.status = "BUSINESS_OUTCOME" \/ result'.retry = "no"
    BY <1>3, FailHalts
  <2>2. QED BY <1>1, <2>1, HaltConduct
<1>4. CASE /\ pc \notin (WithHuman \cup AfterHuman) \ {"restore"}
           /\ \E code \in Codes, d \in BOOLEAN : Fail(code) \/ FailMarked(code, d)
  <2>1. PICK code \in Codes, d \in BOOLEAN : Fail(code) \/ FailMarked(code, d)
    BY <1>4
  <2>2. \E x : Halts(x, Current.byHuman)
    BY <2>1, FailHalts
  <2>3. PICK x : Halts(x, Current.byHuman)
    BY <2>2
  <2>4. CASE pc # "restore"
    BY <1>1, <1>4, <2>3, <2>4, HaltConduct
  <2>5. CASE pc = "restore"
    BY <1>1, <1>2, <2>3, <2>5, HaltConduct
  <2>6. QED BY <2>4, <2>5
<1>5. QED BY <1>3, <1>4

LEMMA BeginConduct ==
  ASSUME TypeOK, Control, Standing, Conduct,
         StartRun \/ BeginEvidence \/ Bind \/ BeginStep \/ BeginCheckpoint
  PROVE  Conduct'
<1> USE CodeFacts
<1>0. EngineTypeOK /\ StepPlace
  BY DEF TypeOK, Control
<1>u. "bind" \in Underway
  BY UnderwayFacts, LabelFacts
<1>1. CASE StartRun
  <2>0. /\ pc' = "begin" /\ step' = 0 /\ result'.status = "NONE" /\ outputs' = {}
        /\ startedAs' = owner' /\ humanDid' = {} /\ \A i \in StepIds : attempts'[i] = 0
    BY <1>1 DEF StartRun, NoResult
  <2>1. OwnedOnce'
    BY <2>0 DEF OwnedOnce, PastHandover, StuckOwnerBlocks, Acting, BeforeHuman, WithHuman,
                AfterHuman
  <2>2. Remembered' /\ Judged'
    BY <2>0 DEF Remembered, Judged
  <2>3. Outputs'
    BY <2>0, PlanFacts DEF Outputs, Past, BeforeHuman, WithHuman, AfterHuman
  <2>4. QED BY <2>1, <2>2, <2>3 DEF Conduct
<1>2. CASE BeginEvidence \/ Bind
  <2>0. /\ pc \in {"begin", "bind"} /\ step = 0
        /\ UNCHANGED <<step, attempts, humanDid, startedAs, owner, snap>>
    BY <1>0, <1>2 DEF BeginEvidence, Bind, StepPlace, historyVars, viewVars
  <2>1. CASE \E code \in Codes : Fail(code)
    BY <1>0, <2>0, <2>1, <1>u, FailConduct DEF WithHuman, AfterHuman
  <2>2. CASE \/ pc = "begin" /\ Goto("bind")
             \/ pc = "bind" /\ Goto("step")
    BY <1>0, <2>0, <2>2, PassConduct DEF Goto, reportVars, Passes, Onward, OwnerKept
  <2>3. QED BY <1>2, <2>1, <2>2 DEF BeginEvidence, Bind
<1>3. CASE BeginStep \/ BeginCheckpoint
  <2>0. /\ pc = "step" /\ step' = step + 1 /\ pc' \in {"gate", "resolve", "checkpoint"}
        /\ UNCHANGED <<steps, attempts, result, outputs, humanDid, startedAs, owner>>
        /\ step \in 0..N /\ (pc' = "checkpoint" => step # 0)
    BY <1>0, <1>3, PlanFacts
       DEF BeginStep, BeginCheckpoint, Goto, reportVars, historyVars, StepPlace
  <2>1. OwnedOnce'
    BY <2>0 DEF Conduct, OwnedOnce, PastHandover, StuckOwnerBlocks, Acting, BeforeHuman,
                WithHuman, AfterHuman
  <2>2. Remembered' /\ Judged'
    BY <2>0 DEF Conduct, Remembered, Judged, WithHuman, AfterHuman
  <2>3. Outputs'
    <3>1. \A i \in StepIds : Past(i)' <=> Past(i)
      BY <2>0, PlanFacts DEF Past
    <3>2. QED BY <2>0, <3>1 DEF Conduct, Outputs, BeforeHuman, WithHuman, AfterHuman
  <2>4. QED BY <2>1, <2>2, <2>3 DEF Conduct
<1>4. QED BY <1>1, <1>2, <1>3

LEMMA GateConduct ==
  ASSUME TypeOK, Control, Standing, Conduct,
         ResolveFails \/ Resolve \/ Decide \/ Locate \/ RecordDispatch
  PROVE  Conduct'
<1>0. EngineTypeOK /\ StepPlace
  BY DEF TypeOK, Control
<1>u. /\ {"resolve", "gate", "locate", "dispatch"} \subseteq Underway
      /\ {"resolve", "gate", "locate", "dispatch"} \cap (WithHuman \cup AfterHuman) = {}
  BY UnderwayFacts, LabelFacts DEF WithHuman, AfterHuman
<1>s. /\ pc \in {"resolve", "gate", "locate", "dispatch"}
      /\ UNCHANGED <<step, attempts, humanDid, startedAs, owner>>
  BY DEF ResolveFails, ObserveFails, Resolve, Decide, Locate, RecordDispatch, historyVars
<1>c. CountedSince \in BOOLEAN
  BY DEF CountedSince
<1>h. CASE \/ \E code \in Codes, d \in BOOLEAN : Fail(code) \/ FailMarked(code, d)
           \/ Outcome
  BY <1>0, <1>u, <1>s, <1>h, FailConduct
<1>1. CASE ResolveFails
  BY <1>1, <1>h, CodeFacts DEF ResolveFails, ObserveFails
<1>2. CASE Resolve
  <2>1. CASE Goto("resolve") \/ Goto("gate")
    BY <1>0, <1>2, <1>s, <2>1, PassConduct
       DEF Resolve, Goto, reportVars, Passes, Onward, OwnerKept
  <2>2. QED BY <1>2, <1>h, <2>1, CodeFacts DEF Resolve
<1>3. CASE Decide
  <2>0. pc = "gate" /\ step \in StepIds /\ owner \in OwnerStates /\ UNCHANGED snap
    BY <1>0, <1>3 DEF Decide, StepPlace, InStep, EngineTypeOK
  <2>1. /\ ruling' = Authorize(Policy, IsAutomation, Request)
        /\ ruling'.decision # "DENY" => owner = "AUTOMATION"
    BY <1>3, <2>0, RulingTyped DEF Decide
  <2>2. CASE \E b \in {"locate", "dispatch", "pre"} : Goto(b) /\ Obey(ruling'.decision)
    <3>0. /\ pc' \in {"locate", "dispatch", "pre"} /\ UNCHANGED <<steps, outputs, result>>
          /\ pc' \in {"locate", "dispatch"} => ruling'.decision = "ALLOW"
          /\ pc' = "pre" => Act.action # "READ" /\ ruling'.decision = "REQUIRE_INTERVENTION"
      BY <2>2 DEF Obey, Goto, Fail, Stop, reportVars
    <3>1. startedAs = "AUTOMATION"
      BY <2>1, <3>0 DEF Conduct, OwnedOnce, StuckOwnerBlocks
    <3>2. OwnedOnce'
      BY <1>s, <2>0, <3>0, <3>1
         DEF Conduct, OwnedOnce, PastHandover, StuckOwnerBlocks, Acting, BeforeHuman,
             WithHuman, AfterHuman
    <3>3. Remembered'
      BY <1>s, <2>0, <3>0 DEF Conduct, Remembered, WithHuman, AfterHuman
    <3>4. Judged'
      <4>1. ASSUME pc' \in {"locate", "dispatch"}, Act.action # "NAVIGATE"
            PROVE  RequestRisk(Policy, RequestOn(snap.url)) # "IRREVERSIBLE"
        <5>1. Authorize(Policy, IsAutomation, Request).decision = "ALLOW"
          BY <2>1, <3>0, <4>1
        <5>2. Request = RequestOn(snap.url)
          BY <4>1 DEF Request
        <5>3. QED BY <5>1, <5>2 DEF Authorize
      <4>2. QED BY <1>s, <2>0, <3>0, <4>1 DEF Judged, RequestOn, Act
    <3>5. Outputs'
      <4>1. \A i \in StepIds : Past(i)' <=> Past(i)
        BY <1>s, <2>0, <3>0 DEF Past
      <4>2. QED BY <1>s, <3>0, <4>1
                DEF Conduct, Outputs, Act, BeforeHuman, WithHuman, AfterHuman
    <3>6. QED BY <3>2, <3>3, <3>4, <3>5 DEF Conduct
  <2>3. QED BY <1>3, <1>h, <2>2, CodeFacts DEF Decide, Obey
<1>4. CASE Locate
  <2>1. CASE Goto("dispatch")
    BY <1>0, <1>4, <1>s, <2>1, PassConduct
       DEF Locate, Goto, reportVars, viewVars, Passes, Onward, OwnerKept
  <2>2. QED BY <1>4, <1>h, <1>c, <2>1, CodeFacts DEF Locate
<1>5. CASE RecordDispatch
  <2>1. CASE Goto("operate")
    BY <1>0, <1>5, <1>s, <2>1, PassConduct
       DEF RecordDispatch, Goto, reportVars, viewVars, Passes, Onward, OwnerKept
  <2>2. QED BY <1>5, <1>h, <2>1, CodeFacts DEF RecordDispatch
<1>6. QED BY <1>1, <1>2, <1>3, <1>4, <1>5

LEMMA ActConduct ==
  ASSUME TypeOK, Control, Standing, Conduct,
         Operate \/ RecordCompleted \/ RecordFailed \/ RecordOutput
  PROVE  Conduct'
<1>0. EngineTypeOK /\ StepPlace /\ Ownership
  BY DEF TypeOK, Control
<1>u. /\ {"completed", "failed", "output"} \subseteq Underway
      /\ {"completed", "failed", "output"} \cap (WithHuman \cup AfterHuman) = {}
  BY UnderwayFacts, LabelFacts DEF WithHuman, AfterHuman
<1>s. /\ pc \in {"operate", "completed", "failed", "output"} /\ step \in StepIds
      /\ UNCHANGED <<step, humanDid, startedAs, owner>>
      /\ ~Operate => pc # "operate" /\ UNCHANGED attempts
  BY <1>0 DEF Operate, RecordCompleted, RecordFailed, RecordOutput, historyVars, StepPlace,
              InStep, Acting
<1>c. CountedSince \in BOOLEAN
  BY DEF CountedSince
<1>h. CASE ~Operate /\ \E code \in Codes, d \in BOOLEAN : Fail(code) \/ FailMarked(code, d)
  BY <1>0, <1>u, <1>s, <1>h, FailConduct
<1>1. CASE Operate
  <2>0. /\ pc = "operate" /\ pc' \in {"completed", "failed"} /\ UNCHANGED <<steps, outputs, result>>
        /\ owner = "AUTOMATION" /\ startedAs = "AUTOMATION"
    BY <1>0, <1>1 DEF Operate, Goto, reportVars, Ownership, Acting, Conduct, OwnedOnce
  <2>1. OwnedOnce'
    BY <1>s, <2>0 DEF OwnedOnce, StuckOwnerBlocks
  <2>2. Remembered' /\ Judged'
    BY <1>s, <2>0 DEF Conduct, Remembered, Judged, WithHuman, AfterHuman
  <2>3. Outputs'
    <3>1. \A i \in StepIds : Past(i)' <=> Past(i)
      BY <1>s, <2>0 DEF Past
    <3>2. QED BY <1>s, <2>0, <3>1 DEF Conduct, Outputs, BeforeHuman, WithHuman, AfterHuman
  <2>4. QED BY <2>1, <2>2, <2>3 DEF Conduct
<1>2. CASE RecordCompleted
  <2>1. CASE /\ steps' = [steps EXCEPT ![step].dispatched = TRUE]
             /\ pc' = IF Act.action = "READ" THEN "output" ELSE "postcondition"
             /\ UNCHANGED <<outputs, result>>
    <3>0. /\ \A i \in StepIds : steps'[i].byHuman = steps[i].byHuman
          /\ pc = "completed" /\ pc' \in {"output", "postcondition"} /\ UNCHANGED attempts
          /\ owner = "AUTOMATION" /\ startedAs = "AUTOMATION"
      BY <1>0, <1>2, <2>1
         DEF RecordCompleted, historyVars, EngineTypeOK, StepRecords, Ownership, Acting,
             Conduct, OwnedOnce
    <3>1. OwnedOnce'
      BY <1>s, <3>0 DEF OwnedOnce, StuckOwnerBlocks
    <3>2. Remembered' /\ Judged'
      BY <1>0, <1>s, <3>0
         DEF Conduct, Remembered, Judged, WithHuman, AfterHuman, EngineTypeOK
    <3>3. Outputs'
      <4>1. \A i \in StepIds : Past(i)' <=> Past(i)
        BY <1>s, <3>0 DEF Past
      <4>2. QED BY <1>s, <2>1, <3>0, <4>1
                DEF Conduct, Outputs, Act, BeforeHuman, WithHuman, AfterHuman
    <3>4. QED BY <3>1, <3>2, <3>3 DEF Conduct
  <2>2. ~Operate
    BY <1>2 DEF Operate, RecordCompleted
  <2>3. QED BY <1>2, <1>h, <2>1, <2>2, CodeFacts DEF RecordCompleted
<1>3. CASE RecordFailed
  <2>1. ~Operate
    BY <1>3 DEF Operate, RecordFailed
  <2>2. QED BY <1>3, <1>h, <1>c, <2>1, CodeFacts DEF RecordFailed
<1>4. CASE RecordOutput
  <2>1. ~Operate
    BY <1>4 DEF Operate, RecordOutput
  <2>2. CASE CompleteStep(Current) /\ outputs' = outputs \cup {step}
    <3>1. pc = "output" /\ Plan[step].action = "READ" /\ owner = "AUTOMATION" /\ UNCHANGED attempts
      BY <1>4, <1>s DEF RecordOutput, Conduct, Outputs, OwnedOnce, PastHandover, Act, historyVars
    <3>2. outputs' = outputs \cup {i \in {step} : Plan[i].action = "READ"}
      BY <2>2, <3>1
    <3>3. QED BY <1>0, <1>s, <2>2, <3>1, <3>2, CompleteConduct
  <2>3. QED BY <1>4, <1>h, <2>1, <2>2, CodeFacts DEF RecordOutput
<1>5. QED BY <1>1, <1>2, <1>3, <1>4

LEMMA AwaitConduct ==
  ASSUME TypeOK, Control, Standing, Conduct,
         WaitFails \/ AwaitPostcondition \/ AwaitCheckpoint
  PROVE  Conduct'
<1>0. EngineTypeOK /\ StepPlace
  BY DEF TypeOK, Control
<1>u. /\ {"postcondition", "checkpoint"} \subseteq Underway
      /\ {"postcondition", "checkpoint"} \cap (WithHuman \cup AfterHuman) = {}
  BY UnderwayFacts, LabelFacts DEF WithHuman, AfterHuman
<1>s. /\ pc \in {"postcondition", "checkpoint"}
      /\ UNCHANGED <<step, attempts, humanDid, startedAs, owner>>
  BY DEF WaitFails, ObserveFails, AwaitPostcondition, AwaitCheckpoint, Await, historyVars
<1>o. owner = "AUTOMATION"
  BY <1>s DEF Conduct, OwnedOnce, PastHandover
<1>h. CASE \E code \in Codes : Fail(code) \/ Outcome
  BY <1>0, <1>u, <1>s, <1>h, FailConduct
<1>1. CASE WaitFails
  BY <1>1, <1>h, CodeFacts DEF WaitFails, ObserveFails
<1>2. CASE AwaitPostcondition
  <2>0. pc = "postcondition" /\ step \in StepIds
    BY <1>0, <1>2 DEF AwaitPostcondition, Await, StepPlace, InStep
  <2>1. CASE Goto(pc)
    BY <1>0, <1>s, <2>0, <2>1, PassConduct DEF Goto, reportVars, Passes, Onward, OwnerKept
  <2>2. CASE CompleteStep(Current) /\ UNCHANGED outputs
    <3>1. outputs' = outputs \cup {i \in {step} : Plan[i].action = "READ"}
      BY <2>0, <2>2 DEF Conduct, Outputs, Act
    <3>2. QED BY <1>0, <1>s, <1>o, <2>0, <2>2, <3>1, CompleteConduct
  <2>3. QED BY <1>2, <1>h, <2>1, <2>2, CodeFacts DEF AwaitPostcondition, Await, PollAgain
<1>3. CASE AwaitCheckpoint
  <2>0. pc = "checkpoint"
    BY <1>3 DEF AwaitCheckpoint, Await
  <2>1. CASE Goto(pc)
    BY <1>0, <1>s, <2>0, <2>1, PassConduct DEF Goto, reportVars, Passes, Onward, OwnerKept
  <2>2. CASE Succeed
    <3>0. /\ pc' = "terminal" /\ result'.status = "SUCCESS" /\ UNCHANGED <<steps, outputs>>
      BY <2>2 DEF Succeed, NoResult
    <3>1. OwnedOnce'
      BY <1>s, <1>o, <3>0
         DEF Conduct, OwnedOnce, PastHandover, StuckOwnerBlocks, Acting, BeforeHuman,
             WithHuman, AfterHuman
    <3>2. Remembered' /\ Judged'
      BY <3>0 DEF Remembered, Judged
    <3>3. Outputs'
      <4>1. \A i \in StepIds : Past(i)' <=> Past(i)
        BY <1>s, <2>0, <3>0 DEF Past
      <4>2. QED BY <3>0, <4>1 DEF Conduct, Outputs, BeforeHuman, WithHuman, AfterHuman
    <3>4. QED BY <3>1, <3>2, <3>3 DEF Conduct
  <2>3. QED BY <1>3, <1>h, <2>1, <2>2, CodeFacts DEF AwaitCheckpoint, Await, PollAgain
<1>4. QED BY <1>1, <1>2, <1>3

LEMMA AskConduct ==
  ASSUME TypeOK, Control, Standing, Conduct,
         ObservePre \/ ObservePreFails \/ CapturePre \/ RequestIntervention
         \/ EscalateControl \/ AcceptControl
  PROVE  Conduct'
<1>0. /\ EngineTypeOK /\ StepPlace
      /\ UNCHANGED <<step, attempts, humanDid, startedAs>>
  BY DEF TypeOK, Control, ObservePre, ObservePreFails, ObserveFails, CapturePre,
         RequestIntervention, EscalateControl, AcceptControl, historyVars
<1>1. /\ pc \in BeforeHuman \cup {"accept"}
      /\ \/ \E code \in Codes : Fail(code)
         \/ \E b \in BeforeHuman \cup {"accept", "human"} : Goto(b)
  BY CodeFacts
     DEF ObservePre, ObservePreFails, ObserveFails, CapturePre, RequestIntervention,
         EscalateControl, AcceptControl, EarlyEmit, BeforeHuman
<1>2. CASE \E code \in Codes : Fail(code)
  <2>1. /\ pc \in (Underway \cup {"begin"}) \ {"step"} /\ pc \in ByHand
        /\ pc \notin WithHuman \cup AfterHuman
    BY <1>1, UnderwayFacts, LabelFacts DEF ByHand, BeforeHuman, WithHuman, AfterHuman
  <2>2. TRUE \in BOOLEAN
    OBVIOUS
  <2>3. QED BY <1>0, <1>2, <2>1, <2>2, FailConduct
<1>3. CASE \E b \in BeforeHuman \cup {"accept", "human"} : Goto(b)
  <2>1. Passes /\ Onward
    BY <1>0, <1>1, <1>3 DEF Goto, reportVars, Passes, Onward
  <2>2. OwnerKept /\ pc' \notin {"locate", "dispatch", "operate"}
    BY <1>1, <1>3 DEF Goto, OwnerKept, ByHand, BeforeHuman, WithHuman
  <2>3. QED BY <1>0, <2>1, <2>2, PassConduct
<1>4. QED BY <1>1, <1>2, <1>3

LEMMA HumanConduct ==
  ASSUME TypeOK, Control, Standing, Conduct,
         HumanActs \/ HandsBack \/ HandlerRaises \/ PageDrifts
  PROVE  Conduct'
<1>0. EngineTypeOK
  BY DEF TypeOK
<1>1. CASE HandsBack \/ PageDrifts
  <2>1. Passes /\ Onward /\ OwnerKept /\ UNCHANGED <<humanDid, snap>>
    BY <1>1 DEF HandsBack, PageDrifts, Goto, reportVars, viewVars, historyVars, Passes, Onward,
                OwnerKept, WithHuman, AfterHuman
  <2>2. QED BY <1>0, <2>1, PassConduct
<1>2. CASE HumanActs \/ HandlerRaises
  <2>0. /\ pc = "human" /\ startedAs = "AUTOMATION"
        /\ UNCHANGED <<step, steps, attempts, outputs, startedAs, owner>>
    BY <1>2 DEF HumanActs, HandlerRaises, reportVars, viewVars, historyVars, Conduct, OwnedOnce,
                WithHuman
  <2>1. \A i \in StepIds : pc' \in {"human", "ending"} => (Past(i)' <=> Past(i))
    BY <2>0 DEF Past
  <2>2. CASE HumanActs
    <3>0. /\ pc' = "human" /\ UNCHANGED result /\ humanDid' = humanDid \cup {step}
          /\ result.status # "SUCCESS"
      BY <2>0, <2>2
         DEF HumanActs, reportVars, Standing, Progress, VerdictPlace, Concluded
    <3>1. OwnedOnce'
      BY <2>0, <3>0
         DEF OwnedOnce, PastHandover, StuckOwnerBlocks
    <3>2. Remembered' /\ Judged'
      BY <2>0, <3>0 DEF Conduct, Remembered, Judged, WithHuman
    <3>3. Outputs'
      BY <2>0, <2>1, <3>0 DEF Conduct, Outputs, Act, WithHuman
    <3>4. QED BY <3>1, <3>2, <3>3 DEF Conduct
  <2>3. CASE HandlerRaises
    <3>0. pc' = "ending" /\ result'.status = "RAISED"
      BY <2>3 DEF HandlerRaises, NoResult
    <3>1. OwnedOnce'
      BY <2>0, <3>0
         DEF OwnedOnce, PastHandover, StuckOwnerBlocks
    <3>2. Remembered' /\ Judged'
      BY <3>0 DEF Remembered, Judged
    <3>3. Outputs'
      BY <2>0, <2>1, <3>0 DEF Conduct, Outputs, BeforeHuman, WithHuman, AfterHuman
    <3>4. QED BY <3>1, <3>2, <3>3 DEF Conduct
  <2>4. QED BY <1>2, <2>2, <2>3
<1>3. QED BY <1>1, <1>2

LEMMA ReturnConduct ==
  ASSUME TypeOK, Control, Standing, Conduct,
         RecordHandBack \/ ReturnControl \/ Verify \/ VerifyBlind \/ CapturePost
         \/ RecordVerified \/ Settle \/ RestoreControl
  PROVE  Conduct'
<1> USE CodeFacts
<1>0. /\ EngineTypeOK /\ StepPlace /\ UNCHANGED <<step, attempts, humanDid, startedAs>>
      /\ pc \in {"handback", "return"} \cup AfterHuman
  BY DEF TypeOK, Control, RecordHandBack, ReturnControl, Verify, VerifyBlind, CapturePost,
         RecordVerified, Settle, RestoreControl, historyVars, AfterHuman
<1>u. /\ pc \in (Underway \cup {"begin"}) \ {"step"} /\ pc \in ByHand
      /\ pc' \in ByHand => pc' \notin {"locate", "dispatch", "operate"}
  BY <1>0, UnderwayFacts, LabelFacts DEF ByHand, BeforeHuman, WithHuman, AfterHuman
<1>s. step \in StepIds
  BY <1>0 DEF StepPlace, InStep, WithHuman
<1>1. CASE RecordHandBack \/ ReturnControl \/ VerifyBlind \/ CapturePost \/ RecordVerified
  <2>1. Passes /\ Onward /\ pc' \in ByHand
    BY <1>0, <1>1
       DEF RecordHandBack, ReturnControl, VerifyBlind, CapturePost, RecordVerified, Goto,
           reportVars, Passes, Onward, WithHuman, AfterHuman, ByHand
  <2>2. OwnerKept
    BY <1>u, <2>1 DEF OwnerKept, ByHand, BeforeHuman, WithHuman, AfterHuman
  <2>3. QED BY <1>0, <1>u, <2>1, <2>2, PassConduct
<1>2. CASE Verify
  <2>1. CASE Outcome
    BY <1>0, <1>u, <2>1, FailConduct
  <2>2. CASE Goto("postshot") \/ Goto(pc)
    <3>1. Passes /\ Onward /\ pc' \in ByHand /\ OwnerKept
      BY <1>0, <1>2, <2>2
         DEF Verify, Goto, reportVars, Passes, Onward, WithHuman, AfterHuman, ByHand, OwnerKept
    <3>2. QED BY <1>0, <1>u, <3>1, PassConduct
  <2>3. QED BY <1>2, <2>1, <2>2 DEF Verify, PollAgain
<1>3. CASE Settle
  <2>0. pc = "settle" /\ UNCHANGED owner /\ startedAs = "AUTOMATION"
    BY <1>3 DEF Settle, Conduct, OwnedOnce, AfterHuman
  <2>1. CASE FailNoRetry("UNKNOWN_COMMIT_STATE")
    BY <1>0, <1>u, <2>1, FailConduct
  <2>2. CASE \E code \in Codes : Stop("FAILURE", code, "no", ByHuman)
    <3>1. PICK code \in Codes : Stop("FAILURE", code, "no", ByHuman)
      BY <2>2
    <3>2. Halts(Current.dispatched, TRUE) /\ result'.retry = "no"
      BY <1>0, <3>1, FailHalts
    <3>3. QED BY <1>0, <1>u, <3>2, HaltConduct
  <2>3. CASE pc' = "restore" /\ steps' = [steps EXCEPT ![step] = ByHuman]
             /\ UNCHANGED <<outputs, result>>
    <3>0. /\ \A i \in StepIds : i # step => steps'[i] = steps[i]
          /\ steps'[step].byHuman = TRUE
          /\ result.status # "SUCCESS"
      BY <1>0, <1>s, <2>0, <2>3, CurrentFacts
         DEF EngineTypeOK, Standing, Progress, VerdictPlace, Concluded
    <3>1. OwnedOnce'
      BY <1>0, <2>0, <2>3, <3>0 DEF OwnedOnce, PastHandover, StuckOwnerBlocks
    <3>2. Remembered' /\ Judged'
      BY <1>0, <1>s, <2>0, <2>3, <3>0
         DEF Conduct, Remembered, Judged, WithHuman, AfterHuman, EngineTypeOK
    <3>3. Outputs'
      <4>1. \A i \in StepIds : Past(i)' <=> Past(i)
        BY <1>0, <2>0, <2>3 DEF Past
      <4>2. QED BY <1>0, <2>0, <2>3, <4>1 DEF Conduct, Outputs, Act, AfterHuman
    <3>4. QED BY <3>1, <3>2, <3>3 DEF Conduct
  <2>4. QED BY <1>3, <2>1, <2>2, <2>3 DEF Settle
<1>4. CASE RestoreControl
  <2>0. /\ pc = "restore" /\ owner' = "AUTOMATION"
        /\ pc \notin (WithHuman \cup AfterHuman) \ {"restore"} /\ TRUE \in BOOLEAN
    BY <1>4 DEF RestoreControl, Restore, Move, Edges
  <2>1. CASE Fail("EVIDENCE_ERROR")
    <3>1. \E code \in Codes, d \in BOOLEAN : Fail(code) \/ FailMarked(code, d)
      BY <2>0, <2>1
    <3>2. QED BY <1>0, <1>u, <2>0, <3>1, FailConduct
  <2>2. CASE CompleteStep(Current) /\ UNCHANGED outputs
    <3>1. outputs' = outputs \cup {i \in {step} : Plan[i].action = "READ"}
      BY <2>0, <2>2 DEF Conduct, Outputs, Act, AfterHuman
    <3>2. QED BY <1>0, <1>s, <2>0, <2>2, <3>1, CompleteConduct
  <2>3. QED BY <1>4, <2>1, <2>2 DEF RestoreControl
<1>5. QED BY <1>1, <1>2, <1>3, <1>4

LEMMA EndingConduct ==
  ASSUME TypeOK, Control, Standing, Conduct, Ending
  PROVE  Conduct'
<1>0. /\ EngineTypeOK /\ pc \in Concluded
      /\ UNCHANGED <<step, steps, attempts, outputs, humanDid, startedAs, owner, snap>>
  BY DEF TypeOK, Ending, SkipTerminal, ReportOutcome, RecordTerminal, Finish, Goto, Unproven,
         reportVars, viewVars, historyVars, Concluded
<1>1. CASE Unproven
  <2>0. pc' = "ending" /\ result'.status = "FAILURE"
    BY <1>1 DEF Unproven
  <2>1. OwnedOnce'
    BY <1>0, <2>0
       DEF Conduct, OwnedOnce, PastHandover, StuckOwnerBlocks, Acting, BeforeHuman, WithHuman,
           AfterHuman
  <2>2. Remembered' /\ Judged'
    BY <2>0 DEF Remembered, Judged
  <2>3. Outputs'
    <3>1. \A i \in StepIds : Past(i)' <=> Past(i)
      BY <1>0, <2>0 DEF Past, Concluded
    <3>2. QED BY <1>0, <2>0, <3>1 DEF Conduct, Outputs, BeforeHuman, WithHuman, AfterHuman
  <2>4. QED BY <2>1, <2>2, <2>3 DEF Conduct
<1>2. CASE ~Unproven
  <2>1. Passes /\ Onward /\ OwnerKept
    BY <1>0, <1>2
       DEF Ending, SkipTerminal, ReportOutcome, RecordTerminal, Finish, Goto, reportVars, Passes,
           Onward, OwnerKept, Concluded
  <2>2. QED BY <1>0, <2>1, PassConduct
<1>3. QED BY <1>1, <1>2

------------------------------------------------------------------------------
(* The inductive invariant of a run's report. *)

ReportInv == Invariant /\ Standing /\ Counts /\ Conduct

LEMMA ReportInit == Init => ReportInv
<1> SUFFICES ASSUME Init PROVE ReportInv
  OBVIOUS
<1>1. Invariant
  BY InitHolds
<1>2. Standing
  BY PlanFacts
     DEF Init, NotReached, NoResult, Standing, Progress, InOrder, VerdictPlace, Undone, Marks,
         Marked, Concluded
<1>3. Counts
  BY UnderwayFacts DEF Init, Counts, Counted, Tally
<1>4. OwnedOnce /\ Remembered /\ Judged
  BY DEF Init, NoResult, OwnedOnce, PastHandover, StuckOwnerBlocks, Remembered, Judged, Acting,
         BeforeHuman, WithHuman, AfterHuman
<1>5. Outputs
  BY PlanFacts DEF Init, Outputs, Past, BeforeHuman, WithHuman, AfterHuman
<1>6. QED BY <1>1, <1>2, <1>3, <1>4, <1>5 DEF ReportInv, Conduct

LEMMA ReportStep == ReportInv /\ [Next]_vars => ReportInv'
<1> SUFFICES ASSUME ReportInv, [Next]_vars PROVE ReportInv'
  OBVIOUS
<1>0. TypeOK /\ Control /\ Standing /\ Counts /\ Counted /\ Conduct /\ EngineTypeOK
  BY DEF ReportInv, Invariant, TypeOK, Counts
<1>1. Invariant'
  BY StepHolds DEF ReportInv
<1>2. CASE UNCHANGED vars
  <2>1. Passes /\ SamePhase /\ Onward /\ OwnerKept /\ UNCHANGED <<humanDid, snap>>
    BY <1>2 DEF vars, viewVars, reportVars, historyVars, Passes, SamePhase, Onward, OwnerKept
  <2>2. Standing' /\ Conduct'
    BY <1>0, <2>1, PassStanding, PassConduct
  <2>3. Counts'
    <3>1. /\ UNCHANGED before /\ rec'.dispatches = rec.dispatches /\ pc' = pc
          /\ \A i \in StepIds : steps'[i].dispatched = steps[i].dispatched
      BY <1>2 DEF vars, viewVars, reportVars, recorderVars
    <3>2. QED BY <1>0, <3>1, IdleCounts, KeptCounts
  <2>4. QED BY <1>1, <2>2, <2>3 DEF ReportInv
<1>3. CASE StartRun \/ Automated
  <2>1. Standing'
    BY <1>0, <1>3, BeginStanding, GateStanding, ActStanding, AwaitStanding, EndingStanding
       DEF Automated
  <2>2. Counts'
    BY <1>0, <1>3, BeginCounts, GateCounts, ActCounts, AwaitCounts DEF Automated
  <2>3. Conduct'
    BY <1>0, <1>3, BeginConduct, GateConduct, ActConduct, AwaitConduct DEF Automated
  <2>4. QED BY <1>1, <2>1, <2>2, <2>3 DEF ReportInv
<1>4. CASE Handover
  <2>1. Standing'
    BY <1>0, <1>4, AskStanding, ReturnStanding DEF Handover
  <2>2. Counts'
    BY <1>0, <1>4, HandoverCounts
  <2>3. Conduct'
    BY <1>0, <1>4, AskConduct, ReturnConduct DEF Handover
  <2>4. QED BY <1>1, <2>1, <2>2, <2>3 DEF ReportInv
<1>5. CASE Ending \/ Human \/ PageDrifts
  <2>1. Standing'
    BY <1>0, <1>5, EndingStanding, HumanStanding DEF Ending, Human
  <2>2. Counts'
    BY <1>0, <1>5, EndingCounts
  <2>3. Conduct'
    BY <1>0, <1>5, EndingConduct, HumanConduct DEF Human
  <2>4. QED BY <1>1, <2>1, <2>2, <2>3 DEF ReportInv
<1>6. QED BY <1>2, <1>3, <1>4, <1>5 DEF Next, EngineStep

LEMMA ReportHolds == Spec => []ReportInv
BY ReportInit, ReportStep, PTL DEF Spec

(* A returned result says of every step whether the driver was asked to do *)
(* it, exactly, wherever a driver call or a write failed (`dispatched` in  *)
(* engine._dispatch).                                                      *)
THEOREM ReportsTruly == Spec => []DispatchedIsTrue
<1>1. ReportInv => DispatchedIsTrue
  BY DEF ReportInv, Standing, Marks, Marked, DispatchedIsTrue, Returned
<1>2. QED BY <1>1, ReportHolds, PTL

(* _assert_dispatch_recorded never raises.                                 *)
THEOREM AssertionNeverRaises == Spec => []AssertionHolds
<1>1. ASSUME ReportInv PROVE AssertionHolds
  <2>1. {"output", "postcondition"} \subseteq Underway
    BY UnderwayFacts, LabelFacts
  <2>2. QED BY <1>1, <2>1, DispatchedFinite
            DEF ReportInv, Counts, Tally, AssertionHolds, Dispatched
<1>2. QED BY <1>1, ReportHolds, PTL

(* A run that concludes in failure reports what the human did, or forbids  *)
(* the retry (_settle, until the terminal event).                          *)
THEOREM HumanActsReported == Spec => []HumanActNotForgotten
<1>1. ReportInv => HumanActNotForgotten
  BY DEF ReportInv, Conduct, Remembered, HumanActNotForgotten, WithHuman, AfterHuman
<1>2. QED BY <1>1, ReportHolds, PTL

(* A run that finds control elsewhere than with automation operates        *)
(* nothing, asks nobody and leaves control where it is.                    *)
THEOREM StuckStaysStuck == Spec => []StuckOwnerBlocks
<1>1. ReportInv => StuckOwnerBlocks
  BY DEF ReportInv, Conduct, OwnedOnce
<1>2. QED BY <1>1, ReportHolds, PTL

(* Automation performs what policy calls irreversible on the live page only *)
(* where the live page is not the one the gate was shown.                  *)
THEOREM OnlyUnseenPages == Spec => IrreversibleOnlyUnseen
<1>1. ReportInv /\ [Next]_vars =>
        [pc = "operate" /\ attempts' # attempts /\ Act.action # "NAVIGATE"
           /\ LiveRisk = "IRREVERSIBLE" => page # snap.url]_vars
  BY DEF ReportInv, Conduct, Judged, LiveRisk
<1>2. QED BY <1>1, ReportHolds, PTL DEF Spec, IrreversibleOnlyUnseen

------------------------------------------------------------------------------
(* The refinement of RunContract. *)

Deeds == [i \in StepIds |-> DoneBy(i)]

LEMMA DoneByFacts ==
  ASSUME NEW i \in StepIds
  PROVE  /\ Undone(i) <=> DoneBy(i) = "nobody"
         /\ DoneOnce(i) => DoneBy(i) \in {"automation", "human"}
BY DEF Undone, DoneOnce, DoneBy

(* Only Operate and Settle do a step. *)
LEMMA OnlySettle ==
  ASSUME TypeOK, Control, [Next]_vars, ~StartRun, ~Settle
  PROVE  \A i \in StepIds : steps'[i].byHuman = steps[i].byHuman
<1>0. EngineTypeOK /\ StepPlace
  BY DEF TypeOK, Control
<1>c. CountedSince \in BOOLEAN
  BY DEF CountedSince
<1>1. CASE \E d : Halts(d, Current.byHuman)
  BY <1>0, <1>1, CurrentFacts DEF Halts
<1>2. CASE step \in StepIds /\ CompleteStep(Current)
  BY <1>0, <1>2 DEF CompleteStep, Current, EngineTypeOK, StepRecords
<1>3. CASE UNCHANGED steps
  BY <1>3
<1>4. ASSUME \/ \E code \in Codes, d \in BOOLEAN :
                  Fail(code) \/ FailNoRetry(code) \/ FailMarked(code, d)
             \/ Outcome
      PROVE  \E d : Halts(d, Current.byHuman)
  BY <1>0, <1>4, FailHalts
<1>5. CASE Automated
  <2>1. CASE RecordCompleted
    <3>1. CASE FailMarked("EVIDENCE_ERROR", TRUE)
      BY <1>1, <1>4, <3>1, CodeFacts
    <3>2. CASE steps' = [steps EXCEPT ![step].dispatched = TRUE]
      BY <1>0, <3>2 DEF EngineTypeOK, StepRecords
    <3>3. QED BY <2>1, <3>1, <3>2 DEF RecordCompleted
  <2>2. CASE BeginEvidence \/ Bind \/ BeginStep \/ BeginCheckpoint \/ ResolveFails \/ Resolve
             \/ Decide \/ Locate \/ RecordDispatch
    BY <1>c, <1>1, <1>3, <1>4, <2>2, CodeFacts
       DEF BeginEvidence, Bind, BeginStep, BeginCheckpoint, ResolveFails, ObserveFails, Resolve,
           Decide, Obey, Locate, RecordDispatch, Goto, reportVars
  <2>3. CASE Operate \/ RecordFailed \/ RecordOutput
    BY <1>0, <1>c, <1>1, <1>2, <1>3, <1>4, <2>3, CodeFacts
       DEF Operate, RecordFailed, RecordOutput, Goto, reportVars, StepPlace, InStep
  <2>4. CASE WaitFails \/ AwaitPostcondition \/ AwaitCheckpoint
    BY <1>0, <1>1, <1>2, <1>3, <1>4, <2>4, CodeFacts
       DEF WaitFails, ObserveFails, AwaitPostcondition, AwaitCheckpoint, Await, PollAgain,
           Succeed, Goto, reportVars, StepPlace, InStep
  <2>5. QED BY <1>5, <2>1, <2>2, <2>3, <2>4 DEF Automated
<1>6. CASE Handover
  <2>1. CASE ObservePre \/ ObservePreFails \/ CapturePre \/ RequestIntervention
             \/ EscalateControl \/ AcceptControl
    BY <1>1, <1>3, <1>4, <2>1, CodeFacts
       DEF ObservePre, ObservePreFails, ObserveFails, CapturePre, RequestIntervention,
           EscalateControl, AcceptControl, EarlyEmit, Goto, reportVars
  <2>2. CASE RecordHandBack \/ ReturnControl \/ Verify \/ VerifyBlind \/ CapturePost
             \/ RecordVerified
    BY <1>1, <1>3, <1>4, <2>2, CodeFacts
       DEF RecordHandBack, ReturnControl, Verify, VerifyBlind, CapturePost, RecordVerified,
           PollAgain, Goto, reportVars
  <2>3. CASE RestoreControl
    BY <1>0, <1>1, <1>2, <1>4, <2>3, CodeFacts
       DEF RestoreControl, StepPlace, InStep, AfterHuman
  <2>4. QED BY <1>6, <2>1, <2>2, <2>3 DEF Handover
<1>7. CASE Ending \/ Human \/ PageDrifts \/ UNCHANGED vars
  BY <1>3, <1>7
     DEF Ending, SkipTerminal, ReportOutcome, RecordTerminal, Finish, Unproven, Goto, Human,
         HumanActs, HandsBack, HandlerRaises, PageDrifts, reportVars, vars
<1>8. QED BY <1>5, <1>6, <1>7 DEF Next, EngineStep

(* Only StartRun and Finish pass the boundary of a run. *)
LEMMA OnlyFinish ==
  ASSUME [Next]_vars, ~StartRun, ~Finish
  PROVE  /\ pc = "idle" <=> pc' = "idle"
         /\ pc = "idle" => UNCHANGED result
<1>1. CASE Automated
  BY <1>1
     DEF Automated, BeginEvidence, Bind, BeginStep, BeginCheckpoint, ResolveFails,
         Resolve, Decide, Obey, Locate, RecordDispatch, Operate, RecordCompleted, RecordFailed,
         RecordOutput, WaitFails, ObserveFails, AwaitPostcondition, AwaitCheckpoint,
         Await, PollAgain, Succeed, CompleteStep, Goto, Fail, FailMarked, Outcome, Stop
<1>2. CASE Handover
  BY <1>2
     DEF Handover, ObservePre, ObservePreFails, ObserveFails, CapturePre, RequestIntervention,
         EscalateControl, AcceptControl, EarlyEmit, RecordHandBack, ReturnControl, Verify,
         VerifyBlind, CapturePost, RecordVerified, Settle, RestoreControl, PollAgain,
         CompleteStep, Goto, Fail, FailNoRetry, Outcome, Stop
<1>3. CASE Ending \/ Human \/ PageDrifts \/ UNCHANGED vars
  BY <1>3
     DEF Ending, SkipTerminal, ReportOutcome, RecordTerminal, Unproven, Goto, Human,
         HumanActs, HandsBack, HandlerRaises, PageDrifts, reportVars, vars
<1>4. QED BY <1>1, <1>2, <1>3 DEF Next, EngineStep

LEMMA ContractStep ==
  ASSUME ReportInv, [Next]_vars
  PROVE  [Contract!ContractNext]_(Contract!contractVars)
<1> USE PlanFacts
<1>0. TypeOK /\ Control /\ EngineTypeOK /\ StepPlace /\ InOrder /\ VerdictPlace
  BY DEF ReportInv, Invariant, TypeOK, Control, Standing, Progress
<1>1. CASE StartRun
  <2>1. \A i \in StepIds : DoneBy(i)' = "nobody"
    BY <1>1 DEF StartRun, DoneBy, NotReached
  <2>2. /\ pc = "idle" /\ pc' # "idle" /\ result.status # "RUNNING"
    BY <1>0, <1>1 DEF StartRun, EngineTypeOK, Results, Statuses
  <2>3. Contract!Start
    BY <2>1, <2>2 DEF Contract!Start, Contract!Untouched, Contract!StepIds
  <2>4. QED BY <2>3 DEF Contract!ContractNext
<1>2. CASE Operate
  <2>0. /\ step \in StepIds /\ Plan[step].declared # "IRREVERSIBLE" /\ Undone(step)
        /\ pc # "idle" /\ pc' # "idle"
    BY <1>0, <1>2
       DEF Operate, Goto, Control, StepPlace, Ownership, InOrder, NotYetDone, InStep, Acting,
           Attempted
  <2>1. /\ UNCHANGED steps /\ attempts' = [attempts EXCEPT ![step] = 1]
    BY <1>0, <1>2, <2>0 DEF Operate, Goto, reportVars, Undone
  <2>2. \A i \in StepIds : DoneBy(i)' = IF i = step THEN "automation" ELSE DoneBy(i)
    BY <1>0, <2>0, <2>1 DEF DoneBy, Undone, EngineTypeOK
  <2>3. DoneBy(step) = "nobody" /\ \A j \in 1..(step - 1) : j \in StepIds /\ DoneBy(j) # "nobody"
    BY <1>0, <2>0, DoneByFacts DEF InOrder
  <2>4. Deeds' = [Deeds EXCEPT ![step] = "automation"]
    BY <2>0, <2>2 DEF Deeds
  <2>5. Contract!Do(step, "automation")
    BY <2>0, <2>3, <2>4 DEF Contract!Do, Contract!StepIds, Deeds
  <2>6. QED BY <2>0, <2>5 DEF Contract!ContractNext, Contract!StepIds
<1>3. CASE Settle
  <2>0. /\ step \in StepIds /\ Undone(step) /\ UNCHANGED attempts
        /\ pc # "idle" /\ pc' # "idle"
    BY <1>0, <1>3
       DEF Settle, FailNoRetry, Stop, historyVars, StepPlace, InOrder, NotYetDone, InStep,
           AfterHuman, Attempted
  <2>1. /\ \A i \in StepIds : i # step => steps'[i] = steps[i]
        /\ steps'[step].byHuman = steps[step].byHuman \/ steps'[step].byHuman = TRUE
    <3>1. CASE FailNoRetry("UNKNOWN_COMMIT_STATE")
      BY <1>0, <2>0, <3>1, FailHalts, CurrentFacts, CodeFacts DEF Halts
    <3>2. CASE \E code \in Codes : Stop("FAILURE", code, "no", ByHuman)
      BY <1>0, <2>0, <3>2, FailHalts DEF Halts
    <3>3. CASE steps' = [steps EXCEPT ![step] = ByHuman]
      BY <1>0, <2>0, <3>3, CurrentFacts DEF EngineTypeOK
    <3>4. QED BY <1>3, <3>1, <3>2, <3>3, CodeFacts DEF Settle
  <2>2. CASE steps'[step].byHuman = steps[step].byHuman
    <3>1. \A i \in StepIds : DoneBy(i)' = DoneBy(i)
      BY <2>0, <2>1, <2>2 DEF DoneBy
    <3>2. QED BY <2>0, <3>1 DEF Contract!contractVars
  <2>3. CASE steps'[step].byHuman = TRUE
    <3>1. \A i \in StepIds : DoneBy(i)' = IF i = step THEN "human" ELSE DoneBy(i)
      BY <2>0, <2>1, <2>3 DEF DoneBy, Undone
    <3>2. DoneBy(step) = "nobody" /\ \A j \in 1..(step - 1) : j \in StepIds /\ DoneBy(j) # "nobody"
      BY <1>0, <2>0, DoneByFacts DEF InOrder
    <3>3. Deeds' = [Deeds EXCEPT ![step] = "human"]
      BY <2>0, <3>1 DEF Deeds
    <3>4. Contract!Do(step, "human")
      BY <2>0, <3>2, <3>3 DEF Contract!Do, Contract!StepIds, Deeds
    <3>5. QED BY <2>0, <3>4 DEF Contract!ContractNext, Contract!StepIds
  <2>4. QED BY <2>1, <2>2, <2>3
<1>4. CASE Finish
  <2>1. /\ pc = "ending" /\ pc' = "idle" /\ UNCHANGED <<steps, attempts, result>>
    BY <1>4 DEF Finish, Goto, reportVars, historyVars
  <2>2. \A i \in StepIds : DoneBy(i)' = DoneBy(i)
    BY <2>1 DEF DoneBy
  <2>3. result.status \in Contract!Verdicts
    BY <1>0, <2>1
       DEF EngineTypeOK, Results, Statuses, VerdictPlace, Concluded, Contract!Verdicts
  <2>4. result.status = "SUCCESS" => \A i \in StepIds : DoneBy(i) # "nobody"
    BY <1>0, DoneByFacts DEF VerdictPlace, InOrder
  <2>5. Contract!Conclude(result.status)
    BY <2>1, <2>2, <2>4 DEF Contract!Conclude, Contract!StepIds
  <2>6. QED BY <2>3, <2>5 DEF Contract!ContractNext
<1>5. CASE ~StartRun /\ ~Operate /\ ~Settle /\ ~Finish
  <2>1. \A i \in StepIds : DoneBy(i)' = DoneBy(i)
    BY <1>0, <1>5, OnlyOperate, OnlySettle DEF DoneBy
  <2>2. QED BY <1>5, <2>1, OnlyFinish DEF Contract!contractVars
<1>6. QED BY <1>1, <1>2, <1>3, <1>4, <1>5

(* The engine implements its contract: each step at most once and in order, *)
(* irreversible ones by the human or nobody, SUCCESS with nothing left out. *)
THEOREM ImplementsContract == Spec => FulfilsContract
<1>1. Init => Contract!ContractInit
  BY DEF Init, Contract!ContractInit, Contract!Untouched, Contract!StepIds, DoneBy, NotReached,
         NoResult, StepIds
<1>2. ReportInv /\ [Next]_vars => [Contract!ContractNext]_(Contract!contractVars)
  BY ContractStep
<1>3. QED BY <1>1, <1>2, ReportHolds, PTL DEF Spec, FulfilsContract, Contract!ContractSpec

------------------------------------------------------------------------------
(* What is left on disk.                                                   *)

(* At most one event is written, on behalf of the current step. *)
Notes(types) == \/ log' = log
                \/ \E type \in types : log' = Append(log, Stamp(rec, type))

(* The lines of the file stay where they are. *)
Kept == \A k \in DOMAIN log : k \in DOMAIN log' /\ log'[k] = log[k]

LEMMA LogFacts ==
  ASSUME NEW l \in Seq(Events)
  PROVE  /\ Len(l) \in Nat /\ DOMAIN l = 1..Len(l)
         /\ \A k \in DOMAIN l : l[k] \in Events /\ l[k].step \in 0..N
<1>1. Len(l) \in Nat /\ DOMAIN l = 1..Len(l)
  OBVIOUS
<1>2. \A k \in DOMAIN l : l[k] \in Events
  BY SeqElement
<1>3. QED BY <1>1, <1>2 DEF Events

LEMMA AppendFacts ==
  ASSUME NEW l \in Seq(Events), NEW e \in Events
  PROVE  /\ Append(l, e) \in Seq(Events) /\ Append(l, e) # <<>>
         /\ Len(Append(l, e)) = Len(l) + 1
         /\ DOMAIN Append(l, e) = 1..(Len(l) + 1)
         /\ Append(l, e)[Len(l) + 1] = e
         /\ \A k \in 1..Len(l) : Append(l, e)[k] = l[k]
BY AppendProperties, EmptySeq

LEMMA NotesKept ==
  ASSUME RecorderTypeOK, NEW types \in SUBSET EventTypes, Notes(types)
  PROVE  Kept
<1>1. CASE log' = log
  BY <1>1 DEF Kept
<1>2. ASSUME NEW type \in EventTypes, log' = Append(log, Stamp(rec, type)) PROVE Kept
  <2>1. log \in Seq(Events) /\ Stamp(rec, type) \in Events
    BY StampType DEF RecorderTypeOK
  <2>2. DOMAIN log = 1..Len(log) /\ Len(log) \in Nat
    BY <2>1, LogFacts
  <2>3. QED BY <1>2, <2>1, <2>2, AppendFacts DEF Kept
<1>3. QED BY <1>1, <1>2 DEF Notes

LEMMA KeptHas ==
  ASSUME Kept
  PROVE  \A type, i : LogHas(type, i) => (\E k \in DOMAIN log' : log'[k].type = type /\ log'[k].step = i)
BY DEF Kept, LogHas

(* The recorder's answers, seen from the file. *)
LEMMA WrittenNotes ==
  ASSUME RecorderTypeOK, NEW type \in EventTypes,
         Written(type) \/ (type = "ACTION_DISPATCHED" /\ DispatchWritten)
  PROVE  /\ Notes({type})
         /\ rec.active /\ ~rec.failed /\ rec'.active /\ ~rec'.failed /\ rec'.step = rec.step
         /\ log' = Append(log, Stamp(rec, type))
         /\ \E k \in DOMAIN log' : log'[k].type = type /\ log'[k].step = rec.step
<1>1. /\ ~Refuses /\ log' = Append(log, Stamp(rec, type))
      /\ \/ rec' = [rec EXCEPT !.seq = @ + 1]
         \/ rec' = [rec EXCEPT !.seq = @ + 1, !.dispatches = @ + 1]
  BY DEF Written, DispatchWritten
<1>2. log \in Seq(Events) /\ Stamp(rec, type) \in Events /\ rec \in RecStates
  BY StampType DEF RecorderTypeOK
<1>3. /\ Len(log) + 1 \in DOMAIN log' /\ log'[Len(log) + 1] = Stamp(rec, type)
  BY <1>1, <1>2, AppendFacts, LogFacts
<1>4. Stamp(rec, type).type = type /\ Stamp(rec, type).step = rec.step
  BY DEF Stamp
<1>5. rec.active /\ ~rec.failed /\ rec'.active /\ ~rec'.failed /\ rec'.step = rec.step
  BY <1>1, <1>2 DEF Refuses, RecStates
<1>6. QED BY <1>1, <1>3, <1>4, <1>5 DEF Notes

LEMMA NotWrittenNotes ==
  ASSUME RecorderTypeOK, NEW type \in EventTypes, NotWritten(type)
  PROVE  /\ Notes({type}) /\ rec'.active = rec.active /\ rec'.step = rec.step
<1>1. CASE UNCHANGED recorderVars
  BY <1>1 DEF recorderVars, Notes
<1>2. CASE /\ rec' = [rec EXCEPT !.seq = @ + 1, !.failed = TRUE]
           /\ WriteFails(log, Stamp(rec, type))
  <2>1. Notes({type})
    BY <1>2 DEF WriteFails, Notes
  <2>2. rec'.active = rec.active /\ rec'.step = rec.step
    BY <1>2 DEF RecorderTypeOK, RecStates
  <2>3. QED BY <2>1, <2>2
<1>3. QED BY <1>1, <1>2 DEF NotWritten

LEMMA LateNotes ==
  ASSUME RecorderTypeOK, handoff \in Handoffs, NEW type \in EventTypes, LateEmit(type),
         rec.failed => handoff.failed
  PROVE  /\ Notes({type}) /\ rec'.active = rec.active /\ rec'.step = rec.step
         /\ rec'.failed => handoff'.failed
         /\ handoff'.verdict = handoff.verdict /\ handoff'.kind = handoff.kind
         /\ ~handoff'.failed =>
              /\ ~rec'.failed /\ ~handoff.failed
              /\ \E k \in DOMAIN log' : log'[k].type = type /\ log'[k].step = rec.step
<1>1. CASE handoff.failed /\ UNCHANGED <<handoff, recorderVars>>
  BY <1>1 DEF recorderVars, Notes
<1>2. CASE ~handoff.failed /\ Written(type) /\ UNCHANGED handoff
  <2>1. /\ Notes({type}) /\ rec.active /\ rec'.active /\ ~rec'.failed /\ rec'.step = rec.step
        /\ \E k \in DOMAIN log' : log'[k].type = type /\ log'[k].step = rec.step
    BY <1>2, WrittenNotes
  <2>2. rec'.active = rec.active
    BY <1>2 DEF Written, RecorderTypeOK, RecStates
  <2>3. QED BY <1>2, <2>1, <2>2
<1>3. CASE ~handoff.failed /\ NotWritten(type) /\ handoff' = [handoff EXCEPT !.failed = TRUE]
  BY <1>3, NotWrittenNotes DEF Handoffs
<1>4. QED BY <1>1, <1>2, <1>3 DEF LateEmit

------------------------------------------------------------------------------
(* Ending a run early needs no more of the file than that it only grows.   *)
LEMMA HaltEvidence ==
  ASSUME EngineTypeOK, Filed, Kept, NEW d, NEW h, Halts(d, h), UNCHANGED <<step, attempts>>
  PROVE  Evidence'
<1>1. Recording' /\ Framed' /\ Asked' /\ Lines'
  BY UnderwayFacts DEF Halts, Recording, Framed, Asked, Lines, InStep, Acting, BeforeHuman,
                       WithHuman, AfterHuman
<1>2. WriteAhead'
  BY KeptHas DEF Filed, WriteAhead, LogHas
<1>3. ASSUME NEW i \in StepIds, Past(i)' PROVE Proven(i)'
  <2>1. i < step /\ i # step /\ steps'[i] = steps[i]
    BY <1>3, PlanFacts DEF Past, Halts, EngineTypeOK
  <2>2. Proven(i)
    BY <2>1 DEF Past, Filed, Backed
  <2>3. QED BY <2>1, <2>2, KeptHas DEF Proven, LogHas
<1>4. QED BY <1>1, <1>2, <1>3 DEF Evidence, Filed, Backed

(* The calls at which the transfers of the current step are counted. *)
Untransferred == InStep \ ({"accept"} \cup WithHuman \cup AfterHuman)
Quietly == /\ pc' \in Untransferred => pc \in Untransferred
           /\ pc' \in {"accept", "human"} => pc' = pc

LEMMA StampedSteps ==
  ASSUME TypeOK, Recording, Asked, pc \in Underway, NEW types \in SUBSET EventTypes, Notes(types)
  PROVE  /\ \A k \in DOMAIN log' : log'[k].step <= step
         /\ "CONTROL_TRANSFERRED" \notin types =>
              Transfers = {k \in DOMAIN log' : /\ log'[k].type = "CONTROL_TRANSFERRED"
                                              /\ log'[k].step = step}
<1>0. /\ log \in Seq(Events) /\ DOMAIN log = 1..Len(log) /\ Len(log) \in Nat
      /\ rec.step \in 0..N /\ rec.step <= step /\ step \in Nat
      /\ \A k \in DOMAIN log : log[k].step <= step
  BY LogFacts, PlanFacts
     DEF TypeOK, RecorderTypeOK, EngineTypeOK, RecStates, Recording, Asked, NoStep
<1>1. CASE log' = log
  BY <1>0, <1>1 DEF Transfers
<1>2. ASSUME NEW type \in types, log' = Append(log, Stamp(rec, type))
      PROVE  /\ \A k \in DOMAIN log' : log'[k].step <= step
             /\ "CONTROL_TRANSFERRED" \notin types =>
                  Transfers = {k \in DOMAIN log' : /\ log'[k].type = "CONTROL_TRANSFERRED"
                                                  /\ log'[k].step = step}
  <2>1. /\ DOMAIN log' = 1..(Len(log) + 1)
        /\ log'[Len(log) + 1] = Stamp(rec, type)
        /\ \A k \in 1..Len(log) : log'[k] = log[k]
    BY <1>0, <1>2, StampType, AppendFacts DEF TypeOK, RecorderTypeOK
  <2>2. Stamp(rec, type).step = rec.step /\ Stamp(rec, type).type = type
    BY DEF Stamp
  <2>3. \A k \in DOMAIN log' : k \in DOMAIN log \/ k = Len(log) + 1
    BY <1>0, <2>1
  <2>4. \A k \in DOMAIN log' : log'[k].step <= step
    BY <1>0, <2>1, <2>2, <2>3
  <2>5. ASSUME "CONTROL_TRANSFERRED" \notin types
        PROVE  Transfers = {k \in DOMAIN log' : /\ log'[k].type = "CONTROL_TRANSFERRED"
                                               /\ log'[k].step = step}
    BY <1>0, <2>1, <2>2, <2>3, <2>5 DEF Transfers
  <2>6. QED BY <2>4, <2>5
<1>3. QED BY <1>1, <1>2 DEF Notes

LEMMA QuietAsked ==
  ASSUME TypeOK, Recording, Asked, pc \in Underway, UNCHANGED step,
         Notes(EventTypes \ {"CONTROL_TRANSFERRED"}), Quietly
  PROVE  Asked'
<1>1. /\ \A k \in DOMAIN log' : log'[k].step <= step'
      /\ Transfers' = Transfers
  BY StampedSteps DEF Transfers
<1>2. QED BY <1>1 DEF Quietly, Untransferred, Asked

LEMMA LooseAsked ==
  ASSUME TypeOK, Recording, Asked, pc \in Underway, UNCHANGED step,
         Notes(EventTypes), pc' \notin Untransferred \cup {"accept", "human"}
  PROVE  Asked'
<1>1. \A k \in DOMAIN log' : log'[k].step <= step'
  BY StampedSteps
<1>2. QED BY <1>1 DEF Untransferred, Asked

(* A call within a run that completes nothing: what is left to show is how *)
(* it leaves the recorder, and the lines the next call stands on.          *)
RecorderKept == /\ rec'.active = rec.active /\ rec'.step = rec.step
                /\ rec'.failed => handoff'.failed /\ pc' \in AfterHuman \cup {"return"}

LEMMA PassEvidence ==
  ASSUME TypeOK, VerdictPlace, Evidence, pc \in Underway, pc' \in Underway,
         UNCHANGED <<step, attempts, result>>,
         \A i \in StepIds : /\ steps'[i].status = steps[i].status
                            /\ steps'[i].byHuman = steps[i].byHuman,
         pc' = "step" => pc = "step", pc' # "restore",
         Notes(EventTypes), RecorderKept, Asked', Lines'
  PROVE  Evidence'
<1>0. Kept /\ EngineTypeOK
  BY NotesKept DEF TypeOK
<1>1. result.status = "NONE" /\ result'.status = "NONE"
  BY DEF VerdictPlace, Underway
<1>2. Recording'
  BY <1>1 DEF Evidence, Recording, RecorderKept
<1>3. Framed'
  BY <1>0, <1>1, LogFacts, EmptySeq DEF Evidence, Framed, Kept
<1>4. WriteAhead'
  BY <1>0, KeptHas DEF Evidence, Filed, WriteAhead, LogHas
<1>5. ASSUME NEW i \in StepIds, Past(i)' PROVE Proven(i)'
  <2>1. Proven(i)
    BY <1>5 DEF Past, Evidence, Filed, Backed
  <2>2. QED BY <1>0, <2>1, KeptHas DEF Proven, LogHas
<1>6. QED BY <1>2, <1>3, <1>4, <1>5 DEF Evidence, Filed, Backed

LEMMA FailEvident ==
  ASSUME EngineTypeOK, Filed, Kept, UNCHANGED <<step, attempts>>,
         \/ \E code \in Codes, d \in BOOLEAN :
              Fail(code) \/ FailNoRetry(code) \/ FailMarked(code, d)
         \/ Outcome
  PROVE  Evidence'
<1>1. \E d, h : Halts(d, h)
  BY FailHalts
<1>2. QED BY <1>1, HaltEvidence

LEMMA BeginEvident ==
  ASSUME TypeOK, Control, Progress, Evidence,
         StartRun \/ BeginEvidence \/ Bind \/ BeginStep \/ BeginCheckpoint
  PROVE  Evidence'
<1> USE PlanFacts
<1>0. EngineTypeOK /\ RecorderTypeOK /\ StepPlace /\ InOrder /\ VerdictPlace /\ Filed
  BY DEF TypeOK, Control, Progress, Evidence
<1>u. {"bind", "step", "gate", "resolve", "checkpoint"} \subseteq Underway
  BY UnderwayFacts, LabelFacts
<1>1. CASE StartRun
  <2>0. /\ pc' = "begin" /\ step' = 0 /\ result'.status = "NONE"
        /\ \A i \in StepIds : attempts'[i] = 0
    BY <1>1 DEF StartRun, NoResult
  <2>1. Recording' /\ Framed' /\ Asked'
    BY <2>0, UnderwayFacts
       DEF Recording, Framed, Asked, InStep, Acting, BeforeHuman, WithHuman, AfterHuman
  <2>2. Filed'
    BY <2>0 DEF Filed, WriteAhead, Lines, Backed, Past
  <2>3. QED BY <2>1, <2>2 DEF Evidence
<1>2. CASE BeginEvidence
  <2>0. /\ step' = 0 /\ step = 0 /\ pc = "begin"
        /\ \A i \in StepIds : attempts'[i] = 0
    BY <1>0, <1>2 DEF BeginEvidence, StepPlace, historyVars, InOrder, Undone
  <2>1. Backed' /\ WriteAhead'
    BY <2>0 DEF Backed, Past, WriteAhead
  <2>2. CASE Fail("EVIDENCE_ERROR")
    <3>1. pc' = "terminal" /\ result'.status = "FAILURE"
      BY <2>2 DEF Fail, Stop
    <3>2. Recording' /\ Framed' /\ Asked' /\ Lines'
      BY <3>1, UnderwayFacts
         DEF Recording, Framed, Asked, Lines, InStep, Acting, BeforeHuman, WithHuman, AfterHuman
    <3>3. QED BY <2>1, <3>2 DEF Evidence, Filed
  <2>3. CASE BeginWritten("RUN_STARTED") /\ Goto("bind")
    <3>1. /\ pc' = "bind" /\ UNCHANGED result /\ result.status = "NONE"
      BY <1>0, <2>0, <2>3 DEF Goto, reportVars, VerdictPlace, Concluded
    <3>2. /\ rec'.active /\ rec'.step = NoStep /\ ~rec'.failed
          /\ log' = <<Stamp(FreshRun, "RUN_STARTED")>>
      BY <2>3 DEF BeginWritten, FreshRun, NoRun
    <3>3. /\ Stamp(FreshRun, "RUN_STARTED").type = "RUN_STARTED"
          /\ Stamp(FreshRun, "RUN_STARTED").step = 0
      BY DEF Stamp, FreshRun, NoRun, NoStep
    <3>4. /\ log' # <<>> /\ DOMAIN log' = {1} /\ log'[1] = Stamp(FreshRun, "RUN_STARTED")
      BY <3>2
    <3>5. Recording'
      BY <2>0, <3>1, <3>2 DEF Recording
    <3>6. Framed'
      BY <3>1, <3>3, <3>4 DEF Framed
    <3>7. Asked' /\ Lines'
      BY <2>0, <3>1, <3>3, <3>4
         DEF Asked, Lines, InStep, Acting, BeforeHuman, WithHuman, AfterHuman
    <3>8. QED BY <2>1, <3>5, <3>6, <3>7 DEF Evidence, Filed
  <2>4. QED BY <1>2, <2>2, <2>3 DEF BeginEvidence
<1>3. CASE Bind
  <2>0. UNCHANGED <<step, attempts, rec, log>> /\ pc = "bind" /\ step = 0
    BY <1>0, <1>3 DEF Bind, historyVars, recorderVars, StepPlace
  <2>1. Notes({}) /\ Kept
    BY <2>0 DEF Notes, Kept
  <2>2. CASE Fail("INVALID_INPUT")
    BY <1>0, <2>0, <2>1, <2>2, FailEvident, CodeFacts
  <2>3. CASE Goto("step")
    <3>1. pc' = "step" /\ UNCHANGED <<steps, result>> /\ result.status = "NONE"
      BY <1>0, <2>0, <2>3 DEF Goto, reportVars, VerdictPlace, Concluded
    <3>2. Recording' /\ Framed'
      BY <1>u, <2>0, <3>1 DEF Evidence, Recording, Framed, AfterHuman
    <3>3. Asked' /\ Lines'
      BY <1>u, <2>0, <3>1
         DEF Evidence, Asked, Lines, InStep, Acting, BeforeHuman, WithHuman, AfterHuman
    <3>4. WriteAhead' /\ Backed'
      BY <1>0, <2>0, <3>1 DEF Filed, WriteAhead, LogHas, Backed, Past
    <3>5. QED BY <3>2, <3>3, <3>4 DEF Evidence, Filed
  <2>4. QED BY <1>3, <2>2, <2>3 DEF Bind
<1>4. CASE BeginStep \/ BeginCheckpoint
  <2>0. /\ pc = "step" /\ step' = step + 1 /\ pc' \in {"gate", "resolve", "checkpoint"}
        /\ UNCHANGED <<steps, attempts, result, log>> /\ step \in 0..N
        /\ result.status = "NONE"
        /\ rec' = [rec EXCEPT !.step = IF step' \in StepIds THEN step' ELSE NoStep]
        /\ pc' = "checkpoint" => step' = Checkpoint
    BY <1>0, <1>4
       DEF BeginStep, BeginCheckpoint, SetStep, Goto, reportVars, historyVars, StepPlace,
           VerdictPlace, Concluded
  <2>1. /\ rec'.active /\ ~rec'.failed
        /\ rec'.step = IF step' \in StepIds THEN step' ELSE NoStep
    BY <1>0, <1>u, <2>0
       DEF Evidence, Recording, RecorderTypeOK, RecStates, AfterHuman
  <2>2. Recording' /\ Framed'
    BY <1>u, <2>0, <2>1 DEF Evidence, Recording, Framed
  <2>3. Asked'
    <3>1. \A k \in DOMAIN log : log[k].step <= step /\ log[k].step \in Nat
      BY <1>0, <1>u, <2>0, LogFacts DEF Evidence, Asked, RecorderTypeOK
    <3>2. /\ \A k \in DOMAIN log' : log'[k].step <= step'
          /\ Transfers' = {}
      BY <2>0, <3>1 DEF Transfers
    <3>3. QED BY <2>0, <3>2 DEF Asked
  <2>4. Lines' /\ WriteAhead'
    BY <1>0, <2>0 DEF Lines, Filed, WriteAhead, LogHas
  <2>5. \A i \in StepIds : Past(i)' => Past(i)
    BY <2>0 DEF Past
  <2>6. Backed'
    BY <1>0, <2>0, <2>5 DEF Filed, Backed, Proven, LogHas
  <2>7. QED BY <2>2, <2>3, <2>4, <2>6 DEF Evidence, Filed
<1>5. QED BY <1>1, <1>2, <1>3, <1>4

(* What the engine knows of the recorder between two calls under way.      *)
LEMMA RecorderFacts ==
  ASSUME TypeOK, Evidence, pc \in Underway
  PROVE  /\ rec.active
         /\ step \in StepIds => rec.step = step
         /\ pc \notin AfterHuman \cup {"return"} => ~rec.failed
         /\ rec.failed => handoff.failed
BY DEF Evidence, Recording
LEMMA GateEvident ==
  ASSUME TypeOK, Control, Progress, Evidence,
         ResolveFails \/ Resolve \/ Decide \/ Locate \/ RecordDispatch
  PROVE  Evidence'
<1>0. /\ EngineTypeOK /\ RecorderTypeOK /\ StepPlace /\ VerdictPlace /\ Filed /\ Lines
      /\ Recording /\ Asked
  BY DEF TypeOK, Control, Progress, Evidence, Filed
<1>u. /\ {"resolve", "gate", "locate", "dispatch", "operate", "pre"} \subseteq Underway
      /\ {"resolve", "gate", "locate", "dispatch", "operate", "pre"} \subseteq Untransferred
      /\ {"resolve", "gate", "locate", "dispatch"} \cap (AfterHuman \cup {"return"}) = {}
  <2>1. {"resolve", "gate", "locate", "dispatch", "operate", "pre"} \subseteq Untransferred
    BY DEF Untransferred, InStep, Acting, BeforeHuman, WithHuman, AfterHuman
  <2>2. QED BY <2>1, UnderwayFacts, LabelFacts DEF AfterHuman
<1>s. /\ pc \in {"resolve", "gate", "locate", "dispatch"} /\ step \in StepIds
      /\ UNCHANGED <<step, attempts>> /\ CountedSince \in BOOLEAN
  <2>1. pc \in {"resolve", "gate", "locate", "dispatch"} /\ UNCHANGED <<step, attempts>>
    BY DEF ResolveFails, ObserveFails, Resolve, Decide, Locate, RecordDispatch, historyVars
  <2>2. QED BY <1>0, <2>1 DEF StepPlace, InStep, Acting, CountedSince
<1>r. rec.active /\ ~rec.failed /\ rec.step = step
  BY <1>s, <1>u, RecorderFacts
<1>n. Notes({"GATE_DECISION", "ACTION_DISPATCHED"}) /\ (RecorderKept \/ rec'.failed)
  <2>1. CASE ResolveFails \/ Resolve \/ Locate
    BY <1>r, <2>1 DEF ResolveFails, ObserveFails, Resolve, Locate, recorderVars, Notes, RecorderKept
  <2>2. CASE Decide
    <3>1. Written("GATE_DECISION") \/ NotWritten("GATE_DECISION")
      BY <2>2 DEF Decide
    <3>2. Notes({"GATE_DECISION"})
      BY <1>0, <3>1, EventFacts, WrittenNotes, NotWrittenNotes
    <3>3. rec'.active = rec.active /\ rec'.step = rec.step
      BY <1>0, <1>r, <3>1, EventFacts, WrittenNotes, NotWrittenNotes
    <3>4. QED BY <3>2, <3>3 DEF Notes, RecorderKept
  <2>3. CASE RecordDispatch
    <3>1. DispatchWritten \/ NotWritten("ACTION_DISPATCHED")
      BY <2>3 DEF RecordDispatch, DispatchNotWritten
    <3>2. Notes({"ACTION_DISPATCHED"})
      BY <1>0, <3>1, EventFacts, WrittenNotes, NotWrittenNotes
    <3>3. rec'.active = rec.active /\ rec'.step = rec.step
      BY <1>0, <1>r, <3>1, EventFacts, WrittenNotes, NotWrittenNotes
    <3>4. QED BY <3>2, <3>3 DEF Notes, RecorderKept
  <2>4. QED BY <2>1, <2>2, <2>3
<1>k. Kept /\ Notes(EventTypes) /\ Notes(EventTypes \ {"CONTROL_TRANSFERRED"})
  BY <1>0, <1>n, EventFacts, NotesKept DEF Notes
<1>h. CASE \/ \E code \in Codes, d \in BOOLEAN : Fail(code) \/ FailMarked(code, d)
           \/ Outcome
  BY <1>0, <1>k, <1>s, <1>h, FailEvident
<1>p. ASSUME pc' \in {"resolve", "gate", "locate", "dispatch", "operate", "pre"},
             UNCHANGED <<steps, result>>, ~rec'.failed, Lines'
      PROVE  Evidence'
  <2>1. Quietly
    BY <1>s, <1>u, <1>p DEF Quietly
  <2>2. Asked'
    BY <1>0, <1>k, <1>s, <1>u, <2>1, QuietAsked DEF TypeOK
  <2>3. RecorderKept /\ pc \in Underway /\ pc' \in Underway
    BY <1>n, <1>s, <1>u, <1>p
  <2>4. QED BY <1>0, <1>k, <1>s, <1>p, <2>2, <2>3, PassEvidence
<1>1. CASE ResolveFails \/ Resolve \/ Locate
  <2>1. CASE \E b \in {"resolve", "gate", "dispatch"} : Goto(b)
    <3>1. pc' \in {"resolve", "gate", "dispatch"} /\ UNCHANGED <<steps, result>>
      BY <2>1 DEF Goto, reportVars
    <3>2. ~rec'.failed
      BY <1>1, <1>r DEF ResolveFails, ObserveFails, Resolve, Locate, recorderVars
    <3>3. Lines'
      BY <3>1 DEF Lines
    <3>4. QED BY <1>p, <3>1, <3>2, <3>3
  <2>2. QED BY <1>1, <1>h, <1>s, <2>1, CodeFacts DEF ResolveFails, ObserveFails, Resolve, Locate
<1>2. CASE Decide
  <2>1. CASE Written("GATE_DECISION") /\ Obey(ruling'.decision)
    <3>1. CASE \E b \in {"dispatch", "locate", "pre"} : Goto(b)
      <4>1. pc' \in {"dispatch", "locate", "pre"} /\ UNCHANGED <<steps, result>>
        BY <3>1 DEF Goto, reportVars
      <4>2. ~rec'.failed
        BY <1>0, <2>1, EventFacts, WrittenNotes
      <4>3. Lines'
        BY <4>1 DEF Lines
      <4>4. QED BY <1>p, <4>1, <4>2, <4>3
    <3>2. QED BY <1>h, <2>1, <3>1, CodeFacts DEF Obey
  <2>2. QED BY <1>2, <1>h, <2>1, CodeFacts DEF Decide
<1>3. CASE RecordDispatch
  <2>1. CASE DispatchWritten /\ Goto("operate")
    <3>1. pc' = "operate" /\ UNCHANGED <<steps, result>>
      BY <2>1 DEF Goto, reportVars
    <3>2. ~rec'.failed /\ \E k \in DOMAIN log' : /\ log'[k].type = "ACTION_DISPATCHED"
                                                  /\ log'[k].step = rec.step
      BY <1>0, <2>1, EventFacts, WrittenNotes
    <3>3. Lines'
      BY <1>r, <1>s, <3>1, <3>2 DEF Lines, LogHas
    <3>4. QED BY <1>p, <3>1, <3>2, <3>3
  <2>2. QED BY <1>3, <1>h, <2>1, CodeFacts DEF RecordDispatch
<1>4. QED BY <1>1, <1>2, <1>3

(* Completing a step that is on record. *)
LEMMA CompleteEvident ==
  ASSUME TypeOK, Evidence, VerdictPlace, step \in StepIds,
         pc \in {"output", "postcondition", "restore"},
         UNCHANGED <<step, attempts>>, CompleteStep(Current), Notes(EventTypes),
         rec'.active = rec.active, rec'.step = rec.step, ~rec'.failed,
         \/ LogHas("ACTION_COMPLETED", step)
         \/ steps[step].byHuman /\ \E k \in DOMAIN log' : /\ log'[k].type = "INTERVENTION_VERIFIED"
                                                         /\ log'[k].step = step
  PROVE  Evidence'
<1>0. /\ EngineTypeOK /\ RecorderTypeOK /\ Filed /\ Recording /\ Asked /\ Kept
      /\ {"output", "postcondition", "restore", "step"} \subseteq Underway
  BY NotesKept, UnderwayFacts, LabelFacts DEF TypeOK, Evidence
<1>1. /\ pc' = "step" /\ UNCHANGED result /\ result.status = "NONE"
      /\ steps'[step].status = "COMPLETED" /\ steps'[step].byHuman = steps[step].byHuman
      /\ \A i \in StepIds : i # step => steps'[i] = steps[i]
  <2>1. pc' = "step" /\ UNCHANGED result
    BY DEF CompleteStep
  <2>2. result.status = "NONE"
    BY <1>0 DEF VerdictPlace, Underway
  <2>3. /\ steps'[step].status = "COMPLETED" /\ steps'[step].byHuman = steps[step].byHuman
        /\ \A i \in StepIds : i # step => steps'[i] = steps[i]
    BY <1>0 DEF CompleteStep, Current, EngineTypeOK, StepRecords
  <2>4. QED BY <2>1, <2>2, <2>3
<1>2. Recording'
  BY <1>0, <1>1 DEF Recording
<1>3. Framed'
  BY <1>0, <1>1, LogFacts, EmptySeq DEF Evidence, Framed, Kept, RecorderTypeOK
<1>4. Asked'
  <2>1. pc' \notin Untransferred \cup {"accept", "human"}
    BY <1>1 DEF Untransferred, InStep, Acting, BeforeHuman, WithHuman, AfterHuman
  <2>2. QED BY <1>0, <2>1, LooseAsked
<1>5. Lines' /\ WriteAhead'
  BY <1>0, <1>1, KeptHas DEF Lines, Filed, WriteAhead, LogHas
<1>6. ASSUME NEW i \in StepIds, Past(i)' PROVE Proven(i)'
  <2>1. CASE i = step
    BY <1>0, <1>1, <2>1, KeptHas DEF Proven, LogHas
  <2>2. CASE i # step
    <3>1. Proven(i) /\ steps'[i] = steps[i]
      BY <1>0, <1>1, <1>6, <2>2 DEF Past, Filed, Backed
    <3>2. QED BY <1>0, <3>1, KeptHas DEF Proven, LogHas
  <2>3. QED BY <2>1, <2>2
<1>7. QED BY <1>2, <1>3, <1>4, <1>5, <1>6 DEF Evidence, Filed, Backed

LEMMA ActEvident ==
  ASSUME TypeOK, Control, Progress, Evidence,
         Operate \/ RecordCompleted \/ RecordFailed \/ RecordOutput
  PROVE  Evidence'
<1>0. /\ EngineTypeOK /\ RecorderTypeOK /\ StepPlace /\ VerdictPlace /\ Filed /\ Lines
      /\ Recording /\ Asked
  BY DEF TypeOK, Control, Progress, Evidence, Filed
<1>u. /\ {"operate", "completed", "failed", "output", "postcondition"} \subseteq Underway
      /\ {"operate", "completed", "failed", "output", "postcondition"} \subseteq Untransferred
      /\ {"operate", "completed", "failed", "output"} \cap (AfterHuman \cup {"return"}) = {}
  <2>1. {"operate", "completed", "failed", "output", "postcondition"} \subseteq Untransferred
    BY DEF Untransferred, InStep, Acting, BeforeHuman, WithHuman, AfterHuman
  <2>2. QED BY <2>1, UnderwayFacts, LabelFacts DEF AfterHuman
<1>s. /\ pc \in {"operate", "completed", "failed", "output"} /\ step \in StepIds
      /\ UNCHANGED step /\ CountedSince \in BOOLEAN
      /\ ~Operate => pc # "operate" /\ UNCHANGED attempts
  <2>1. /\ pc \in {"operate", "completed", "failed", "output"} /\ UNCHANGED step
        /\ ~Operate => pc # "operate" /\ UNCHANGED attempts
    BY DEF Operate, RecordCompleted, RecordFailed, RecordOutput, historyVars
  <2>2. QED BY <1>0, <2>1 DEF StepPlace, InStep, Acting, CountedSince
<1>r. rec.active /\ ~rec.failed /\ rec.step = step
  BY <1>s, <1>u, RecorderFacts
<1>h. CASE ~Operate /\ Kept /\ \E code \in Codes, d \in BOOLEAN : Fail(code) \/ FailMarked(code, d)
  BY <1>0, <1>s, <1>h, FailEvident
<1>k. ASSUME NEW type \in EventTypes, Written(type) \/ NotWritten(type)
      PROVE  Notes({type}) /\ Kept
  BY <1>0, <1>k, WrittenNotes, NotWrittenNotes, NotesKept
<1>1. CASE Operate
  <2>0. /\ pc = "operate" /\ pc' \in {"completed", "failed"} /\ UNCHANGED <<steps, result, rec, log>>
        /\ attempts' = [attempts EXCEPT ![step] = @ + 1]
    BY <1>1 DEF Operate, Goto, reportVars, recorderVars
  <2>1. Recording'
    BY <1>0, <1>r, <1>s, <1>u, <2>0 DEF Recording
  <2>2. Framed'
    BY <1>u, <2>0 DEF Evidence, Framed
  <2>3. Asked'
    BY <1>0, <1>s, <1>u, <2>0 DEF Asked, Transfers, Untransferred
  <2>4. WriteAhead' /\ Lines'
    BY <1>0, <1>s, <2>0 DEF Filed, WriteAhead, Lines, LogHas, EngineTypeOK
  <2>5. Backed'
    BY <1>0, <1>s, <2>0 DEF Filed, Backed, Past, Proven, LogHas
  <2>6. QED BY <2>1, <2>2, <2>3, <2>4, <2>5 DEF Evidence, Filed
<1>2. CASE RecordCompleted
  <2>0. pc = "completed" /\ UNCHANGED attempts /\ ~Operate
    BY <1>2 DEF RecordCompleted, Operate, historyVars
  <2>1. CASE /\ Written("ACTION_COMPLETED")
             /\ steps' = [steps EXCEPT ![step].dispatched = TRUE]
             /\ pc' = IF Act.action = "READ" THEN "output" ELSE "postcondition"
             /\ UNCHANGED <<outputs, result>>
    <3>1. /\ pc' \in {"output", "postcondition"}
          /\ \A i \in StepIds : /\ steps'[i].status = steps[i].status
                             /\ steps'[i].byHuman = steps[i].byHuman
      BY <1>0, <2>1 DEF EngineTypeOK, StepRecords
    <3>2. /\ Notes({"ACTION_COMPLETED"}) /\ rec'.active /\ ~rec'.failed /\ rec'.step = rec.step
          /\ \E k \in DOMAIN log' : /\ log'[k].type = "ACTION_COMPLETED"
                                    /\ log'[k].step = rec.step
      BY <1>0, <2>1, EventFacts, WrittenNotes
    <3>3. Notes(EventTypes) /\ Notes(EventTypes \ {"CONTROL_TRANSFERRED"})
      BY <3>2, EventFacts DEF Notes
    <3>4. Lines'
      BY <1>r, <1>s, <3>1, <3>2 DEF Lines, LogHas
    <3>5. Quietly /\ pc \in Underway /\ pc' \in Underway /\ RecorderKept
      BY <1>r, <1>u, <2>0, <3>1, <3>2 DEF Quietly, RecorderKept
    <3>6. Asked'
      BY <1>0, <1>s, <3>3, <3>5, QuietAsked
    <3>7. QED BY <1>0, <1>s, <2>0, <2>1, <3>1, <3>3, <3>4, <3>5, <3>6, PassEvidence
  <2>2. CASE NotWritten("ACTION_COMPLETED") /\ FailMarked("EVIDENCE_ERROR", TRUE)
    BY <1>h, <1>k, <2>0, <2>2, EventFacts, CodeFacts
  <2>3. QED BY <1>2, <2>1, <2>2 DEF RecordCompleted
<1>3. CASE RecordFailed
  <2>0. ~Operate
    BY <1>3 DEF RecordFailed, Operate
  <2>1. Kept
    BY <1>3, <1>k, EventFacts DEF RecordFailed
  <2>2. QED BY <1>3, <1>h, <1>s, <2>0, <2>1, CodeFacts DEF RecordFailed
<1>4. CASE RecordOutput
  <2>0. /\ pc = "output" /\ UNCHANGED <<attempts, rec, log>> /\ ~Operate
    BY <1>4 DEF RecordOutput, Operate, historyVars, recorderVars
  <2>1. Kept /\ Notes(EventTypes)
    BY <2>0 DEF Kept, Notes
  <2>2. CASE CompleteStep(Current)
    <3>1. LogHas("ACTION_COMPLETED", step)
      BY <1>0, <2>0 DEF Lines
    <3>2. QED BY <1>0, <1>r, <1>s, <2>0, <2>1, <2>2, <3>1, CompleteEvident
  <2>3. QED BY <1>4, <1>h, <2>0, <2>1, <2>2, CodeFacts DEF RecordOutput
<1>5. QED BY <1>1, <1>2, <1>3, <1>4

LEMMA AwaitEvident ==
  ASSUME TypeOK, Control, Progress, Evidence, WaitFails \/ AwaitPostcondition \/ AwaitCheckpoint
  PROVE  Evidence'
<1> USE PlanFacts
<1>0. /\ EngineTypeOK /\ RecorderTypeOK /\ StepPlace /\ VerdictPlace /\ Filed /\ Lines
      /\ Recording /\ Asked
  BY DEF TypeOK, Control, Progress, Evidence, Filed
<1>u. {"postcondition", "checkpoint"} \subseteq Underway \ (AfterHuman \cup {"return"})
  BY UnderwayFacts, LabelFacts DEF AfterHuman
<1>s. /\ pc \in {"postcondition", "checkpoint"}
      /\ UNCHANGED <<step, attempts, rec, log>>
      /\ pc = "postcondition" => step \in StepIds
      /\ pc = "checkpoint" => step = Checkpoint
  BY <1>0 DEF WaitFails, ObserveFails, AwaitPostcondition, AwaitCheckpoint, Await, historyVars,
              recorderVars, StepPlace, InStep
<1>r. rec.active /\ ~rec.failed /\ (step \in StepIds => rec.step = step)
  BY <1>s, <1>u, RecorderFacts
<1>k. Kept /\ Notes(EventTypes) /\ Notes(EventTypes \ {"CONTROL_TRANSFERRED"})
  BY <1>s DEF Kept, Notes
<1>1. CASE (\E code \in Codes : Fail(code)) \/ Outcome
  BY <1>0, <1>k, <1>s, <1>1, FailEvident
<1>2. CASE Goto(pc)
  <2>1. pc' = pc /\ UNCHANGED <<steps, result>>
    BY <1>2 DEF Goto, reportVars
  <2>2. Quietly /\ RecorderKept
    BY <1>r, <1>s, <2>1 DEF Quietly, RecorderKept
  <2>3. Asked'
    BY <1>0, <1>k, <1>s, <1>u, <2>2, QuietAsked
  <2>4. Lines'
    BY <1>0, <1>s, <2>1 DEF Lines, LogHas
  <2>5. QED BY <1>0, <1>k, <1>s, <1>u, <2>1, <2>2, <2>3, <2>4, PassEvidence
<1>3. CASE pc = "postcondition" /\ CompleteStep(Current)
  <2>1. LogHas("ACTION_COMPLETED", step)
    BY <1>0, <1>3 DEF Lines
  <2>2. QED BY <1>0, <1>k, <1>r, <1>s, <1>3, <2>1, CompleteEvident
<1>4. CASE pc = "checkpoint" /\ Succeed
  <2>1. pc' = "terminal" /\ UNCHANGED steps
    BY <1>4 DEF Succeed
  <2>2. Recording'
    BY <1>r, <1>s, <2>1, UnderwayFacts DEF Recording
  <2>3. Framed'
    BY <1>0, <1>s, <1>u, <2>1 DEF Evidence, Framed
  <2>4. Asked' /\ Lines'
    BY <2>1, UnderwayFacts
       DEF Asked, Lines, InStep, Acting, BeforeHuman, WithHuman, AfterHuman
  <2>5. WriteAhead' /\ Backed'
    BY <1>0, <1>s, <2>1 DEF Filed, WriteAhead, Backed, Past, Proven, LogHas
  <2>6. QED BY <2>2, <2>3, <2>4, <2>5 DEF Evidence, Filed
<1>5. QED BY <1>1, <1>2, <1>3, <1>4, CodeFacts
          DEF WaitFails, ObserveFails, AwaitPostcondition, AwaitCheckpoint, Await, PollAgain

(* One more event is one more line. *)
LEMMA TransferCounted ==
  ASSUME TypeOK, Recording, Asked, pc \in Underway, step \in StepIds, UNCHANGED step,
         Written("CONTROL_TRANSFERRED"), NEW n \in Nat, Cardinality(Transfers) = n
  PROVE  Cardinality(Transfers') = n + 1
<1>0. /\ log \in Seq(Events) /\ DOMAIN log = 1..Len(log) /\ Len(log) \in Nat
      /\ rec.step = step
  BY LogFacts DEF TypeOK, RecorderTypeOK, Recording
<1>1. /\ DOMAIN log' = 1..(Len(log) + 1)
      /\ log'[Len(log) + 1] = Stamp(rec, "CONTROL_TRANSFERRED")
      /\ \A k \in 1..Len(log) : log'[k] = log[k]
  BY <1>0, StampType, EventFacts, AppendFacts DEF TypeOK, RecorderTypeOK, Written
<1>2. /\ Stamp(rec, "CONTROL_TRANSFERRED").type = "CONTROL_TRANSFERRED"
      /\ Stamp(rec, "CONTROL_TRANSFERRED").step = step
  BY <1>0 DEF Stamp
<1>3. Transfers' = Transfers \cup {Len(log) + 1} /\ Len(log) + 1 \notin Transfers
  BY <1>0, <1>1, <1>2 DEF Transfers
<1>4. IsFiniteSet(Transfers)
  <2>1. Transfers \subseteq 1..Len(log) /\ IsFiniteSet(1..Len(log))
    BY <1>0, FS_Interval DEF Transfers
  <2>2. QED BY <2>1, FS_Subset
<1>5. QED BY <1>3, <1>4, FS_AddElement

LEMMA AskEvident ==
  ASSUME TypeOK, Control, Progress, Evidence,
         \/ ObservePre \/ ObservePreFails \/ CapturePre \/ RequestIntervention
         \/ EscalateControl \/ AcceptControl
  PROVE  Evidence'
<1>0. /\ EngineTypeOK /\ RecorderTypeOK /\ StepPlace /\ VerdictPlace /\ Filed /\ Lines
      /\ Recording /\ Asked
  BY DEF TypeOK, Control, Progress, Evidence, Filed
<1>u. /\ BeforeHuman \cup {"accept", "human"} \subseteq Underway
      /\ BeforeHuman \subseteq Untransferred
      /\ {"accept", "human"} \cap Untransferred = {}
      /\ (BeforeHuman \cup {"accept"}) \cap (AfterHuman \cup {"return"}) = {}
  <2>1. BeforeHuman \subseteq Untransferred /\ {"accept", "human"} \cap Untransferred = {}
    BY DEF Untransferred, InStep, BeforeHuman, WithHuman, AfterHuman
  <2>2. QED BY <2>1, UnderwayFacts, LabelFacts DEF BeforeHuman, AfterHuman
<1>s. /\ pc \in BeforeHuman \cup {"accept"} /\ step \in StepIds
      /\ UNCHANGED <<step, attempts>>
  <2>1. pc \in BeforeHuman \cup {"accept"} /\ UNCHANGED <<step, attempts>>
    BY DEF ObservePre, ObservePreFails, ObserveFails, CapturePre, RequestIntervention,
           EscalateControl, AcceptControl, historyVars, BeforeHuman
  <2>2. QED BY <1>0, <2>1 DEF StepPlace, InStep
<1>r. rec.active /\ ~rec.failed /\ rec.step = step
  BY <1>s, <1>u, RecorderFacts
<1>h. CASE Kept /\ \E code \in Codes : Fail(code)
  BY <1>0, <1>s, <1>h, FailEvident
<1>k. ASSUME NEW type \in EventTypes, Written(type) \/ NotWritten(type)
      PROVE  Notes({type}) /\ Kept /\ Notes(EventTypes)
  BY <1>0, <1>k, WrittenNotes, NotWrittenNotes, NotesKept DEF Notes
<1>1. CASE ObservePre
  <2>0. /\ pc = "pre" /\ pc' = "preshot" /\ UNCHANGED <<steps, result, rec, log>>
    BY <1>1 DEF ObservePre, Goto, reportVars, recorderVars
  <2>1. Notes(EventTypes) /\ Notes(EventTypes \ {"CONTROL_TRANSFERRED"}) /\ Lines'
    BY <2>0 DEF Notes, Lines
  <2>2. RecorderKept /\ Quietly /\ pc' \in Underway
    BY <1>r, <1>s, <1>u, <2>0 DEF RecorderKept, Quietly, BeforeHuman
  <2>3. Asked'
    BY <1>0, <1>s, <1>u, <2>1, <2>2, QuietAsked
  <2>4. QED BY <1>0, <1>s, <1>u, <2>0, <2>1, <2>2, <2>3, PassEvidence
<1>2. CASE ObservePreFails
  BY <1>2, <1>h, CodeFacts DEF ObservePreFails, ObserveFails, recorderVars, Kept
<1>3. CASE CapturePre
  <2>0. Kept
    BY <1>3 DEF CapturePre, ArtifactStored, ArtifactRefused, recorderVars, Kept
  <2>1. CASE ArtifactStored /\ Goto("request")
    <3>0. /\ pc = "preshot" /\ pc' = "request" /\ UNCHANGED <<steps, result, rec, log>>
      BY <1>3, <2>1 DEF CapturePre, ArtifactStored, Goto, reportVars, recorderVars
    <3>1. Notes(EventTypes) /\ Notes(EventTypes \ {"CONTROL_TRANSFERRED"}) /\ Lines'
      BY <3>0 DEF Notes, Lines
    <3>2. RecorderKept /\ Quietly /\ pc' \in Underway
      BY <1>r, <1>s, <1>u, <3>0 DEF RecorderKept, Quietly, BeforeHuman
    <3>3. Asked'
      BY <1>0, <1>s, <1>u, <3>1, <3>2, QuietAsked
    <3>4. QED BY <1>0, <1>s, <1>u, <3>0, <3>1, <3>2, <3>3, PassEvidence
  <2>2. QED BY <1>3, <1>h, <2>0, <2>1, CodeFacts DEF CapturePre
<1>4. CASE RequestIntervention
  <2>1. CASE Written("INTERVENTION_REQUESTED") /\ Goto("escalate")
    <3>0. pc = "request" /\ pc' = "escalate" /\ UNCHANGED <<steps, result>>
      BY <1>4, <2>1 DEF RequestIntervention, Goto, reportVars
    <3>1. /\ Notes({"INTERVENTION_REQUESTED"}) /\ rec'.active /\ ~rec'.failed
          /\ rec'.step = rec.step
          /\ \E k \in DOMAIN log' : /\ log'[k].type = "INTERVENTION_REQUESTED"
                                    /\ log'[k].step = rec.step
      BY <1>0, <2>1, EventFacts, WrittenNotes
    <3>2. Notes(EventTypes) /\ Notes(EventTypes \ {"CONTROL_TRANSFERRED"})
      BY <3>1, EventFacts DEF Notes
    <3>3. Lines'
      BY <1>r, <1>s, <3>0, <3>1 DEF Lines, LogHas
    <3>4. RecorderKept /\ Quietly /\ pc' \in Underway
      BY <1>r, <1>s, <1>u, <3>0, <3>1 DEF RecorderKept, Quietly, BeforeHuman
    <3>5. Asked'
      BY <1>0, <1>s, <1>u, <3>2, <3>4, QuietAsked
    <3>6. QED BY <1>0, <1>s, <1>u, <3>0, <3>2, <3>3, <3>4, <3>5, PassEvidence
  <2>2. QED BY <1>4, <1>h, <1>k, <2>1, EventFacts, CodeFacts DEF RequestIntervention, EarlyEmit
<1>5. CASE EscalateControl \/ AcceptControl
  <2>1. CASE /\ Written("CONTROL_TRANSFERRED")
             /\ \/ pc = "escalate" /\ Goto("accept")
                \/ pc = "accept" /\ Goto("human")
    <3>0. /\ pc = "escalate" \/ pc = "accept"
          /\ pc = "escalate" => pc' = "accept"
          /\ pc = "accept" => pc' = "human"
          /\ UNCHANGED <<steps, result>>
      BY <2>1 DEF Goto, reportVars
    <3>1. /\ Notes({"CONTROL_TRANSFERRED"}) /\ rec'.active /\ ~rec'.failed
          /\ rec'.step = rec.step
      BY <1>0, <2>1, EventFacts, WrittenNotes
    <3>2. Notes(EventTypes) /\ Kept
      BY <1>k, <2>1, EventFacts
    <3>3. Lines'
      BY <1>0, <1>s, <3>0, <3>2, KeptHas DEF Lines, LogHas
    <3>4. RecorderKept /\ pc' \in Underway
      BY <1>r, <1>u, <3>0, <3>1 DEF RecorderKept
    <3>5. Asked'
      <4>1. \A k \in DOMAIN log' : log'[k].step <= step'
        BY <1>0, <1>s, <1>u, <3>2, StampedSteps
      <4>2. CASE pc = "escalate"
        <5>1. Cardinality(Transfers) = 0
          BY <1>0, <1>u, <4>2, FS_EmptySet DEF Asked, Untransferred, BeforeHuman
        <5>2. Cardinality(Transfers') = 1
          BY <1>0, <1>s, <1>u, <2>1, <5>1, TransferCounted
        <5>3. QED BY <1>u, <3>0, <4>1, <4>2, <5>2 DEF Asked, Untransferred
      <4>3. CASE pc = "accept"
        <5>1. Cardinality(Transfers') = 2
          BY <1>0, <1>s, <1>u, <2>1, <4>3, TransferCounted DEF Asked
        <5>2. QED BY <1>u, <3>0, <4>1, <4>3, <5>1 DEF Asked, Untransferred
      <4>4. QED BY <3>0, <4>2, <4>3
    <3>6. QED BY <1>0, <1>s, <1>u, <3>0, <3>2, <3>3, <3>4, <3>5, PassEvidence
  <2>2. QED BY <1>5, <1>h, <1>k, <2>1, EventFacts, CodeFacts
            DEF EscalateControl, AcceptControl, EarlyEmit
<1>6. QED BY <1>1, <1>2, <1>3, <1>4, <1>5

LEMMA StillEvident ==
  ASSUME Evidence, UNCHANGED <<pc, step, rec, log, handoff, result, steps, attempts>>
  PROVE  Evidence'
<1>1. Recording' /\ Framed' /\ Asked'
  BY DEF Evidence, Recording, Framed, Asked, Transfers
<1>2. Lines' /\ WriteAhead' /\ Backed'
  BY DEF Evidence, Filed, Lines, WriteAhead, Backed, Past, Proven, LogHas
<1>3. QED BY <1>1, <1>2 DEF Evidence, Filed

LEMMA HumanEvident ==
  ASSUME TypeOK, Control, Progress, Evidence, Human \/ PageDrifts
  PROVE  Evidence'
<1> USE PlanFacts
<1>0. /\ EngineTypeOK /\ RecorderTypeOK /\ StepPlace /\ VerdictPlace /\ Filed /\ Lines
      /\ Recording /\ Asked
  BY DEF TypeOK, Control, Progress, Evidence, Filed
<1>u. /\ {"human", "handback"} \subseteq Underway
      /\ "human" \notin AfterHuman \cup {"return"}
      /\ "handback" \notin Untransferred
  BY UnderwayFacts, LabelFacts DEF AfterHuman, Untransferred, WithHuman
<1>1. CASE HumanActs \/ PageDrifts
  BY <1>1, StillEvident DEF HumanActs, PageDrifts, reportVars, historyVars, recorderVars
<1>2. CASE HandsBack
  <2>0. /\ pc = "human" /\ pc' = "handback"
        /\ UNCHANGED <<step, attempts, steps, result, rec, log>>
    BY <1>2 DEF HandsBack, Goto, reportVars, historyVars, recorderVars
  <2>1. rec.active /\ ~rec.failed
    BY <1>u, <2>0, RecorderFacts
  <2>2. Notes(EventTypes) /\ RecorderKept /\ Lines'
    BY <2>0, <2>1 DEF Notes, RecorderKept, Lines
  <2>3. Asked'
    BY <1>0, <1>u, <2>0, <2>2, LooseAsked
  <2>4. QED BY <1>0, <1>u, <2>0, <2>2, <2>3, PassEvidence
<1>3. CASE HandlerRaises
  <2>0. /\ pc = "human" /\ pc' = "ending" /\ result'.status = "RAISED"
        /\ UNCHANGED <<step, attempts, steps, rec, log>>
    BY <1>3 DEF HandlerRaises, NoResult, historyVars, recorderVars
  <2>1. Recording' /\ Framed' /\ Asked' /\ Lines'
    BY <2>0, UnderwayFacts
       DEF Recording, Framed, Asked, Lines, InStep, Acting, BeforeHuman, WithHuman, AfterHuman
  <2>2. WriteAhead' /\ Backed'
    BY <1>0, <2>0 DEF Filed, WriteAhead, Backed, Past, Proven, LogHas
  <2>3. QED BY <2>1, <2>2 DEF Evidence, Filed
<1>4. QED BY <1>1, <1>2, <1>3 DEF Human

LEMMA ReturnEvident ==
  ASSUME TypeOK, Control, Progress, Evidence,
         \/ RecordHandBack \/ ReturnControl \/ Verify \/ VerifyBlind \/ CapturePost
         \/ RecordVerified \/ Settle \/ RestoreControl
  PROVE  Evidence'
<1> USE PlanFacts
<1>0. /\ EngineTypeOK /\ RecorderTypeOK /\ StepPlace /\ InOrder /\ VerdictPlace /\ Filed
      /\ Lines /\ Recording /\ Asked /\ handoff \in Handoffs
  BY DEF TypeOK, Control, Progress, Evidence, Filed, EngineTypeOK
<1>u. /\ {"handback", "return"} \cup AfterHuman \subseteq Underway
      /\ ({"return"} \cup AfterHuman) \cap (Untransferred \cup {"accept", "human"}) = {}
      /\ "handback" \notin AfterHuman
  BY UnderwayFacts, LabelFacts DEF AfterHuman, Untransferred, WithHuman
<1>s. /\ pc \in {"handback", "return"} \cup AfterHuman /\ step \in StepIds
      /\ UNCHANGED <<step, attempts>>
  <2>1. pc \in {"handback", "return"} \cup AfterHuman /\ UNCHANGED <<step, attempts>>
    BY DEF RecordHandBack, ReturnControl, Verify, VerifyBlind, CapturePost, RecordVerified,
           Settle, RestoreControl, AfterHuman, historyVars
  <2>2. QED BY <1>0, <2>1 DEF StepPlace, InStep, WithHuman
<1>r. rec.active /\ (rec.failed => handoff.failed) /\ rec.step = step
  BY <1>s, <1>u, RecorderFacts
<1>h. CASE Kept /\ ((\E code \in Codes : Fail(code) \/ FailNoRetry(code)) \/ Outcome)
  BY <1>0, <1>s, <1>h, FailEvident
<1>p. ASSUME pc' \in ({"return"} \cup AfterHuman) \ {"restore"}, UNCHANGED <<steps, result>>,
             Notes(EventTypes), rec'.active = rec.active, rec'.step = rec.step,
             rec'.failed => handoff'.failed, Lines'
      PROVE  Evidence'
  <2>1. RecorderKept /\ pc' \in Underway /\ pc' # "step"
    BY <1>p, <1>u DEF RecorderKept, AfterHuman
  <2>2. Asked'
    BY <1>0, <1>p, <1>s, <1>u, LooseAsked
  <2>3. QED BY <1>0, <1>p, <1>s, <1>u, <2>1, <2>2, PassEvidence
<1>e. ASSUME NEW type \in EventTypes, LateEmit(type)
      PROVE  /\ Notes(EventTypes) /\ rec'.active = rec.active /\ rec'.step = rec.step
             /\ rec'.failed => handoff'.failed
             /\ handoff'.verdict = handoff.verdict /\ handoff'.kind = handoff.kind
             /\ ~handoff'.failed =>
                  /\ ~rec'.failed
                  /\ \E k \in DOMAIN log' : log'[k].type = type /\ log'[k].step = step
  <2>1. /\ Notes({type}) /\ rec'.active = rec.active /\ rec'.step = rec.step
        /\ rec'.failed => handoff'.failed
        /\ handoff'.verdict = handoff.verdict /\ handoff'.kind = handoff.kind
        /\ ~handoff'.failed =>
             /\ ~rec'.failed
             /\ \E k \in DOMAIN log' : log'[k].type = type /\ log'[k].step = rec.step
    BY <1>0, <1>r, <1>e, LateNotes
  <2>2. QED BY <1>r, <2>1 DEF Notes
<1>1. CASE RecordHandBack \/ ReturnControl
  <2>0. /\ LateEmit("HAND_BACK") \/ LateEmit("CONTROL_TRANSFERRED")
        /\ pc' \in {"return", "verify"} /\ UNCHANGED <<steps, result>>
    BY <1>1 DEF RecordHandBack, ReturnControl, Goto, reportVars
  <2>1. Lines' /\ pc' \in ({"return"} \cup AfterHuman) \ {"restore"}
    BY <2>0 DEF Lines, AfterHuman
  <2>2. QED BY <1>p, <1>e, <2>0, <2>1, EventFacts
<1>2. CASE Verify \/ VerifyBlind
  <2>0. UNCHANGED <<rec, log>> /\ Kept /\ Notes(EventTypes)
    BY <1>2 DEF Verify, VerifyBlind, recorderVars, Kept, Notes
  <2>1. CASE /\ \E b \in {"verify", "postshot", "verified"} : Goto(b)
             /\ \/ UNCHANGED handoff
                \/ \E v \in {"VERIFIED", "UNKNOWN"} : handoff' = [handoff EXCEPT !.verdict = v]
    <3>1. pc' \in {"verify", "postshot", "verified"} /\ UNCHANGED <<steps, result>>
      BY <2>1 DEF Goto, reportVars
    <3>2. handoff'.failed = handoff.failed
      BY <1>0, <2>1 DEF Handoffs
    <3>3. Lines' /\ pc' \in ({"return"} \cup AfterHuman) \ {"restore"}
      BY <3>1 DEF Lines, AfterHuman
    <3>4. QED BY <1>p, <1>r, <2>0, <3>1, <3>2, <3>3
  <2>2. CASE Outcome
    BY <1>h, <2>0, <2>2
  <2>3. QED
    BY <1>2, <2>1, <2>2 DEF Verify, VerifyBlind, PollAgain
<1>3. CASE CapturePost
  <2>0. /\ pc' = "verified" /\ UNCHANGED <<steps, result, log>>
        /\ \/ UNCHANGED <<rec, handoff>>
           \/ /\ rec' = rec \/ rec' = [rec EXCEPT !.failed = TRUE]
              /\ handoff' = [handoff EXCEPT !.failed = TRUE]
    BY <1>3 DEF CapturePost, ArtifactStored, ArtifactRefused, Goto, reportVars, recorderVars
  <2>1. /\ rec'.active = rec.active /\ rec'.step = rec.step
        /\ rec'.failed => handoff'.failed
    BY <1>0, <1>r, <2>0 DEF Handoffs, RecorderTypeOK, RecStates
  <2>2. Notes(EventTypes) /\ Lines' /\ pc' \in ({"return"} \cup AfterHuman) \ {"restore"}
    BY <2>0 DEF Notes, Lines, AfterHuman
  <2>3. QED BY <1>p, <2>0, <2>1, <2>2
<1>4. CASE RecordVerified
  <2>0. LateEmit("INTERVENTION_VERIFIED") /\ pc' = "settle" /\ UNCHANGED <<steps, result>>
    BY <1>4 DEF RecordVerified, Goto, reportVars
  <2>1. /\ Notes(EventTypes) /\ rec'.active = rec.active /\ rec'.step = rec.step
        /\ rec'.failed => handoff'.failed
        /\ ~handoff'.failed => \E k \in DOMAIN log' : /\ log'[k].type = "INTERVENTION_VERIFIED"
                                                     /\ log'[k].step = step
    BY <1>e, <2>0, EventFacts
  <2>2. Lines' /\ pc' \in ({"return"} \cup AfterHuman) \ {"restore"}
    BY <1>s, <2>0, <2>1 DEF Lines, LogHas, AfterHuman
  <2>3. QED BY <1>p, <2>0, <2>1, <2>2
<1>5. CASE Settle
  <2>0. pc = "settle" /\ UNCHANGED <<rec, log, handoff>> /\ Kept
    BY <1>5 DEF Settle, recorderVars, Kept
  <2>1. CASE \E code \in Codes : Stop("FAILURE", code, "no", ByHuman)
    <3>1. \E d, h : Halts(d, h)
      BY <1>0, <2>1, FailHalts
    <3>2. QED BY <1>0, <1>s, <2>0, <3>1, HaltEvidence
  <2>2. CASE /\ Verified /\ ~handoff.failed /\ handoff.kind = "DONE"
             /\ pc' = "restore" /\ steps' = [steps EXCEPT ![step] = ByHuman]
             /\ UNCHANGED <<outputs, result>>
    <3>0. result.status = "NONE" /\ ~rec.failed /\ {"settle", "restore"} \subseteq Underway \cap AfterHuman
      BY <1>0, <1>r, <1>u, <2>0, <2>2 DEF VerdictPlace, Concluded, AfterHuman
    <3>1. Recording'
      BY <1>0, <1>r, <1>s, <2>0, <2>2, <3>0 DEF Recording, Verified
    <3>2. Framed'
      BY <2>0, <2>2, <3>0 DEF Evidence, Framed
    <3>3. Asked'
      BY <1>0, <1>s, <1>u, <2>0, <2>2, <3>0 DEF Asked
    <3>4. Lines' /\ WriteAhead'
      BY <1>0, <1>s, <2>0, <2>2 DEF Lines, Filed, WriteAhead, LogHas
    <3>5. ASSUME NEW i \in StepIds, Past(i)' PROVE Proven(i)'
      <4>1. Proven(i) /\ steps'[i] = steps[i]
        BY <1>0, <1>s, <2>2, <3>5 DEF Past, Filed, Backed, EngineTypeOK
      <4>2. QED BY <2>0, <4>1 DEF Proven, LogHas
    <3>6. QED BY <3>1, <3>2, <3>3, <3>4, <3>5 DEF Evidence, Filed, Backed
  <2>3. QED BY <1>5, <1>h, <2>0, <2>1, <2>2, CodeFacts DEF Settle
<1>6. CASE RestoreControl
  <2>0. pc = "restore" /\ LateEmit("CONTROL_TRANSFERRED")
    BY <1>6 DEF RestoreControl
  <2>1. /\ Notes(EventTypes) /\ rec'.active = rec.active /\ rec'.step = rec.step
        /\ ~handoff'.failed => ~rec'.failed
    BY <1>e, <2>0, EventFacts
  <2>2. Kept
    BY <1>0, <2>1, NotesKept
  <2>3. CASE ~handoff'.failed /\ CompleteStep(Current)
    <3>1. steps[step].byHuman /\ LogHas("INTERVENTION_VERIFIED", step)
      BY <1>0, <1>s, <2>0 DEF InOrder, Lines
    <3>2. \E k \in DOMAIN log' : log'[k].type = "INTERVENTION_VERIFIED" /\ log'[k].step = step
      BY <2>2, <3>1, KeptHas
    <3>3. ~rec'.failed
      BY <2>1, <2>3
    <3>4. QED BY <1>0, <1>s, <2>0, <2>1, <2>3, <3>1, <3>2, <3>3, CompleteEvident
  <2>4. QED BY <1>6, <1>h, <2>2, <2>3, CodeFacts DEF RestoreControl
<1>7. QED BY <1>1, <1>2, <1>3, <1>4, <1>5, <1>6

(* Past the conclusion the file only grows; a success stands on a terminal *)
(* event that has been written.                                            *)
LEMMA ConcludedEvident ==
  ASSUME EngineTypeOK, RecorderTypeOK, Evidence, pc \in Concluded, pc' \in {"closing", "ending", "idle"},
         UNCHANGED <<step, steps, attempts>>, Kept,
         result'.status = "SUCCESS" =>
           /\ result.status = "SUCCESS"
           /\ pc' = "ending" => rec'.terminal
           /\ pc' \in {"ending", "idle"} => log'[Len(log')].type = "RUN_COMPLETED"
  PROVE  Evidence'
<1>0. pc' \notin Underway /\ pc # "step"
  BY UnderwayFacts DEF Concluded
<1>1. Recording'
  BY <1>0 DEF Recording
<1>2. Framed'
  BY <1>0, LogFacts, EmptySeq DEF Evidence, Framed, Kept, RecorderTypeOK
<1>3. Asked' /\ Lines'
  BY <1>0 DEF Asked, Lines, InStep, Acting, BeforeHuman, WithHuman, AfterHuman
<1>4. WriteAhead'
  <2>1. WriteAhead
    BY DEF Evidence, Filed
  <2>2. ASSUME NEW i \in StepIds, LogHas("ACTION_DISPATCHED", i)
        PROVE  LogHas("ACTION_DISPATCHED", i)'
    BY <2>2 DEF Kept, LogHas
  <2>3. QED BY <2>1, <2>2 DEF WriteAhead
<1>5. ASSUME NEW i \in StepIds, Past(i)' PROVE Proven(i)'
  <2>1. Proven(i)
    BY <1>0, <1>5 DEF Past, Evidence, Filed, Backed
  <2>2. QED BY <2>1, KeptHas DEF Proven, LogHas
<1>6. QED BY <1>1, <1>2, <1>3, <1>4, <1>5 DEF Evidence, Filed, Backed

LEMMA TerminalNotes ==
  ASSUME RecorderTypeOK, NEW type \in TerminalTypes, TerminalWritten(type) \/ TerminalFails(type)
  PROVE  /\ Kept
         /\ TerminalWritten(type) => rec'.terminal /\ log'[Len(log')].type = type
<1> DEFINE e == Stamp(Unstamped, type)
<1>1. log \in Seq(Events) /\ e \in Events /\ e.type = type
  <2>1. rec \in RecStates /\ 0 \in 0..N /\ log \in Seq(Events)
    BY PlanFacts DEF RecorderTypeOK
  <2>2. Unstamped \in RecStates
    BY <2>1, RecUpdates, Zenon DEF Unstamped, NoStep
  <2>3. e \in Events
    BY <2>2, StampType, EventFacts, Zenon
  <2>4. e.type = type
    BY DEF Stamp
  <2>5. QED BY <2>1, <2>3, <2>4
<1>2. log' = log \/ log' = Append(log, e)
  BY DEF TerminalWritten, TerminalFails, WriteFails
<1>3. Kept
  BY <1>1, <1>2, AppendFacts, LogFacts DEF Kept
<1>4. ASSUME TerminalWritten(type)
      PROVE  rec'.terminal /\ log'[Len(log')].type = type
  <2>1. rec'.terminal
    BY <1>4, PlanFacts DEF TerminalWritten, Unstamped, RecorderTypeOK, RecStates
  <2>2. log' = Append(log, e)
    BY <1>4 DEF TerminalWritten
  <2>3. QED BY <1>1, <2>1, <2>2, AppendFacts
<1>5. QED BY <1>3, <1>4

LEMMA EndingEvident ==
  ASSUME TypeOK, Progress, Evidence, Ending
  PROVE  Evidence'
<1>0. EngineTypeOK /\ RecorderTypeOK /\ Recording /\ Framed
  BY DEF TypeOK, Evidence
<1>1. CASE SkipTerminal
  <2>1. /\ pc = "terminal" /\ pc' = "ending" /\ UNCHANGED <<step, steps, attempts, result, log>>
        /\ result.status # "SUCCESS"
    BY <1>0, <1>1
       DEF SkipTerminal, RecorderGivenUp, Recording, Goto, reportVars, historyVars, recorderVars
  <2>2. QED BY <1>0, <2>1, ConcludedEvident DEF Concluded, Kept
<1>2. CASE ReportOutcome
  <2>1. /\ pc = "terminal" /\ pc' \in {"closing", "ending"} /\ UNCHANGED <<step, steps, attempts>>
        /\ result'.status # "SUCCESS"
    BY <1>2 DEF ReportOutcome, Unproven, Goto, reportVars, historyVars
  <2>2. Notes({"BUSINESS_OUTCOME"})
    BY <1>0, <1>2, EventFacts, WrittenNotes, NotWrittenNotes DEF ReportOutcome
  <2>3. Kept
    BY <1>0, <2>2, EventFacts, NotesKept
  <2>4. QED BY <1>0, <2>1, <2>3, ConcludedEvident DEF Concluded
<1>3. CASE RecordTerminal
  <2>0. PICK type \in TerminalTypes :
          /\ type = IF result.status = "FAILURE" THEN "RUN_FAILED" ELSE "RUN_COMPLETED"
          /\ \/ TerminalWritten(type) /\ Goto("ending")
             \/ TerminalFails(type) /\ Unproven
    BY <1>3 DEF RecordTerminal, TerminalTypes
  <2>1. /\ pc \in {"terminal", "closing"} /\ pc' = "ending" /\ UNCHANGED <<step, steps, attempts>>
        /\ result'.status = "SUCCESS" => /\ result.status = "SUCCESS"
                                         /\ TerminalWritten(type)
    BY <1>3, <2>0 DEF RecordTerminal, Unproven, Goto, reportVars, historyVars
  <2>2. /\ Kept
        /\ TerminalWritten(type) => rec'.terminal /\ log'[Len(log')].type = type
    BY <1>0, <2>0, TerminalNotes
  <2>3. QED BY <1>0, <2>0, <2>1, <2>2, ConcludedEvident DEF Concluded
<1>4. CASE Finish
  <2>0. /\ pc = "ending" /\ pc' = "idle" /\ UNCHANGED <<step, steps, attempts, result>>
        /\ EndRun
    BY <1>4 DEF Finish, Goto, reportVars, historyVars
  <2>1. log' = log \/ (~rec.terminal /\ log' = log \o sink.buffer)
    BY <2>0 DEF EndRun, recorderVars
  <2>2. Kept
    <3>1. log \in Seq(Events) /\ sink.buffer \in Seq(Events)
      BY <1>0 DEF RecorderTypeOK, SinkStates
    <3>2. /\ Len(log \o sink.buffer) = Len(log) + Len(sink.buffer)
          /\ \A k \in 1..Len(log) + Len(sink.buffer) : k <= Len(log) =>
               (log \o sink.buffer)[k] = log[k]
      BY <3>1, ConcatProperties
    <3>3. /\ DOMAIN log = 1..Len(log) /\ Len(log) \in Nat /\ Len(sink.buffer) \in Nat
          /\ DOMAIN (log \o sink.buffer) = 1..Len(log \o sink.buffer)
      BY <3>1, LogFacts
    <3>4. \A k \in DOMAIN log : /\ k \in DOMAIN (log \o sink.buffer)
                               /\ (log \o sink.buffer)[k] = log[k]
      BY <3>2, <3>3
    <3>5. QED BY <2>1, <3>4 DEF Kept
  <2>3. result.status = "SUCCESS" => log' = log /\ log[Len(log)].type = "RUN_COMPLETED"
    BY <1>0, <2>0, <2>1 DEF Recording, Framed
  <2>4. QED BY <1>0, <2>0, <2>2, <2>3, ConcludedEvident DEF Concluded
<1>5. QED BY <1>1, <1>2, <1>3, <1>4 DEF Ending

------------------------------------------------------------------------------
(* The inductive invariant of the evidence, on top of the report's. *)

EvidenceInv == ReportInv /\ Evidence

LEMMA EvidenceInit == Init => EvidenceInv
<1> SUFFICES ASSUME Init PROVE EvidenceInv
  OBVIOUS
<1>1. pc = "idle" /\ pc \notin Underway /\ result.status = "NONE" /\ step = 0
  BY UnderwayFacts DEF Init, NoResult
<1>2. Recording /\ Framed /\ Asked /\ Lines
  BY <1>1 DEF Recording, Framed, Asked, Lines, InStep, Acting, BeforeHuman, WithHuman, AfterHuman
<1>3. WriteAhead /\ Backed
  BY <1>1, PlanFacts DEF Init, WriteAhead, Backed, Past
<1>4. QED BY <1>2, <1>3, ReportInit DEF EvidenceInv, Evidence, Filed

LEMMA EvidenceStep == EvidenceInv /\ [Next]_vars => EvidenceInv'
<1> SUFFICES ASSUME EvidenceInv, [Next]_vars PROVE EvidenceInv'
  OBVIOUS
<1>0. TypeOK /\ Control /\ Progress /\ Evidence
  BY DEF EvidenceInv, ReportInv, Invariant, Standing
<1>1. ReportInv'
  BY ReportStep DEF EvidenceInv
<1>2. CASE StartRun \/ Automated
  BY <1>0, <1>1, <1>2, BeginEvident, GateEvident, ActEvident, AwaitEvident
     DEF Automated, EvidenceInv
<1>3. CASE Handover
  BY <1>0, <1>1, <1>3, AskEvident, ReturnEvident DEF Handover, EvidenceInv
<1>4. CASE Ending \/ Human \/ PageDrifts
  BY <1>0, <1>1, <1>4, EndingEvident, HumanEvident DEF EvidenceInv
<1>5. CASE UNCHANGED vars
  BY <1>0, <1>1, <1>5, StillEvident
     DEF EvidenceInv, vars, reportVars, historyVars, recorderVars
<1>6. QED BY <1>2, <1>3, <1>4, <1>5 DEF Next, EngineStep

LEMMA EvidenceHolds == Spec => []EvidenceInv
BY EvidenceInit, EvidenceStep, PTL DEF Spec

(* The write-ahead rule: no driver operation without its ACTION_DISPATCHED *)
(* in the file (on_dispatched before the driver call).                     *)
THEOREM WritesAhead == Spec => []WriteAhead
<1>1. EvidenceInv => WriteAhead
  BY DEF EvidenceInv, Evidence, Filed
<1>2. QED BY <1>1, EvidenceHolds, PTL

(* The human is asked only with the request and both transfers of control  *)
(* on disk (_intervene up to the handler's call).                          *)
THEOREM AskedOnRecord == Spec => []HumanAskedOnRecord
<1>1. ASSUME EvidenceInv PROVE HumanAskedOnRecord
  <2>1. pc = "human" => LogHas("INTERVENTION_REQUESTED", step) /\ Cardinality(Transfers) = 2
    BY <1>1 DEF EvidenceInv, Evidence, Filed, Lines, Asked
  <2>2. QED BY <2>1 DEF HumanAskedOnRecord, Transfers
<1>2. QED BY <1>1, EvidenceHolds, PTL

(* Only RestoreControl gives automation control back. *)
LEMMA OnlyRestore ==
  ASSUME [Next]_vars, ~RestoreControl
  PROVE  owner' = owner \/ owner' # "AUTOMATION"
<1>1. CASE Automated \/ StartRun
  BY <1>1 DEF Automated, BeginEvidence, Bind, BeginStep, BeginCheckpoint, ResolveFails,
              Resolve, Decide, Locate, RecordDispatch, Operate, RecordCompleted, RecordFailed,
              RecordOutput, WaitFails, ObserveFails, AwaitPostcondition, AwaitCheckpoint,
              Await, StartRun
<1>2. CASE Handover
  BY <1>2 DEF Handover, ObservePre, ObservePreFails, ObserveFails, CapturePre,
              RequestIntervention, EscalateControl, AcceptControl, RecordHandBack,
              ReturnControl, Verify, VerifyBlind, CapturePost, RecordVerified, Settle,
              Escalate, Accept, HandBack, Move, Edges
<1>3. CASE Ending \/ Human \/ PageDrifts \/ UNCHANGED vars
  BY <1>3 DEF Ending, SkipTerminal, ReportOutcome, RecordTerminal, Finish, Human, HumanActs,
              HandsBack, HandlerRaises, PageDrifts, vars
<1>4. QED BY <1>1, <1>2, <1>3 DEF Next, EngineStep

(* Automation gets control back only for a step the human reported done,    *)
(* that was verified, with the verdict on disk (_settle's last edge).      *)
THEOREM RestoresVerified == Spec => RestoreOnlyVerified
<1>1. ASSUME EvidenceInv, [Next]_vars, owner # "AUTOMATION", owner' = "AUTOMATION"
      PROVE  /\ handoff.verdict = "VERIFIED" /\ handoff.kind = "DONE"
             /\ steps[step].byHuman
             /\ LogHas("INTERVENTION_VERIFIED", step)
  <2>1. pc = "restore"
    BY <1>1, OnlyRestore DEF RestoreControl
  <2>2. step \in StepIds
    BY <1>1, <2>1 DEF EvidenceInv, ReportInv, Invariant, Control, StepPlace, InStep, AfterHuman
  <2>3. QED BY <1>1, <2>1, <2>2
            DEF EvidenceInv, ReportInv, Standing, Progress, InOrder, Evidence, Recording,
                Filed, Lines
<1>2. EvidenceInv /\ [Next]_vars =>
        [owner # "AUTOMATION" /\ owner' = "AUTOMATION" =>
           /\ handoff.verdict = "VERIFIED" /\ handoff.kind = "DONE"
           /\ steps[step].byHuman
           /\ LogHas("INTERVENTION_VERIFIED", step)]_vars
  BY <1>1
<1>3. QED BY <1>2, EvidenceHolds, PTL DEF Spec, RestoreOnlyVerified

------------------------------------------------------------------------------
(* The owner and the terminal event, against the file.                     *)

LEMMA CycleFacts ==
  /\ OwnerAfter(0) = "AUTOMATION"
  /\ \A n \in Nat :
       /\ OwnerAfter(n) = "AUTOMATION"    => OwnerAfter(n + 1) = "PENDING_HUMAN"
       /\ OwnerAfter(n) = "PENDING_HUMAN" => OwnerAfter(n + 1) = "HUMAN"
       /\ OwnerAfter(n) = "HUMAN"         => OwnerAfter(n + 1) = "RETURNING"
       /\ OwnerAfter(n) = "RETURNING"     => OwnerAfter(n + 1) = "AUTOMATION"
<1>1. /\ OwnerCycle[1] = "AUTOMATION" /\ OwnerCycle[2] = "PENDING_HUMAN"
      /\ OwnerCycle[3] = "HUMAN" /\ OwnerCycle[4] = "RETURNING"
  BY DEF OwnerCycle
<1>2. 0 % 4 = 0
  OBVIOUS
<1>3. ASSUME NEW n \in Nat
      PROVE  /\ n % 4 \in 0..3
             /\ (n + 1) % 4 = IF n % 4 = 3 THEN 0 ELSE (n % 4) + 1
  OBVIOUS
<1>4. ASSUME NEW n \in Nat
      PROVE  /\ OwnerAfter(n) = "AUTOMATION"    => OwnerAfter(n + 1) = "PENDING_HUMAN"
             /\ OwnerAfter(n) = "PENDING_HUMAN" => OwnerAfter(n + 1) = "HUMAN"
             /\ OwnerAfter(n) = "HUMAN"         => OwnerAfter(n + 1) = "RETURNING"
             /\ OwnerAfter(n) = "RETURNING"     => OwnerAfter(n + 1) = "AUTOMATION"
  <2>1. n % 4 \in {0, 1, 2, 3}
    BY <1>3
  <2>2. CASE n % 4 = 0
    BY <1>1, <1>3, <2>2 DEF OwnerAfter
  <2>3. CASE n % 4 = 1
    BY <1>1, <1>3, <2>3 DEF OwnerAfter
  <2>4. CASE n % 4 = 2
    BY <1>1, <1>3, <2>4 DEF OwnerAfter
  <2>5. CASE n % 4 = 3
    BY <1>1, <1>3, <2>5 DEF OwnerAfter
  <2>6. QED BY <2>1, <2>2, <2>3, <2>4, <2>5
<1>5. QED BY <1>1, <1>2, <1>4 DEF OwnerAfter

(* Lines of a file, and of the file with one more line. *)
LEMMA LineFacts ==
  ASSUME NEW l \in Seq(Events)
  PROVE  /\ IsFiniteSet(Transferred(l)) /\ Cardinality(Transferred(l)) \in Nat
         /\ \A e \in Events :
              /\ e.type # "CONTROL_TRANSFERRED" => Transferred(Append(l, e)) = Transferred(l)
              /\ e.type = "CONTROL_TRANSFERRED" =>
                   Cardinality(Transferred(Append(l, e))) = Cardinality(Transferred(l)) + 1
              /\ Clear(l) /\ e.type \notin TerminalTypes => Clear(Append(l, e))
              /\ TrueTo(l) /\ Told(e.type) => TrueTo(Append(l, e))
<1>1. DOMAIN l = 1..Len(l) /\ Len(l) \in Nat
  BY LogFacts
<1>2. IsFiniteSet(Transferred(l)) /\ Cardinality(Transferred(l)) \in Nat
  <2>1. Transferred(l) \subseteq 1..Len(l) /\ IsFiniteSet(1..Len(l))
    BY <1>1, FS_Interval DEF Transferred, LinesOf
  <2>2. QED BY <2>1, FS_Subset, FS_CardinalityType
<1>3. ASSUME NEW e \in Events
      PROVE  /\ e.type # "CONTROL_TRANSFERRED" => Transferred(Append(l, e)) = Transferred(l)
             /\ e.type = "CONTROL_TRANSFERRED" =>
                  Cardinality(Transferred(Append(l, e))) = Cardinality(Transferred(l)) + 1
             /\ Clear(l) /\ e.type \notin TerminalTypes => Clear(Append(l, e))
             /\ TrueTo(l) /\ Told(e.type) => TrueTo(Append(l, e))
  <2> DEFINE m == Append(l, e)
  <2>1. /\ DOMAIN m = 1..(Len(l) + 1) /\ m[Len(l) + 1] = e
        /\ \A k \in 1..Len(l) : m[k] = l[k]
    BY AppendFacts
  <2> HIDE DEF m
  <2>2. \A k \in DOMAIN m : k \in DOMAIN l \/ k = Len(l) + 1
    BY <1>1, <2>1
  <2>3. ASSUME e.type # "CONTROL_TRANSFERRED" PROVE Transferred(m) = Transferred(l)
    BY <1>1, <2>1, <2>2, <2>3 DEF Transferred, LinesOf
  <2>4. ASSUME e.type = "CONTROL_TRANSFERRED"
        PROVE  Cardinality(Transferred(m)) = Cardinality(Transferred(l)) + 1
    <3>1. Transferred(m) = Transferred(l) \cup {Len(l) + 1} /\ Len(l) + 1 \notin Transferred(l)
      BY <1>1, <2>1, <2>2, <2>4 DEF Transferred, LinesOf
    <3>2. QED BY <1>2, <3>1, FS_AddElement
  <2>5. ASSUME Clear(l), e.type \notin TerminalTypes PROVE Clear(m)
    BY <1>1, <2>1, <2>2, <2>5 DEF Clear
  <2>6. ASSUME TrueTo(l), Told(e.type) PROVE TrueTo(m)
    BY <1>1, <2>1, <2>2, <2>6 DEF TrueTo
  <2>7. QED BY <2>3, <2>4, <2>5, <2>6 DEF m
<1>4. QED BY <1>2, <1>3

LEMMA EmptyFacts ==
  /\ Transferred(<<>>) = {} /\ Cardinality({}) = 0 /\ Clear(<<>>)
  /\ \A e \in Events : /\ Transferred(<<e>>) # {} => e.type = "CONTROL_TRANSFERRED"
                       /\ Clear(<<e>>) <=> e.type \notin TerminalTypes
                       /\ Append(<<>>, e) = <<e>> /\ Len(<<e>>) = 1 /\ <<e>> # <<>>
<1>1. Transferred(<<>>) = {} /\ Clear(<<>>)
  BY DEF Transferred, LinesOf, Clear
<1>2. ASSUME NEW e \in Events
      PROVE  /\ Transferred(<<e>>) # {} => e.type = "CONTROL_TRANSFERRED"
             /\ Clear(<<e>>) <=> e.type \notin TerminalTypes
             /\ Append(<<>>, e) = <<e>> /\ Len(<<e>>) = 1 /\ <<e>> # <<>>
  <2>1. DOMAIN <<e>> = {1} /\ <<e>>[1] = e
    OBVIOUS
  <2>2. QED BY <2>1 DEF Transferred, LinesOf, Clear
<1>3. QED BY <1>1, <1>2, FS_EmptySet

(* What the recorder answers to a call for an event. *)
Answered(type) == \/ Written(type) \/ NotWritten(type)
                  \/ type = "ACTION_DISPATCHED" /\ DispatchWritten

LEMMA AnswerFacts ==
  ASSUME RecorderTypeOK, Sinking, NEW type \in EventTypes, Answered(type)
  PROVE  /\ rec'.active = rec.active /\ rec'.terminal = rec.terminal
         /\ rec.failed => rec'.failed
         /\ \/ log' = log /\ sink'.buffer = sink.buffer
            \/ /\ rec.active /\ ~rec.failed /\ sink.buffer = <<>> /\ sink'.buffer = <<>>
               /\ log' = Append(log, Stamp(rec, type))
            \/ /\ rec.active /\ ~rec.failed /\ sink.buffer = <<>>
               /\ sink'.buffer = <<Stamp(rec, type)>> /\ rec'.failed
               /\ log' = log
         /\ Written(type) => /\ ~rec.failed /\ ~rec'.failed /\ sink'.buffer = <<>>
                             /\ log' = Append(log, Stamp(rec, type))
         /\ NotWritten(type) /\ ~Refuses => rec'.failed
<1>0. rec \in RecStates /\ sink \in SinkStates
  BY DEF RecorderTypeOK
<1>1. CASE Written(type) \/ (type = "ACTION_DISPATCHED" /\ DispatchWritten)
  <2>1. /\ rec.active /\ ~rec.failed /\ log' = Append(log, Stamp(rec, type)) /\ sink' = sink
        /\ rec'.active = rec.active /\ rec'.terminal = rec.terminal /\ rec'.failed = rec.failed
    BY <1>0, <1>1 DEF Written, DispatchWritten, Refuses, RecStates
  <2>2. sink.buffer = <<>> /\ sink'.buffer = <<>>
    BY <2>1 DEF Sinking
  <2>3. NotWritten(type) /\ ~Refuses => rec'.failed
    BY <1>0 DEF NotWritten, RecStates
  <2>4. QED BY <2>1, <2>2, <2>3
<1>2. CASE NotWritten(type)
  <2>1. CASE Refuses /\ UNCHANGED recorderVars
    <3>1. ~Written(type)
      BY <2>1 DEF Written
    <3>2. QED BY <2>1, <3>1 DEF recorderVars
  <2>2. CASE /\ ~Refuses
             /\ rec' = [rec EXCEPT !.seq = @ + 1, !.failed = TRUE]
             /\ WriteFails(log, Stamp(rec, type))
    <3>1. /\ rec.active /\ ~rec.failed /\ rec'.failed
          /\ rec'.active = rec.active /\ rec'.terminal = rec.terminal
      BY <1>0, <2>2 DEF Refuses, RecStates
    <3>2. sink.buffer = <<>>
      BY <3>1 DEF Sinking
    <3>3. ~Written(type)
      BY <1>0, <3>1 DEF Written, RecStates
    <3>4. \/ log' = log /\ sink'.buffer = <<>>
          \/ log' = log /\ sink'.buffer = <<Stamp(rec, type)>>
          \/ log' = Append(log, Stamp(rec, type)) /\ sink'.buffer = <<>>
      BY <2>2 DEF WriteFails, Opened
    <3>5. QED BY <3>1, <3>2, <3>3, <3>4
  <2>3. QED BY <1>2, <2>1, <2>2 DEF NotWritten
<1>3. QED BY <1>1, <1>2 DEF Answered

(* A call within the run, and an answer that is neither a transfer nor a   *)
(* terminal event.                                                         *)
Within == /\ pc \notin {"idle", "begin", "ending"} /\ pc' \notin {"idle", "begin"}
          /\ pc' \in Underway => pc \in Underway
          /\ UNCHANGED startedAs
          /\ result'.status = "RAISED" => pc' = "ending"

Plainly == /\ rec'.active = rec.active /\ rec'.terminal = rec.terminal
           /\ rec.failed => rec'.failed
           /\ OnFile' = OnFile
           /\ Transferred(sink.buffer) = {} => Transferred(sink'.buffer) = {}
           /\ Clear(log) => Clear(log')
           /\ Clear(sink.buffer) => Clear(sink'.buffer)
           /\ sink'.buffer # <<>> => rec'.active /\ rec'.failed /\ Len(sink'.buffer) = 1

LEMMA PlainDisk ==
  ASSUME OnDisk, Within, Plainly, UNCHANGED owner,
         pc' \in Early => pc \in Early /\ (handoff'.failed => rec'.failed)
  PROVE  OnDisk'
<1>1. Sinking'
  BY DEF OnDisk, Sinking, Within, Plainly
<1>2. Clear(log) /\ Clear(sink.buffer) /\ Clear(log') /\ Clear(sink'.buffer)
  BY DEF OnDisk, LastWord, Within, Plainly
<1>3. LastWord'
  BY <1>2 DEF LastWord, Within, Clear
<1>4. OwnerShown'
  <2>1. ASSUME Abreast PROVE Abreast'
    BY <2>1 DEF Abreast, Plainly, Transferred, LinesOf
  <2>2. ASSUME Ahead PROVE Ahead'
    BY <1>2, <2>2 DEF Ahead, Plainly, Clear
  <2>3. QED BY <2>1, <2>2 DEF OnDisk, OwnerShown, Within
<1>5. QED BY <1>1, <1>3, <1>4 DEF OnDisk

LEMMA QuietPlain ==
  ASSUME Sinking, UNCHANGED <<log, sink>>, rec'.active = rec.active,
         rec'.terminal = rec.terminal, rec.failed => rec'.failed
  PROVE  Plainly
<1>1. OnFile' = OnFile
  BY DEF OnFile, Count
<1>2. QED BY <1>1 DEF Sinking, Plainly

LEMMA EventPlain ==
  ASSUME RecorderTypeOK, Sinking,
         NEW type \in EventTypes \ (TerminalTypes \cup {"CONTROL_TRANSFERRED"}), Answered(type)
  PROVE  Plainly
<1> DEFINE e == Stamp(rec, type)
<1>0. /\ log \in Seq(Events) /\ e \in Events /\ e.type = type
  BY StampType DEF RecorderTypeOK, Stamp
<1>1. /\ rec'.active = rec.active /\ rec'.terminal = rec.terminal
      /\ rec.failed => rec'.failed
      /\ \/ log' = log /\ sink'.buffer = sink.buffer
         \/ sink'.buffer = <<>> /\ log' = Append(log, e)
         \/ rec.active /\ sink'.buffer = <<e>> /\ rec'.failed /\ log' = log
  BY AnswerFacts
<1> HIDE DEF e
<1>2. OnFile' = Cardinality(Transferred(log')) /\ OnFile = Cardinality(Transferred(log))
  BY DEF OnFile, Count, Transferred, LinesOf
<1>3. CASE log' = log /\ sink'.buffer = sink.buffer
  BY <1>1, <1>2, <1>3 DEF Plainly, Sinking
<1>4. CASE sink'.buffer = <<>> /\ log' = Append(log, e)
  <2>1. Transferred(log') = Transferred(log) /\ (Clear(log) => Clear(log'))
    BY <1>0, <1>4, LineFacts
  <2>2. QED BY <1>1, <1>2, <1>4, <2>1, EmptyFacts DEF Plainly
<1>5. CASE rec.active /\ sink'.buffer = <<e>> /\ rec'.failed /\ log' = log
  <2>1. Transferred(sink'.buffer) = {} /\ Clear(sink'.buffer) /\ Len(sink'.buffer) = 1
    BY <1>0, <1>5, EmptyFacts
  <2>2. QED BY <1>1, <1>2, <1>5, <2>1 DEF Plainly
<1>6. QED BY <1>1, <1>3, <1>4, <1>5

(* An edge of the cycle and its event. *)
NextOwner == \A n \in Nat : owner = OwnerAfter(n) => owner' = OwnerAfter(n + 1)

LEMMA TransferDisk ==
  ASSUME RecorderTypeOK, OnDisk, Within, pc \in Underway, NextOwner, rec.active,
         startedAs = "AUTOMATION" => Abreast,
         Answered("CONTROL_TRANSFERRED") \/ (rec.failed /\ UNCHANGED recorderVars),
         pc' \in Early => ~handoff'.failed /\ ~rec'.failed
  PROVE  OnDisk'
<1> DEFINE e == Stamp(rec, "CONTROL_TRANSFERRED")
<1>0. /\ log \in Seq(Events) /\ e \in Events /\ e.type = "CONTROL_TRANSFERRED"
      /\ "CONTROL_TRANSFERRED" \notin TerminalTypes /\ "CONTROL_TRANSFERRED" \in EventTypes
      /\ Sinking
  BY StampType DEF RecorderTypeOK, Stamp, EventTypes, TerminalTypes, OnDisk
<1>1. /\ rec'.active = rec.active /\ rec'.terminal = rec.terminal
      /\ rec.failed => rec'.failed
      /\ \/ log' = log /\ sink'.buffer = sink.buffer
         \/ sink'.buffer = <<>> /\ log' = Append(log, e)
         \/ sink'.buffer = <<e>> /\ rec'.failed /\ log' = log
      /\ rec'.failed \/ log' = Append(log, e)
  <2>1. CASE rec.failed /\ UNCHANGED recorderVars
    BY <2>1 DEF recorderVars
  <2>2. CASE Answered("CONTROL_TRANSFERRED")
    <3>1. NotWritten("CONTROL_TRANSFERRED") => rec'.failed \/ UNCHANGED recorderVars
      BY <1>0, <2>2, AnswerFacts DEF NotWritten
    <3>2. rec'.failed \/ log' = Append(log, e)
      <4>1. ~rec.terminal
        BY <1>0 DEF Sinking
      <4>2. Refuses => rec.failed
        BY <4>1 DEF Refuses
      <4>3. QED BY <1>0, <2>2, <4>2, AnswerFacts DEF Answered
    <3>3. QED BY <1>0, <2>2, <3>2, AnswerFacts
  <2>3. QED BY <2>1, <2>2
<1> HIDE DEF e
<1>2. Clear(log) /\ Clear(sink.buffer)
  BY DEF OnDisk, LastWord, Within
<1>3. Clear(log') /\ Clear(sink'.buffer)
  <2>1. Clear(Append(log, e)) /\ Clear(<<e>>) /\ Clear(<<>>)
    BY <1>0, <1>2, LineFacts, EmptyFacts
  <2>2. QED BY <1>1, <1>2, <2>1
<1>4. Sinking'
  <2>1. Len(<<e>>) = 1
    BY <1>0, EmptyFacts
  <2>2. QED BY <1>0, <1>1, <2>1 DEF Sinking, Within
<1>5. LastWord'
  BY <1>3 DEF LastWord, Within, Clear
<1>6. ASSUME startedAs = "AUTOMATION" PROVE Abreast' \/ Ahead'
  <2>0. OnFile' = Cardinality(Transferred(log')) /\ OnFile = Cardinality(Transferred(log))
    BY DEF OnFile, Count, Transferred, LinesOf
  <2>1. OnFile \in Nat /\ owner = OwnerAfter(OnFile) /\ Transferred(sink.buffer) = {}
    BY <1>0, <1>6, <2>0, LineFacts DEF Abreast
  <2>2. owner' = OwnerAfter(OnFile + 1)
    BY <2>1 DEF NextOwner
  <2>3. CASE log' = Append(log, e)
    <3>1. OnFile' = OnFile + 1
      BY <1>0, <2>0, <2>3, LineFacts
    <3>2. Append(log, e) # log
      BY <1>0, AppendFacts
    <3>3. sink'.buffer = <<>>
      BY <1>1, <2>3, <3>2
    <3>4. QED BY <2>2, <3>1, <3>3, EmptyFacts DEF Abreast, Transferred, LinesOf
  <2>4. CASE log' = log /\ rec'.failed
    <3>1. OnFile' = OnFile /\ pc' \notin Early
      BY <2>0, <2>4
    <3>2. QED BY <1>3, <2>2, <2>4, <3>1 DEF Ahead, Clear
  <2>5. QED BY <1>1, <2>3, <2>4
<1>7. QED BY <1>4, <1>5, <1>6 DEF OnDisk, OwnerShown, Within

(* The terminal event, and the release of the run. *)
LEMMA TerminalDisk ==
  ASSUME TypeOK, VerdictPlace, OnDisk, RecordTerminal
  PROVE  OnDisk'
<1>0. PICK type \in TerminalTypes :
        /\ type = IF result.status = "FAILURE" THEN "RUN_FAILED" ELSE "RUN_COMPLETED"
        /\ \/ TerminalWritten(type) /\ Goto("ending")
           \/ TerminalFails(type) /\ Unproven
  BY DEF RecordTerminal, TerminalTypes
<1> DEFINE e == Stamp(Unstamped, type)
<1>1. /\ pc \in {"terminal", "closing"} /\ pc' = "ending" /\ UNCHANGED <<handoff, startedAs, owner>>
      /\ pc' \notin Underway \cup Early
  BY <1>0, UnderwayFacts
     DEF RecordTerminal, Unproven, Goto, historyVars, Early
<1>2. /\ log \in Seq(Events) /\ e \in Events /\ e.type = type /\ rec \in RecStates
      /\ Unstamped.active = rec.active /\ Unstamped.failed = rec.failed
      /\ Unstamped.terminal = rec.terminal /\ Unstamped \in RecStates
  <2>1. rec \in RecStates /\ 0 \in 0..N /\ log \in Seq(Events)
    BY PlanFacts DEF TypeOK, RecorderTypeOK
  <2>2. Unstamped \in RecStates
    BY <2>1, RecUpdates, Zenon DEF Unstamped, NoStep
  <2>3. e \in Events
    BY <2>2, StampType, EventFacts, Zenon
  <2>4. /\ e.type = type
        /\ Unstamped.active = rec.active /\ Unstamped.failed = rec.failed
        /\ Unstamped.terminal = rec.terminal
    BY <2>1 DEF Stamp, Unstamped, RecStates
  <2>5. QED BY <2>1, <2>2, <2>3, <2>4
<1>3. Clear(log) /\ Clear(sink.buffer) /\ result.status # "RAISED"
  BY <1>1 DEF OnDisk, LastWord
<1>4. /\ type \in {"RUN_COMPLETED", "RUN_FAILED"} /\ type # "CONTROL_TRANSFERRED"
      /\ result.status \in {"SUCCESS", "BUSINESS_OUTCOME", "FAILURE"}
  BY <1>1, <1>3 DEF TypeOK, EngineTypeOK, Results, Statuses, VerdictPlace, Concluded, TerminalTypes
<1>5. \/ UNCHANGED <<log, sink>> /\ rec'.active = rec.active /\ rec'.failed = rec.failed
      \/ /\ rec.active /\ ~rec.failed /\ rec'.active
         /\ \/ log' = Append(log, e) /\ sink'.buffer = <<>>
            \/ log' = log /\ sink'.buffer \in {<<>>, <<e>>} /\ rec'.failed
  <2>1. CASE TerminalWritten(type)
    BY <1>2, <2>1 DEF TerminalWritten, Refuses, Closed, RecStates
  <2>2. CASE rec.active /\ Refuses /\ rec' = Unstamped /\ UNCHANGED <<log, sink>>
    BY <1>2, <2>2
  <2>3. CASE /\ ~Refuses
             /\ rec' = [Unstamped EXCEPT !.seq = @ + 1, !.failed = TRUE]
             /\ WriteFails(log, e)
    <3>1. rec.active /\ ~rec.failed /\ rec'.active /\ rec'.failed
      BY <1>2, <2>3 DEF Refuses, RecStates
    <3>2. \/ log' = log /\ sink'.buffer \in {<<>>, <<e>>}
          \/ log' = Append(log, e) /\ sink'.buffer = <<>>
      BY <2>3 DEF WriteFails, Opened
    <3>3. QED BY <3>1, <3>2
  <2>4. CASE /\ ~Refuses
             /\ rec' = [Unstamped EXCEPT !.seq = @ + 1, !.failed = TRUE, !.terminal = TRUE]
             /\ log' = Append(log, e) /\ sink' = Closed
    BY <1>2, <2>4 DEF Refuses, Closed, RecStates
  <2>5. QED BY <1>0, <2>1, <2>2, <2>3, <2>4 DEF TerminalFails
<1>6. result' = result \/ (result'.code = "EVIDENCE_ERROR" /\ result'.status = "FAILURE")
  BY <1>0 DEF Unproven, Goto, reportVars
<1>7. Told(type)'
  BY <1>0, <1>4, <1>6 DEF Told
<1> HIDE DEF e
<1>8. Sinking'
  <2>1. Len(<<e>>) = 1
    BY <1>2, EmptyFacts
  <2>2. QED BY <1>1, <1>5, <2>1 DEF OnDisk, Sinking, Early
<1>9. LastWord'
  <2> DEFINE Quiet == (EventTypes \ TerminalTypes) \cup {type}
  <2>1. \A t \in Quiet : Told(t)'
    BY <1>7 DEF Told, TerminalTypes
  <2>2. sink.buffer \in Seq(Events)
    BY DEF TypeOK, RecorderTypeOK, SinkStates
  <2>3. \A k \in DOMAIN log : log[k].type \in Quiet
    BY <1>2, <1>3, LogFacts DEF Clear, Events
  <2>4. \A k \in DOMAIN sink.buffer : sink.buffer[k].type \in Quiet
    BY <1>3, <2>2, LogFacts DEF Clear, Events
  <2>5. \A k \in DOMAIN Append(log, e) : Append(log, e)[k].type \in Quiet
    <3>1. /\ DOMAIN Append(log, e) = 1..(Len(log) + 1) /\ Append(log, e)[Len(log) + 1] = e
          /\ \A k \in 1..Len(log) : Append(log, e)[k] = log[k]
          /\ DOMAIN log = 1..Len(log) /\ Len(log) \in Nat
      BY <1>2, AppendFacts, LogFacts
    <3> HIDE DEF Quiet
    <3>2. type \in Quiet
      BY DEF Quiet
    <3>3. QED BY <1>2, <2>3, <3>1, <3>2
  <2>6. /\ \A k \in DOMAIN <<e>> : <<e>>[k].type \in Quiet
        /\ \A k \in DOMAIN <<>> : <<>>[k].type \in Quiet
    <3>1. DOMAIN <<e>> = {1} /\ <<e>>[1] = e
      OBVIOUS
    <3>2. QED BY <1>2, <3>1
  <2> HIDE DEF Quiet
  <2>7. TrueTo(log)' /\ TrueTo(sink.buffer)'
    <3>1. log' = log \/ log' = Append(log, e)
      BY <1>5
    <3>2. sink'.buffer = sink.buffer \/ sink'.buffer = <<>> \/ sink'.buffer = <<e>>
      BY <1>5
    <3>3. \A k \in DOMAIN log' : log'[k].type \in Quiet
      BY <2>3, <2>5, <3>1
    <3>4. \A k \in DOMAIN sink'.buffer : sink'.buffer[k].type \in Quiet
      BY <2>4, <2>6, <3>2
    <3>5. QED BY <2>1, <3>3, <3>4 DEF TrueTo
  <2>8. result'.status # "RAISED"
    BY <1>3, <1>6
  <2>9. QED BY <1>1, <2>7, <2>8 DEF LastWord
<1>10. OwnerShown'
  <2>0. OnFile' = Cardinality(Transferred(log')) /\ OnFile = Cardinality(Transferred(log))
    BY DEF OnFile, Count, Transferred, LinesOf
  <2>1. CASE UNCHANGED <<log, sink>> /\ rec'.active = rec.active /\ rec'.failed = rec.failed
    <3>1. ASSUME Abreast PROVE Abreast'
      BY <1>1, <2>0, <2>1, <3>1 DEF Abreast, Transferred, LinesOf
    <3>2. ASSUME Ahead PROVE Ahead'
      BY <1>1, <2>0, <2>1, <3>2 DEF Ahead, Clear
    <3>3. QED BY <1>1, <3>1, <3>2 DEF OnDisk, OwnerShown
  <2>2. CASE /\ rec.active /\ ~rec.failed
             /\ \/ log' = Append(log, e) /\ sink'.buffer = <<>>
                \/ log' = log /\ sink'.buffer \in {<<>>, <<e>>}
    <3>1. startedAs = "AUTOMATION" => Abreast
      BY <1>1, <2>2 DEF OnDisk, OwnerShown, Ahead
    <3>2. Transferred(log') = Transferred(log)
      BY <1>2, <1>4, <2>2, LineFacts
    <3>3. Transferred(sink'.buffer) = {}
      BY <1>2, <1>4, <2>2, EmptyFacts
    <3>4. Transferred(sink.buffer)' = {}
      BY <3>3 DEF Transferred, LinesOf
    <3>5. QED BY <1>1, <2>0, <3>1, <3>2, <3>4 DEF OwnerShown, Abreast
  <2>3. QED BY <1>5, <2>1, <2>2
<1>11. QED BY <1>8, <1>9, <1>10 DEF OnDisk

LEMMA FinishDisk ==
  ASSUME TypeOK, OnDisk, Finish
  PROVE  OnDisk'
<1>0. /\ pc = "ending" /\ pc' = "idle" /\ UNCHANGED <<result, handoff, startedAs, owner>> /\ EndRun
      /\ pc' \notin Underway \cup Early /\ log \in Seq(Events) /\ sink.buffer \in Seq(Events)
  BY UnderwayFacts
     DEF Finish, Goto, reportVars, historyVars, Early, TypeOK, RecorderTypeOK, SinkStates
<1>1. PICK e \in Events : sink.buffer = <<>> \/ sink.buffer = <<e>>
  <2>1. sink.buffer = <<>> \/ Len(sink.buffer) = 1
    BY DEF OnDisk, Sinking
  <2>2. CASE sink.buffer = <<>>
    <3>1. Stamp(rec, "RUN_STARTED") \in Events
      BY StampType DEF TypeOK, RecorderTypeOK, EventTypes
    <3>2. QED BY <2>2, <3>1
  <2>3. CASE Len(sink.buffer) = 1
    <3>1. sink.buffer[1] \in Events /\ sink.buffer = <<sink.buffer[1]>>
      BY <1>0, <2>3
    <3>2. QED BY <3>1
  <2>4. QED BY <2>1, <2>2, <2>3
<1>2. /\ ~rec'.active /\ sink'.buffer = <<>>
      /\ \/ log' = log
         \/ sink.buffer = <<e>> /\ log' = Append(log, e)
  <2>1. CASE ~rec.active
    BY <1>0, <2>1 DEF EndRun, recorderVars, OnDisk, Sinking
  <2>2. CASE rec.active
    <3>1. /\ rec' = NoRun /\ sink' = Closed
          /\ log' = log \/ log' = log \o sink.buffer
      BY <1>0, <2>2 DEF EndRun
    <3>2. ~rec'.active /\ sink'.buffer = <<>>
      BY <3>1 DEF NoRun, Closed
    <3>3. log \o <<>> = log
      BY <1>0
    <3>4. log \o <<e>> = Append(log, e)
      BY <1>0
    <3>5. QED BY <1>1, <3>1, <3>2, <3>3, <3>4
  <2>3. QED BY <2>1, <2>2
<1>3. Sinking'
  BY <1>0, <1>2 DEF Sinking
<1>4. LastWord'
  <2>1. TrueTo(log) /\ TrueTo(sink.buffer) /\ (result.status = "RAISED" => TRUE)
    BY <1>0 DEF OnDisk, LastWord, Clear, TrueTo, Told, TerminalTypes
  <2>2. sink.buffer = <<e>> => Told(e.type)
    <3>1. DOMAIN <<e>> = {1} /\ <<e>>[1] = e
      OBVIOUS
    <3>2. QED BY <2>1, <3>1 DEF TrueTo
  <2>3. TrueTo(log') /\ TrueTo(sink'.buffer)
    <3>1. TrueTo(log')
      BY <1>0, <1>1, <1>2, <2>1, <2>2, LineFacts
    <3>2. TrueTo(sink'.buffer)
      BY <1>2 DEF TrueTo
    <3>3. QED BY <3>1, <3>2
  <2>4. TrueTo(log)' /\ TrueTo(sink.buffer)'
    BY <1>0, <2>3 DEF TrueTo, Told
  <2>5. QED BY <1>0, <2>4 DEF LastWord
<1>5. OwnerShown'
  <2>0. OnFile' = Cardinality(Transferred(log')) /\ OnFile = Cardinality(Transferred(log))
    BY DEF OnFile, Count, Transferred, LinesOf
  <2>1. Transferred(sink.buffer)' = {} /\ Clear(sink.buffer)'
    BY <1>2, EmptyFacts DEF Transferred, LinesOf, Clear
  <2>e. /\ Transferred(<<e>>) = {} => e.type # "CONTROL_TRANSFERRED"
        /\ Clear(<<e>>) => e.type \notin TerminalTypes
    <3>1. DOMAIN <<e>> = {1} /\ <<e>>[1] = e
      OBVIOUS
    <3>2. QED BY <3>1 DEF Transferred, LinesOf, Clear
  <2>2. ASSUME Abreast PROVE Abreast'
    <3>1. Transferred(log') = Transferred(log)
      BY <1>0, <1>2, <2>2, <2>e, LineFacts DEF Abreast
    <3>2. QED BY <1>0, <2>0, <2>1, <2>2, <3>1 DEF Abreast
  <2>3. ASSUME Ahead PROVE Abreast' \/ Ahead'
    <3>1. CASE log' = log
      BY <1>0, <1>2, <2>0, <2>1, <2>3, <3>1 DEF Ahead, Clear
    <3>2. CASE log' = Append(log, e) /\ sink.buffer = <<e>> /\ e.type = "CONTROL_TRANSFERRED"
      <4>1. OnFile' = OnFile + 1
        BY <1>0, <2>0, <3>2, LineFacts
      <4>2. QED BY <1>0, <2>1, <2>3, <4>1 DEF Ahead, Abreast
    <3>3. CASE log' = Append(log, e) /\ sink.buffer = <<e>> /\ e.type # "CONTROL_TRANSFERRED"
      <4>1. Transferred(log') = Transferred(log) /\ Clear(log')
        BY <1>0, <2>3, <2>e, <3>3, LineFacts DEF Ahead
      <4>2. Clear(log)'
        BY <4>1 DEF Clear
      <4>3. QED BY <1>0, <1>2, <2>0, <2>1, <2>3, <4>1, <4>2 DEF Ahead
    <3>4. QED BY <1>2, <3>1, <3>2, <3>3
  <2>4. QED BY <1>0, <2>2, <2>3 DEF OnDisk, OwnerShown
<1>6. QED BY <1>3, <1>4, <1>5 DEF OnDisk

(* Going on, and ending, from a call of the run. *)
LEMMA WithinRun ==
  ASSUME EngineTypeOK, VerdictPlace, pc \in Underway, UNCHANGED startedAs,
         \/ pc' \in Underway /\ UNCHANGED result
         \/ \E code \in Codes, d \in BOOLEAN :
              \/ Fail(code) \/ FailNoRetry(code) \/ FailMarked(code, d)
              \/ Stop("FAILURE", code, "no", ByHuman)
         \/ Outcome
         \/ pc' = "terminal" /\ result'.status = "SUCCESS"
  PROVE  Within /\ (pc' \in Underway \/ pc' = "terminal")
<1>1. pc \notin Concluded \cup {"idle", "begin"} /\ result.status = "NONE"
  BY DEF VerdictPlace, Underway
<1>2. CASE pc' \in Underway /\ UNCHANGED result
  <2>1. pc' \notin {"idle", "begin"}
    BY <1>2, UnderwayFacts
  <2>2. QED BY <1>1, <1>2, <2>1 DEF Within, Concluded
<1>3. CASE \/ \E code \in Codes, d \in BOOLEAN :
                \/ Fail(code) \/ FailNoRetry(code) \/ FailMarked(code, d)
                \/ Stop("FAILURE", code, "no", ByHuman)
           \/ Outcome
  <2>1. \E d, h : Halts(d, h)
    BY <1>3, FailHalts
  <2>2. pc' = "terminal" /\ result'.status # "RAISED"
    BY <2>1 DEF Halts
  <2>3. QED BY <1>1, <2>2, UnderwayFacts DEF Within, Concluded
<1>4. CASE pc' = "terminal" /\ result'.status = "SUCCESS"
  BY <1>1, <1>4, UnderwayFacts DEF Within, Concluded
<1>5. QED BY <1>2, <1>3, <1>4

LEMMA EarlyFacts ==
  /\ Early = {"bind", "step", "resolve", "gate", "output", "postcondition", "checkpoint",
              "locate", "dispatch", "operate", "completed", "failed", "pre", "preshot",
              "request", "escalate", "accept", "human", "handback", "return"}
  /\ "terminal" \notin Early /\ "ending" \notin Early /\ Early \subseteq Underway
BY UnderwayFacts, LabelFacts DEF Early, AfterHuman

(* A call that leaves the recorder's file alone. *)
LEMMA CalmDisk ==
  ASSUME OnDisk, Within, UNCHANGED <<owner, log, sink>>, rec'.active = rec.active,
         rec'.terminal = rec.terminal, rec.failed => rec'.failed,
         pc' \in Early => pc \in Early /\ (handoff'.failed => handoff.failed)
  PROVE  OnDisk'
<1>1. Sinking
  BY DEF OnDisk
<1>2. Plainly
  BY <1>1, QuietPlain
<1>3. pc' \in Early => pc \in Early /\ (handoff'.failed => rec'.failed)
  BY <1>1 DEF Sinking
<1>4. QED BY <1>2, <1>3, PlainDisk

LEMMA NotedDisk ==
  ASSUME RecorderTypeOK, OnDisk, Within, UNCHANGED owner,
         NEW type \in EventTypes \ (TerminalTypes \cup {"CONTROL_TRANSFERRED"}), Answered(type),
         pc' \in Early => pc \in Early /\ (handoff'.failed => handoff.failed \/ rec'.failed)
  PROVE  OnDisk'
<1>1. Sinking
  BY DEF OnDisk
<1>2. Plainly
  BY <1>1, EventPlain
<1>3. pc' \in Early => pc \in Early /\ (handoff'.failed => rec'.failed)
  BY <1>1, <1>2 DEF Sinking, Plainly
<1>4. QED BY <1>2, <1>3, PlainDisk

LEMMA BeginDisk ==
  ASSUME TypeOK, Control, Progress, OnDisk,
         StartRun \/ BeginEvidence \/ Bind \/ BeginStep \/ BeginCheckpoint
  PROVE  OnDisk'
<1>0. /\ EngineTypeOK /\ RecorderTypeOK /\ VerdictPlace /\ StepPlace /\ Sinking /\ LastWord
      /\ OwnerShown /\ {"bind", "step", "gate", "resolve", "checkpoint"} \subseteq Underway
      /\ Codes # {}
  BY UnderwayFacts, LabelFacts DEF TypeOK, Progress, OnDisk, Control, Codes
<1>1. CASE StartRun
  <2>1. /\ pc = "idle" /\ pc' = "begin" /\ startedAs' = owner /\ result'.status = "NONE"
        /\ UNCHANGED <<owner, rec, log, sink>> /\ ~handoff'.failed
    BY <1>1 DEF StartRun, recorderVars, NoResult, NoHandoff
  <2>2. Sinking'
    BY <1>0, <2>1, UnderwayFacts DEF Sinking
  <2>3. LastWord' /\ OwnerShown'
    BY <2>1 DEF LastWord, OwnerShown
  <2>4. QED BY <2>2, <2>3 DEF OnDisk
<1>2. CASE BeginEvidence
  <2>0. /\ pc = "begin" /\ UNCHANGED <<owner, startedAs, handoff>> /\ ~rec.active
        /\ startedAs = owner
    BY <1>0, <1>2 DEF BeginEvidence, historyVars, Sinking, OwnerShown
  <2> DEFINE e == Stamp(FreshRun, "RUN_STARTED")
  <2>1. /\ e \in Events /\ e.type = "RUN_STARTED"
        /\ "RUN_STARTED" \notin TerminalTypes \cup {"CONTROL_TRANSFERRED"}
    <3>1. FreshRun \in RecStates
      <4>1. 0 \in 0..N /\ 0 \in Nat
        BY PlanFacts
      <4>2. QED BY <4>1 DEF FreshRun, NoRun, NoStep, RecStates
    <3>2. e \in Events
      BY <3>1, StampType, EventFacts, Zenon
    <3>3. QED BY <3>2 DEF TerminalTypes, Stamp
  <2>2. /\ log' = <<>> \/ log' = <<e>>
        /\ sink'.buffer = <<>> \/ (sink'.buffer = <<e>> /\ rec'.active /\ rec'.failed)
        /\ \/ pc' = "bind" /\ UNCHANGED result /\ ~rec'.terminal
           \/ pc' = "terminal" /\ result'.status = "FAILURE"
    <3>0. rec \in RecStates
      BY <1>0 DEF RecorderTypeOK
    <3>1. CASE BeginWritten("RUN_STARTED") /\ Goto("bind")
      BY <3>0, <3>1, <2>0 DEF BeginWritten, FreshRun, NoRun, Opened, Goto, reportVars
    <3>2. CASE BeginFails("RUN_STARTED") /\ Fail("EVIDENCE_ERROR")
      <4>1. pc' = "terminal" /\ result'.status = "FAILURE"
        BY <1>0, <3>2, FailHalts, CodeFacts DEF Halts
      <4>2. CASE UNCHANGED rec /\ log' = <<>> /\ sink' = Closed
        BY <2>0, <4>1, <4>2 DEF Closed
      <4>3. CASE /\ rec' = [FreshRun EXCEPT !.seq = 1, !.failed = TRUE]
                 /\ WriteFails(<<>>, e)
        <5>1. rec'.active /\ rec'.failed
          BY <4>3 DEF FreshRun, NoRun
        <5>2. /\ log' = <<>> \/ log' = <<e>>
              /\ sink'.buffer = <<>> \/ sink'.buffer = <<e>>
          BY <2>1, <4>3, EmptyFacts DEF WriteFails, Opened
        <5>3. QED BY <4>1, <5>1, <5>2
      <4>4. QED BY <2>0, <3>2, <4>2, <4>3 DEF BeginFails
    <3>3. QED BY <1>2, <3>1, <3>2 DEF BeginEvidence
  <2> HIDE DEF e
  <2>3. Clear(log)' /\ Clear(sink.buffer)' /\ Transferred(log)' = {} /\ Transferred(sink.buffer)' = {}
    BY <2>1, <2>2, EmptyFacts DEF Clear, Transferred, LinesOf
  <2>4. Sinking'
    <3>1. sink'.buffer # <<>> => Len(sink'.buffer) = 1
      BY <2>1, <2>2, EmptyFacts
    <3>2. ~handoff'.failed
      BY <1>0, <2>0 DEF Sinking
    <3>3. "terminal" \notin Underway
      BY UnderwayFacts
    <3>4. QED BY <2>2, <3>1, <3>2, <3>3 DEF Sinking
  <2>5. LastWord'
    BY <1>0, <2>0, <2>2, <2>3 DEF LastWord
  <2>6. OwnerShown'
    BY <2>0, <2>2, <2>3, EmptyFacts, CycleFacts DEF OwnerShown, Abreast, OnFile, Count, Transferred
  <2>7. QED BY <2>4, <2>5, <2>6 DEF OnDisk
<1>3. CASE Bind \/ BeginStep \/ BeginCheckpoint
  <2>1. /\ pc \in {"bind", "step"}
        /\ UNCHANGED <<owner, startedAs, handoff, log, sink>>
        /\ UNCHANGED rec \/ \E x : rec' = [rec EXCEPT !.step = x]
        /\ \/ pc' \in {"step", "gate", "resolve", "checkpoint"} /\ UNCHANGED result
           \/ Fail("INVALID_INPUT")
    BY <1>3 DEF Bind, BeginStep, BeginCheckpoint, SetStep, Goto, reportVars, historyVars, recorderVars
  <2>2. rec'.active = rec.active /\ rec'.terminal = rec.terminal /\ (rec.failed => rec'.failed)
    BY <1>0, <2>1 DEF RecorderTypeOK, RecStates
  <2>3. Within
    BY <1>0, <2>1, WithinRun, CodeFacts
  <2>4. QED BY <2>1, <2>2, <2>3, CalmDisk, EarlyFacts
<1>4. QED BY <1>1, <1>2, <1>3

LEMMA ActDisk ==
  ASSUME TypeOK, Progress, OnDisk,
         \/ ResolveFails \/ Resolve \/ Decide \/ Locate \/ RecordDispatch \/ Operate
         \/ RecordCompleted \/ RecordFailed \/ RecordOutput
         \/ WaitFails \/ AwaitPostcondition \/ AwaitCheckpoint
  PROVE  OnDisk'
<1>0. /\ EngineTypeOK /\ RecorderTypeOK /\ VerdictPlace
  BY DEF TypeOK, Progress
<1> DEFINE Here == {"resolve", "gate", "locate", "dispatch", "operate", "completed", "failed",
                    "output", "postcondition", "checkpoint"}
           Next1 == Here \cup {"step", "pre"}
<1>1. Next1 \subseteq Early \cap Underway /\ Here \subseteq Underway
  BY EarlyFacts
<1>2. /\ pc \in Here /\ UNCHANGED <<owner, startedAs, handoff>>
      /\ \/ pc' \in Next1 /\ UNCHANGED result
         \/ \E code \in Codes, d \in BOOLEAN : Fail(code) \/ FailMarked(code, d)
         \/ Outcome
         \/ pc' = "terminal" /\ result'.status = "SUCCESS"
  <2>0. CountedSince \in BOOLEAN
    BY CountedType
  <2>1. CASE ResolveFails \/ WaitFails
    BY <2>1, CodeFacts DEF ResolveFails, WaitFails, ObserveFails, historyVars
  <2>2. CASE Resolve
    BY <2>2, CodeFacts DEF Resolve, Goto, reportVars, historyVars
  <2>3. CASE Decide
    BY <2>3, CodeFacts DEF Decide, Obey, Goto, reportVars, historyVars
  <2>4. CASE Locate \/ RecordDispatch
    BY <2>0, <2>4, CodeFacts DEF Locate, RecordDispatch, Goto, reportVars, historyVars
  <2>5. CASE Operate
    BY <2>5 DEF Operate, Goto, reportVars
  <2>6. CASE RecordCompleted
    BY <2>6, CodeFacts DEF RecordCompleted, historyVars
  <2>7. CASE RecordFailed
    BY <2>0, <2>7, CodeFacts DEF RecordFailed, historyVars
  <2>8. CASE RecordOutput
    BY <2>8, CodeFacts DEF RecordOutput, CompleteStep, historyVars
  <2>9. CASE AwaitPostcondition \/ AwaitCheckpoint
    BY <2>9, CodeFacts
       DEF AwaitPostcondition, AwaitCheckpoint, Await, PollAgain, CompleteStep, Succeed, Goto,
           reportVars, historyVars, NoResult
  <2>10. QED BY <2>1, <2>2, <2>3, <2>4, <2>5, <2>6, <2>7, <2>8, <2>9
<1>3. Within /\ (pc' \in Early => pc \in Early)
  <2> HIDE DEF Here, Next1
  <2>1. Here \subseteq Early
    BY EarlyFacts DEF Here
  <2>2. Within
    BY <1>0, <1>1, <1>2, WithinRun, CodeFacts
  <2>3. QED BY <1>2, <2>1, <2>2
<1>4. CASE UNCHANGED recorderVars
  BY <1>2, <1>3, <1>4, CalmDisk DEF recorderVars
<1>5. ASSUME NEW type \in {"GATE_DECISION", "ACTION_DISPATCHED", "ACTION_COMPLETED", "ACTION_FAILED"},
             Answered(type)
      PROVE  OnDisk'
  <2>1. type \in EventTypes \ (TerminalTypes \cup {"CONTROL_TRANSFERRED"})
    BY DEF EventTypes, TerminalTypes
  <2>2. QED BY <1>0, <1>2, <1>3, <1>5, <2>1, NotedDisk
<1>6. CASE Decide \/ RecordDispatch \/ RecordCompleted \/ RecordFailed
  <2>1. \E type \in {"GATE_DECISION", "ACTION_DISPATCHED", "ACTION_COMPLETED", "ACTION_FAILED"} :
          Answered(type)
    BY <1>6 DEF Decide, RecordDispatch, RecordCompleted, RecordFailed, Answered,
                DispatchNotWritten
  <2>2. QED BY <1>5, <2>1
<1>7. CASE \/ ResolveFails \/ Resolve \/ Locate \/ Operate \/ RecordOutput
           \/ WaitFails \/ AwaitPostcondition \/ AwaitCheckpoint
  <2>1. UNCHANGED recorderVars
    BY <1>7 DEF ResolveFails, Resolve, Locate, Operate, RecordOutput, WaitFails, ObserveFails,
                AwaitPostcondition, AwaitCheckpoint, Await
  <2>2. QED BY <1>4, <2>1
<1>8. QED BY <1>6, <1>7

LEMMA AskDisk ==
  ASSUME TypeOK, Control, Progress, Evidence, OnDisk,
         \/ ObservePre \/ ObservePreFails \/ CapturePre \/ RequestIntervention
         \/ EscalateControl \/ AcceptControl
  PROVE  OnDisk'
<1>0. /\ EngineTypeOK /\ RecorderTypeOK /\ VerdictPlace /\ Recording
      /\ {"pre", "preshot", "request", "escalate", "accept", "human"} \subseteq Early \cap Underway
      /\ {"pre", "preshot", "request", "escalate", "accept", "human"} \cap (AfterHuman \cup {"return"}) = {}
  BY EarlyFacts DEF TypeOK, Progress, Evidence, AfterHuman
<1>1. CASE ObservePre \/ ObservePreFails \/ CapturePre
  <2>1. /\ pc \in {"pre", "preshot"} /\ UNCHANGED <<owner, startedAs, log, sink>>
        /\ UNCHANGED rec \/ rec' = [rec EXCEPT !.failed = TRUE]
        /\ UNCHANGED handoff \/ ~handoff'.failed
        /\ \/ pc' \in {"preshot", "request"} /\ UNCHANGED result
           \/ \E code \in Codes : Fail(code)
    BY <1>1, CodeFacts
       DEF ObservePre, ObservePreFails, ObserveFails, CapturePre, ArtifactStored, ArtifactRefused,
           NoHandoff, Goto, reportVars, historyVars, recorderVars
  <2>2. rec'.active = rec.active /\ rec'.terminal = rec.terminal /\ (rec.failed => rec'.failed)
    BY <1>0, <2>1 DEF RecorderTypeOK, RecStates
  <2>3. Within
    BY <1>0, <2>1, WithinRun
  <2>4. QED BY <1>0, <2>1, <2>2, <2>3, CalmDisk
<1>2. CASE RequestIntervention
  <2>1. /\ pc = "request" /\ UNCHANGED <<owner, startedAs, handoff>>
        /\ Answered("INTERVENTION_REQUESTED")
        /\ \/ pc' = "escalate" /\ UNCHANGED result
           \/ \E code \in Codes : Fail(code)
    BY <1>2, CodeFacts DEF RequestIntervention, EarlyEmit, Answered, Goto, reportVars, historyVars
  <2>2. Within
    BY <1>0, <2>1, WithinRun
  <2>3. "INTERVENTION_REQUESTED" \in EventTypes \ (TerminalTypes \cup {"CONTROL_TRANSFERRED"})
    BY DEF EventTypes, TerminalTypes
  <2>4. QED BY <1>0, <2>1, <2>2, <2>3, NotedDisk
<1>3. CASE EscalateControl \/ AcceptControl
  <2>1. /\ pc \in {"escalate", "accept"} /\ UNCHANGED <<startedAs, handoff>>
        /\ Answered("CONTROL_TRANSFERRED")
        /\ \/ owner = "AUTOMATION" /\ owner' = "PENDING_HUMAN"
           \/ owner = "PENDING_HUMAN" /\ owner' = "HUMAN"
        /\ \/ pc' \in {"accept", "human"} /\ UNCHANGED result /\ Written("CONTROL_TRANSFERRED")
           \/ Fail("EVIDENCE_ERROR")
    BY <1>3 DEF EscalateControl, AcceptControl, Escalate, Accept, Move, Edges, EarlyEmit, Answered,
                Goto, reportVars, historyVars
  <2>2. Within
    BY <1>0, <2>1, WithinRun, CodeFacts
  <2>3. rec.active /\ ~rec.failed /\ Sinking
    BY <1>0, <2>1 DEF Recording, OnDisk
  <2>4. NextOwner
    BY <2>1, CycleFacts DEF NextOwner
  <2>5. startedAs = "AUTOMATION" => Abreast
    BY <1>0, <2>1, EarlyFacts DEF OnDisk, OwnerShown, Ahead
  <2>6. ~handoff.failed
    BY <1>0, <2>1, <2>3 DEF Sinking
  <2>7. pc' \in Early => ~handoff'.failed /\ ~rec'.failed
    <3>1. Fail("EVIDENCE_ERROR") => pc' = "terminal"
      BY DEF Fail, Stop
    <3>2. "CONTROL_TRANSFERRED" \in EventTypes
      BY DEF EventTypes
    <3>3. QED BY <1>0, <2>1, <2>3, <2>6, <3>1, <3>2, AnswerFacts, EarlyFacts
  <2>8. pc \in Underway
    BY <1>0, <2>1
  <2>9. QED BY <1>0, <2>1, <2>2, <2>3, <2>4, <2>5, <2>7, <2>8, TransferDisk
<1>4. QED BY <1>1, <1>2, <1>3

LEMMA HumanDisk ==
  ASSUME TypeOK, Progress, OnDisk, Human
  PROVE  OnDisk'
<1>0. /\ EngineTypeOK /\ VerdictPlace /\ "ending" \notin Early \cup Underway
      /\ {"human", "handback"} \subseteq Early \cap Underway
  BY EarlyFacts, UnderwayFacts DEF TypeOK, Progress
<1>1. /\ pc = "human" /\ UNCHANGED <<owner, startedAs, rec, log, sink>>
      /\ \/ pc' \in {"human", "handback"} /\ UNCHANGED result /\ handoff'.failed = handoff.failed
         \/ pc' = "ending"
  BY <1>0 DEF Human, HumanActs, HandsBack, HandlerRaises, recorderVars, reportVars, historyVars, Goto,
              EngineTypeOK, Handoffs
<1>2. Within
  <2>1. CASE pc' = "ending"
    BY <1>0, <1>1, <2>1 DEF Within
  <2>2. CASE pc' \in {"human", "handback"} /\ UNCHANGED result
    BY <1>0, <1>1, <2>2, WithinRun
  <2>3. QED BY <1>1, <2>1, <2>2
<1>3. QED BY <1>0, <1>1, <1>2, CalmDisk

(* _emit_after_human, seen from the file. *)
LEMMA LateDisk ==
  ASSUME RecorderTypeOK, Sinking, NEW type \in EventTypes, handoff \in Handoffs, LateEmit(type)
  PROVE  /\ \/ handoff.failed /\ UNCHANGED <<handoff, recorderVars>>
            \/ ~handoff.failed /\ Answered(type)
         /\ rec.active /\ ~rec.terminal /\ handoff'.failed => handoff.failed \/ rec'.failed
         /\ ~handoff'.failed => ~rec'.failed /\ Written(type)
<1>1. CASE handoff.failed /\ UNCHANGED <<handoff, recorderVars>>
  BY <1>1
<1>2. CASE ~handoff.failed /\ Written(type) /\ UNCHANGED handoff
  BY <1>2, AnswerFacts DEF Answered
<1>3. CASE ~handoff.failed /\ NotWritten(type) /\ handoff' = [handoff EXCEPT !.failed = TRUE]
  <2>1. handoff'.failed
    BY <1>3 DEF Handoffs
  <2>2. Answered(type)
    BY <1>3 DEF Answered
  <2>3. NotWritten(type) /\ ~Refuses => rec'.failed
    BY <2>2, AnswerFacts
  <2>4. NotWritten(type) /\ Refuses /\ rec.active /\ ~rec.terminal => rec'.failed
    BY <2>2, AnswerFacts DEF Refuses
  <2>5. QED BY <1>3, <2>1, <2>2, <2>3, <2>4
<1>4. QED BY <1>1, <1>2, <1>3 DEF LateEmit

LEMMA ReturnDisk ==
  ASSUME TypeOK, Control, Progress, Evidence, OnDisk,
         \/ RecordHandBack \/ ReturnControl \/ Verify \/ VerifyBlind \/ CapturePost
         \/ RecordVerified \/ Settle \/ RestoreControl
  PROVE  OnDisk'
<1>0. /\ EngineTypeOK /\ RecorderTypeOK /\ VerdictPlace /\ Recording /\ Sinking /\ handoff \in Handoffs
      /\ {"handback", "return"} \subseteq Early \cap Underway
      /\ AfterHuman \subseteq Underway /\ AfterHuman \cap Early = {} /\ "step" \in Underway
      /\ AfterHuman = {"verify", "postshot", "verified", "settle", "restore"}
  BY EarlyFacts, UnderwayFacts, LabelFacts
     DEF TypeOK, EngineTypeOK, Progress, Evidence, OnDisk, AfterHuman
<1>e. {"HAND_BACK", "INTERVENTION_VERIFIED"} \subseteq
        EventTypes \ (TerminalTypes \cup {"CONTROL_TRANSFERRED"})
      /\ "CONTROL_TRANSFERRED" \in EventTypes
  BY DEF EventTypes, TerminalTypes
<1>1. CASE RecordHandBack
  <2>1. /\ pc = "handback" /\ pc' = "return" /\ UNCHANGED <<owner, startedAs, result>>
        /\ LateEmit("HAND_BACK")
    BY <1>1 DEF RecordHandBack, Goto, reportVars, historyVars
  <2>2. Within
    BY <1>0, <2>1, WithinRun
  <2>3. rec.active /\ ~rec.terminal
    BY <1>0, <2>1 DEF Recording, Sinking
  <2>4. \/ UNCHANGED <<handoff, recorderVars>>
        \/ Answered("HAND_BACK") /\ (handoff'.failed => handoff.failed \/ rec'.failed)
    BY <1>0, <1>e, <2>1, <2>3, LateDisk
  <2>5. CASE UNCHANGED <<handoff, recorderVars>>
    BY <1>0, <2>1, <2>2, <2>5, CalmDisk DEF recorderVars
  <2>6. CASE Answered("HAND_BACK") /\ (handoff'.failed => handoff.failed \/ rec'.failed)
    BY <1>0, <1>e, <2>1, <2>2, <2>6, NotedDisk
  <2>7. QED BY <2>4, <2>5, <2>6
<1>2. CASE ReturnControl
  <2>1. /\ pc = "return" /\ pc' = "verify" /\ UNCHANGED <<startedAs, result>>
        /\ owner = "HUMAN" /\ owner' = "RETURNING" /\ LateEmit("CONTROL_TRANSFERRED")
    BY <1>2 DEF ReturnControl, HandBack, Move, Edges, Goto, reportVars, historyVars
  <2>2. Within
    BY <1>0, <2>1, WithinRun
  <2>3. NextOwner
    BY <2>1, CycleFacts DEF NextOwner
  <2>4. rec.active /\ (handoff.failed => rec.failed)
    BY <1>0, <2>1 DEF Recording, Sinking
  <2>5. Answered("CONTROL_TRANSFERRED") \/ (rec.failed /\ UNCHANGED recorderVars)
    BY <1>0, <1>e, <2>1, <2>4, LateDisk
  <2>6. startedAs = "AUTOMATION" => Abreast
    BY <1>0, <2>1 DEF OnDisk, OwnerShown, Ahead
  <2>7. pc \in Underway /\ pc' \notin Early
    BY <1>0, <2>1
  <2>8. QED BY <1>0, <2>2, <2>3, <2>4, <2>5, <2>6, <2>7, TransferDisk
<1>3. CASE Verify \/ VerifyBlind \/ CapturePost \/ Settle
  <2>1. /\ pc \in AfterHuman /\ UNCHANGED <<owner, startedAs, log, sink>>
        /\ UNCHANGED rec \/ rec' = [rec EXCEPT !.failed = TRUE]
        /\ \/ pc' \in AfterHuman /\ UNCHANGED result
           \/ \E code \in Codes : FailNoRetry(code) \/ Stop("FAILURE", code, "no", ByHuman)
           \/ Outcome
    <3>1. CASE Verify \/ VerifyBlind
      BY <1>0, <3>1
         DEF Verify, VerifyBlind, PollAgain, Goto, reportVars, historyVars, recorderVars
    <3>2. CASE CapturePost
      BY <1>0, <3>2
         DEF CapturePost, ArtifactStored, ArtifactRefused, Goto, reportVars, historyVars, recorderVars
    <3>3. CASE Settle
      BY <1>0, <3>3, CodeFacts DEF Settle, historyVars, recorderVars
    <3>4. QED BY <1>3, <3>1, <3>2, <3>3
  <2>2. rec'.active = rec.active /\ rec'.terminal = rec.terminal /\ (rec.failed => rec'.failed)
    BY <1>0, <2>1 DEF RecorderTypeOK, RecStates
  <2>3. Within /\ pc' \in AfterHuman \cup {"terminal"}
    <3>1. TRUE \in BOOLEAN /\ pc \in Underway
      BY <1>0, <2>1
    <3>2. Within
      BY <1>0, <2>1, <3>1, WithinRun
    <3>3. pc' \in AfterHuman \cup {"terminal"}
      BY <2>1 DEF FailNoRetry, Stop, Outcome
    <3>4. QED BY <3>2, <3>3
  <2>4. pc' \notin Early
    BY <1>0, <2>3, EarlyFacts
  <2>5. QED BY <2>1, <2>2, <2>3, <2>4, CalmDisk
<1>4. CASE RecordVerified
  <2>1. /\ pc = "verified" /\ pc' = "settle" /\ UNCHANGED <<owner, startedAs, result>>
        /\ LateEmit("INTERVENTION_VERIFIED")
    BY <1>4 DEF RecordVerified, Goto, reportVars, historyVars
  <2>2. Within /\ pc' \notin Early
    BY <1>0, <2>1, WithinRun
  <2>3. UNCHANGED recorderVars \/ Answered("INTERVENTION_VERIFIED")
    BY <1>0, <1>e, <2>1, LateDisk
  <2>4. CASE UNCHANGED recorderVars
    BY <2>1, <2>2, <2>4, CalmDisk DEF recorderVars
  <2>5. CASE Answered("INTERVENTION_VERIFIED")
    BY <1>0, <1>e, <2>1, <2>2, <2>5, NotedDisk
  <2>6. QED BY <2>3, <2>4, <2>5
<1>5. CASE RestoreControl
  <2>1. /\ pc = "restore" /\ UNCHANGED startedAs
        /\ owner = "RETURNING" /\ owner' = "AUTOMATION" /\ LateEmit("CONTROL_TRANSFERRED")
        /\ \/ handoff'.failed /\ Fail("EVIDENCE_ERROR")
           \/ ~handoff'.failed /\ pc' = "step" /\ UNCHANGED result
    BY <1>5 DEF RestoreControl, Restore, Move, Edges, CompleteStep, historyVars
  <2>2. Within /\ pc \in Underway
    BY <1>0, <2>1, WithinRun, CodeFacts
  <2>3. rec.active /\ ~handoff.failed /\ ~rec.failed
    BY <1>0, <2>1, <2>2 DEF Recording
  <2>4. NextOwner
    BY <2>1, CycleFacts DEF NextOwner
  <2>5. Answered("CONTROL_TRANSFERRED") /\ (~handoff'.failed => ~rec'.failed)
    BY <1>0, <1>e, <2>1, <2>3, LateDisk
  <2>6. startedAs = "AUTOMATION" => Abreast
    BY <2>1, <2>3 DEF OnDisk, OwnerShown, Ahead
  <2>7. pc' \in Early => ~handoff'.failed /\ ~rec'.failed
    <3>1. Fail("EVIDENCE_ERROR") => pc' = "terminal"
      BY DEF Fail, Stop
    <3>2. QED BY <2>1, <2>5, <3>1, EarlyFacts
  <2>8. QED BY <1>0, <2>2, <2>3, <2>4, <2>5, <2>6, <2>7, TransferDisk
<1>6. QED BY <1>1, <1>2, <1>3, <1>4, <1>5

LEMMA EndingDisk ==
  ASSUME TypeOK, Progress, OnDisk, Ending
  PROVE  OnDisk'
<1>0. /\ RecorderTypeOK /\ VerdictPlace /\ LastWord
      /\ {"terminal", "closing", "ending"} \cap (Underway \cup Early) = {}
  BY EarlyFacts, UnderwayFacts DEF TypeOK, Progress, OnDisk
<1>1. CASE SkipTerminal
  <2>1. /\ pc = "terminal" /\ pc' = "ending" /\ UNCHANGED <<owner, startedAs, rec, log, sink, result>>
    BY <1>1 DEF SkipTerminal, Goto, reportVars, historyVars, recorderVars
  <2>2. Within
    BY <1>0, <2>1 DEF Within
  <2>3. QED BY <1>0, <2>1, <2>2, CalmDisk
<1>2. CASE ReportOutcome
  <2>1. /\ pc = "terminal" /\ pc' \in {"closing", "ending"} /\ UNCHANGED <<owner, startedAs>>
        /\ Answered("BUSINESS_OUTCOME") /\ result'.status \in {result.status, "FAILURE"}
    BY <1>2 DEF ReportOutcome, Unproven, Answered, Goto, reportVars, historyVars
  <2>2. Within
    BY <1>0, <2>1 DEF Within, LastWord
  <2>3. "BUSINESS_OUTCOME" \in EventTypes \ (TerminalTypes \cup {"CONTROL_TRANSFERRED"})
    BY DEF EventTypes, TerminalTypes
  <2>4. QED BY <1>0, <2>1, <2>2, <2>3, NotedDisk
<1>3. CASE RecordTerminal
  BY <1>0, <1>3, TerminalDisk
<1>4. CASE Finish
  BY <1>4, FinishDisk
<1>5. QED BY <1>1, <1>2, <1>3, <1>4 DEF Ending

LEMMA StillDisk ==
  ASSUME OnDisk, UNCHANGED <<pc, rec, log, sink, owner, startedAs, handoff, result>>
  PROVE  OnDisk'
<1>1. Sinking' /\ LastWord'
  BY DEF OnDisk, Sinking, LastWord, Clear, TrueTo, Told
<1>2. OwnerShown'
  BY DEF OnDisk, OwnerShown, Abreast, Ahead, OnFile, Count, Transferred, LinesOf, Clear
<1>3. QED BY <1>1, <1>2 DEF OnDisk

------------------------------------------------------------------------------
(* What the file says of the run, on top of what is in it. *)

DiskInv == EvidenceInv /\ OnDisk

LEMMA DiskInit == Init => DiskInv
<1> SUFFICES ASSUME Init PROVE DiskInv
  OBVIOUS
<1>1. /\ pc = "idle" /\ result.status = "NONE" /\ owner = "AUTOMATION" /\ startedAs = "AUTOMATION"
      /\ ~rec.active /\ log = <<>> /\ sink.buffer = <<>> /\ pc \notin Underway \cup Early
  BY UnderwayFacts DEF Init, NoResult, OwnerInit, NoRun, Closed, Early
<1>2. Sinking /\ LastWord
  BY <1>1, EmptyFacts DEF Sinking, LastWord
<1>3. OwnerShown
  <2>1. OnFile = 0
    BY <1>1, EmptyFacts DEF OnFile, Count, Transferred
  <2>2. QED BY <1>1, <2>1, EmptyFacts, CycleFacts DEF OwnerShown, Abreast
<1>4. QED BY <1>2, <1>3, EvidenceInit DEF DiskInv, OnDisk

LEMMA DiskStep == DiskInv /\ [Next]_vars => DiskInv'
<1> SUFFICES ASSUME DiskInv, [Next]_vars PROVE DiskInv'
  OBVIOUS
<1>0. TypeOK /\ Control /\ Progress /\ Evidence /\ OnDisk
  BY DEF DiskInv, EvidenceInv, ReportInv, Invariant, Standing
<1>1. EvidenceInv'
  BY EvidenceStep DEF DiskInv
<1>2. CASE StartRun \/ Automated
  BY <1>0, <1>1, <1>2, BeginDisk, ActDisk DEF Automated, DiskInv
<1>3. CASE Handover
  BY <1>0, <1>1, <1>3, AskDisk, ReturnDisk DEF Handover, DiskInv
<1>4. CASE Ending \/ Human
  BY <1>0, <1>1, <1>4, EndingDisk, HumanDisk DEF DiskInv
<1>5. CASE PageDrifts \/ UNCHANGED vars
  <2>1. UNCHANGED <<pc, rec, log, sink, owner, startedAs, handoff, result>>
    BY <1>5 DEF PageDrifts, vars, reportVars, historyVars, recorderVars
  <2>2. QED BY <1>0, <1>1, <2>1, StillDisk DEF DiskInv
<1>6. QED BY <1>2, <1>3, <1>4, <1>5 DEF Next, EngineStep

LEMMA DiskHolds == Spec => []DiskInv
BY DiskInit, DiskStep, PTL DEF Spec

(* The file shows who controls the browser: an owner is at most one edge    *)
(* ahead of it, only after evidence failed, and never in a file with its   *)
(* terminal event (_transfer, _emit_before_human and _emit_after_human).   *)
THEOREM ControlShown == Spec => []ControlOnRecord
<1>1. DiskInv => ControlOnRecord
  BY DEF DiskInv, OnDisk, OwnerShown, Abreast, Ahead, Clear, ControlOnRecord
<1>2. QED BY <1>1, DiskHolds, PTL

(* The result and the file agree: SUCCESS is proven on disk, step by step, *)
(* from RUN_STARTED to RUN_COMPLETED, and a terminal event in the file is  *)
(* what the caller was told, or the caller was told EVIDENCE_ERROR         *)
(* (_record_terminal before the result is returned).                       *)
THEOREM SuccessProven == Spec => []SuccessIsProven
<1>1. ASSUME DiskInv PROVE SuccessIsProven
  <2>0. EvidenceInv
    BY <1>1 DEF DiskInv
  <2>1. ASSUME Returned, result.status = "SUCCESS"
        PROVE  /\ log[1].type = "RUN_STARTED" /\ log[Len(log)].type = "RUN_COMPLETED"
               /\ \A i \in StepIds : Past(i) /\ Proven(i)
               /\ owner = "AUTOMATION"
    <3>1. pc = "idle" /\ step = Checkpoint /\ owner = "AUTOMATION"
      BY <2>0, <2>1
         DEF EvidenceInv, ReportInv, Standing, Progress, VerdictPlace, Conduct, OwnedOnce,
             PastHandover, Returned
    <3>2. \A i \in StepIds : Past(i)
      BY <3>1, PlanFacts DEF Past
    <3>3. QED BY <2>0, <2>1, <3>1, <3>2 DEF EvidenceInv, Evidence, Framed, Filed, Backed
  <2>2. outputs = {i \in StepIds : Past(i) /\ Plan[i].action = "READ"}
    BY <2>0 DEF EvidenceInv, ReportInv, Conduct, Outputs
  <2>3. ASSUME Returned PROVE \A k \in DOMAIN log : Told(log[k].type)
    BY <1>1, <2>3 DEF DiskInv, OnDisk, LastWord, Returned, Clear, TrueTo, Told, TerminalTypes
  <2>4. Returned /\ result.status = "SUCCESS" => WellFounded
    BY <2>1, <2>2 DEF WellFounded, Proven
  <2>5. QED BY <2>3, <2>4 DEF SuccessIsProven
<1>2. QED BY <1>1, DiskHolds, PTL
=============================================================================
