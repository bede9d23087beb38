--------------------------- MODULE DiscoveryProofs ---------------------------
(***************************************************************************)
(* Proofs about DiscoveryAgent: for every site, every policy, every model  *)
(* and every bound on steps, what a run's trace, its log and its result    *)
(* have to do with each other.                                             *)
(***************************************************************************)
EXTENDS DiscoveryProperties, FiniteSetTheorems, SequenceTheorems, TLAPS

Labels == {"begin", "step", "observe", "ask", "reply", "gate", "locate", "dispatch",
           "operate", "completed", "failed", "terminal", "end", "done"}
Deciding == {"observe", "ask", "reply"}
Acting   == {"gate", "locate", "dispatch", "operate", "completed", "failed"}
InDriver == {"operate", "completed", "failed"}
Over     == {"terminal", "end", "done"}

(* Every event the run has asked for so far is in its log.                 *)
Unbroken == pc # "begin" /\ result.code # "EVIDENCE_ERROR"

(* A sequence, of whatever elements. *)
IsSeq(s) == \E S : s \in Seq(S)

Runs == [active : BOOLEAN, step : Nat, seq : Nat, dispatches : Nat, failed : BOOLEAN,
         terminal : BOOLEAN]

DiscoveryTypes ==
  /\ pc \in Labels /\ page \in Pages /\ snap \in Snapshots
  /\ stepIndex \in Nat /\ calls \in Nat /\ retries \in Nat /\ unchanged \in Nat
  /\ IsSeq(steps) /\ observed \in Seq(Snapshots)
  /\ pc \notin Over => result = NoResult

(* The decision being carried out is one the validator let through. *)
Carried ==
  pc \in Acting =>
    /\ chosen \in Wires /\ chosen.action # Missing
    /\ Reads(chosen) <=> chosen.output # Missing
    /\ ~Navigates => chosen.ref \in DOMAIN Elements

(* A run whose evidence holds is being recorded, under its own step. *)
Recording ==
  /\ pc = "begin" => stepIndex = 0 /\ steps = <<>> /\ calls = 0 /\ rec = NoRun
  /\ Unbroken =>
    /\ IsSeq(log)
    /\ pc # "done" =>
         rec \in Runs /\ rec.active /\ ~rec.failed /\ sink.buffer = <<>>
    /\ pc \notin {"end", "done"} =>
         rec.step = stepIndex /\ ~rec.terminal /\ Count("DISCOVERY_ENDED") = 0

(* What is done with the deadline behind.                                  *)
Late ==
  /\ overtime \in {<<>>, <<"reply">>, <<"act">>, <<"reply", "act">>}
  /\ ~late \/ pc = "reply" => overtime = <<>>
  /\ pc \in {"ask", "gate", "locate", "dispatch"} => overtime \in {<<>>, <<"reply">>}
  /\ pc = "observe" => ~late

(* Each observation against the ones before it: the last n + 1 are alike,  *)
(* and the one before them, if any, is not.                                *)
AlikeSince(history, n) ==
  LET last == history[Len(history)]
  IN  /\ n < Len(history)
      /\ \A i \in (Len(history) - n)..Len(history) : SameView(history[i], last)
      /\ n + 1 < Len(history) => ~SameView(history[Len(history) - n - 1], last)

Latest == observed[Len(observed)]

Streak ==
  result.code # "EVIDENCE_ERROR" =>
    /\ observed = <<>> => unchanged = 0 /\ pc \in {"begin", "step", "observe"} \cup Over
    /\ observed # <<>> => AlikeSince(observed, unchanged)
    /\ pc \in {"begin", "step", "observe"} \cup Acting =>
         pending = IF observed = <<>> THEN <<>> ELSE <<Latest>>
    /\ pc \in {"ask", "reply"} \cup Acting => snap = Latest
    /\ pc \notin Over => unchanged < NoProgressLimit
    /\ result.code = "NO_PROGRESS" => unchanged >= NoProgressLimit /\ observed # <<>>

(* Calls, retries and steps.                                               *)
Spent ==
  /\ calls <= stepIndex + retries /\ retries <= stepIndex
  /\ pc \in {"observe", "ask"} => calls < stepIndex + retries
  /\ pc = "observe" => first = "NONE"
  /\ pc \in Deciding /\ first = "NONE" => retries < stepIndex

(* A call that was refused is the last thing in the log.                   *)
CalledAt(file, k, s) ==
  k \in DOMAIN file /\ file[k].type = "MODEL_CALL" /\ file[k].step = s

Called ==
  Unbroken =>
    /\ Count("MODEL_CALL") = calls - (IF pc = "reply" THEN 1 ELSE 0)
    /\ pc \in {"ask", "reply"} /\ first # "NONE" => CalledAt(log, Len(log), stepIndex)
    /\ result.codes # <<>> =>
         LET n == Len(log) - Count("DISCOVERY_ENDED")
         IN  n >= 2 /\ CalledAt(log, n, stepIndex) /\ CalledAt(log, n - 1, stepIndex)

(* What was traced, dispatched and completed.                              *)
Traced == {steps[i].index : i \in DOMAIN steps}

Trace ==
  /\ \A i \in DOMAIN steps : steps[i].index \in Nat /\ steps[i].index <= stepIndex
  /\ pc \in Deciding \cup Acting => \A i \in DOMAIN steps : steps[i].index < stepIndex
  /\ \A i, j \in DOMAIN steps : i < j => steps[i].index < steps[j].index
  /\ Unbroken =>
       /\ OncePerStep("ACTION_DISPATCHED") /\ OncePerStep("ACTION_COMPLETED")
       /\ StepsOf("ACTION_COMPLETED") = Traced
       /\ pc \notin InDriver \cup Over => StepsOf("ACTION_DISPATCHED") = Traced
       /\ pc \in InDriver => StepsOf("ACTION_DISPATCHED") = Traced \cup {stepIndex}
       /\ pc \in Over =>
            \/ StepsOf("ACTION_DISPATCHED") = Traced
            \/ /\ StepsOf("ACTION_DISPATCHED") = Traced \cup {stepIndex}
               /\ stepIndex \notin Traced /\ result.code = "SURFACE_ERROR"
       /\ pc \notin Over =>
            rec.dispatches = Len(steps) + (IF pc \in InDriver THEN 1 ELSE 0)

(* What the trace keeps of a step is what was decided on, and shown.       *)
FromShown(s) ==
  /\ s.action = "READ" <=> s.output # Missing
  /\ s.evidenced => Evidenced(Site[s.on.url].route, Site[s.on.body].headings)
  /\ s.action = "READ" =>
       \E k \in DOMAIN Shown[s.on.body] :
         /\ s.target = SemanticTarget(Shown[s.on.body][k])
         /\ s.matches = IdentityMatches(Shown[s.on.body], s.target)

LastIs(type) == log # <<>> /\ log[Len(log)].type = type

Verified ==
  /\ \A i \in DOMAIN steps : FromShown(steps[i]) /\ steps[i].on \in Snapshots
  /\ GoalIsVerified
  /\ result.reason = "GOAL_REACHED" => result.code = "GOAL_VERIFIED"
  /\ result.reason = "GOAL_REACHED" /\ pc \in {"end", "done"} => LastIs("DISCOVERY_ENDED")

DiscoveryInv ==
  /\ DiscoveryTypes /\ Carried /\ Recording /\ Late /\ Streak /\ Spent /\ Called /\ Trace
  /\ Verified

------------------------------------------------------------------------------
(* Sequences and files *)

LEMMA AppendAny ==
  ASSUME NEW s, IsSeq(s), NEW e
  PROVE  /\ IsSeq(Append(s, e)) /\ Append(s, e) # <<>>
         /\ Len(s) \in Nat /\ DOMAIN s = 1..Len(s)
         /\ Len(Append(s, e)) = Len(s) + 1 /\ DOMAIN Append(s, e) = 1..(Len(s) + 1)
         /\ Append(s, e)[Len(s) + 1] = e
         /\ \A k \in 1..Len(s) : Append(s, e)[k] = s[k]
<1>1. PICK S : s \in Seq(S)
  BY DEF IsSeq
<1>2. s \in Seq(S \cup {e}) /\ e \in S \cup {e}
  BY <1>1, SeqMonotonic
<1>3. Append(s, e) \in Seq(S \cup {e})
  BY <1>2, AppendProperties
<1>4. IsSeq(Append(s, e))
  BY <1>3 DEF IsSeq
<1> QED
  BY <1>2, <1>4, AppendProperties

LEMMA AnySeq ==
  ASSUME NEW s, IsSeq(s)
  PROVE  /\ Len(s) \in Nat /\ DOMAIN s = 1..Len(s)
         /\ s = <<>> <=> Len(s) = 0
<1>1. PICK S : s \in Seq(S)
  BY DEF IsSeq
<1> QED
  BY <1>1, EmptySeq

LEMMA EmptyIsSeq == IsSeq(<<>>) /\ Len(<<>>) = 0 /\ DOMAIN <<>> = {}
<1>1. <<>> \in Seq({})
  BY EmptySeq
<1> QED
  BY <1>1 DEF IsSeq

LEMMA SecondAppended ==
  ASSUME NEW a, NEW b
  PROVE  Append(<<a>>, b) = <<a, b>>
<1> DEFINE s == Append(<<a>>, b)
           t == <<a, b>>
<1>1. <<a>> \in Seq({a, b}) /\ Len(<<a>>) = 1
  OBVIOUS
<1>2. s \in Seq({a, b}) /\ Len(s) = 2 /\ s[1] = a /\ s[2] = b
  BY <1>1, AppendProperties
<1>3. t \in Seq({a, b}) /\ Len(t) = 2 /\ t[1] = a /\ t[2] = b
  OBVIOUS
<1> HIDE DEF s, t
<1>4. \A i \in 1..Len(s) : s[i] = t[i]
  BY <1>2, <1>3
<1> QED
  BY <1>2, <1>3, <1>4, SeqEqual DEF s, t

(* The least member of a set of positions. *)
LEMMA FirstIsMember ==
  ASSUME NEW n \in Nat, NEW S \in SUBSET (1..n), S # {}
  PROVE  FirstOf(S) \in S
<1>1. PICK least \in S : \A other \in S : ~(<<other, least>> \in OpToRel(<, Nat))
  <2>1. S \subseteq Nat
    OBVIOUS
  <2> QED
    BY <2>1, NatLessThanWellFounded, WFMin
<1>2. \A a, b \in Nat : a < b => <<a, b>> \in OpToRel(<, Nat)
  <2>1. OpToRel(<, Nat) = {pair \in Nat \X Nat : pair[1] < pair[2]}
    BY DEF OpToRel
  <2>2. \A a, b \in Nat : a < b => <<a, b>> \in {pair \in Nat \X Nat : pair[1] < pair[2]}
    OBVIOUS
  <2> QED
    BY <2>1, <2>2, Zenon
<1>3. \A other \in S : other \in Nat
  OBVIOUS
<1>4. \A other \in S : ~(other < least)
  BY <1>1, <1>2, <1>3, Zenon
<1>5. \A other \in S : least <= other
  BY <1>3, <1>4
<1> QED
  BY <1>5 DEF FirstOf

------------------------------------------------------------------------------
(* The validator's verdict *)

(* The verdict is the code of a check that fails, if one does.             *)
LEMMA VerdictSays ==
  ASSUME NEW n \in Nat, NEW checks, DOMAIN checks = 1..n
  PROVE  /\ Verdict(checks) = "VALID" \/ \E i \in 1..n : Verdict(checks) = checks[i][2]
         /\ (\A i \in 1..n : checks[i][2] # "VALID") /\ Verdict(checks) = "VALID" =>
              \A i \in 1..n : ~checks[i][1]
<1> DEFINE failing == {i \in DOMAIN checks : checks[i][1]}
<1>1. CASE failing = {}
  BY <1>1, Zenon DEF Verdict
<1>2. CASE failing # {}
  <2>1. failing \in SUBSET (1..n)
    OBVIOUS
  <2> HIDE DEF failing
  <2>2. FirstOf(failing) \in 1..n
    BY <1>2, <2>1, FirstIsMember
  <2>3. Verdict(checks) = checks[FirstOf(failing)][2]
    BY <1>2, Zenon DEF Verdict, failing
  <2> QED
    BY <2>2, <2>3
<1> QED
  BY <1>1, <1>2

LEMMA ValidFinish ==
  ASSUME NEW wire, NEW o, NEW elements, NEW trace, wire.kind = "FINISH",
         Validate(wire, o, elements, trace) = "VALID"
  PROVE  Satisfied(trace)
<1> DEFINE checks == << <<~Satisfied(trace), "PREMATURE_FINISH">> >>
<1>1. Verdict(checks) = "VALID"
  BY DEF Validate
<1>2. DOMAIN checks = 1..1 /\ checks[1][2] = "PREMATURE_FINISH" /\ 1 \in Nat
  OBVIOUS
<1>3. \A i \in 1..1 : checks[i][2] # "VALID"
  BY <1>2
<1>4. checks[1][1] = ~Satisfied(trace)
  BY Zenon
<1> HIDE DEF checks
<1>5. ~checks[1][1]
  <2>1. \A i \in 1..1 : ~checks[i][1]
    BY <1>1, <1>2, <1>3, VerdictSays
  <2> QED
    BY <2>1
<1> QED
  BY <1>4, <1>5

LEMMA ValidNavigate ==
  ASSUME NEW wire, Verdict(NavigateChecks(wire)) = "VALID"
  PROVE  wire.output = Missing
<1> DEFINE checks == NavigateChecks(wire)
<1>1. /\ DOMAIN checks = 1..4 /\ 4 \in Nat
      /\ \A i \in 1..4 : checks[i][2] # "VALID"
  BY DEF NavigateChecks
<1>2. checks[1][1] = (wire.ref # NoRef \/ wire.value # NoValue \/ wire.output # Missing)
  BY Zenon DEF NavigateChecks
<1> HIDE DEF checks
<1>3. ~checks[1][1]
  <2>1. \A i \in 1..4 : ~checks[i][1]
    BY <1>1, VerdictSays DEF checks
  <2> QED
    BY <2>1
<1> QED
  BY <1>2, <1>3

LEMMA ValidTargeted ==
  ASSUME NEW wire, NEW elements, NEW trace,
         Verdict(TargetedChecks(wire, elements, trace)) = "VALID"
  PROVE  /\ wire.ref \in DOMAIN elements
         /\ Reads(wire) <=> wire.output # Missing
<1> DEFINE checks == TargetedChecks(wire, elements, trace)
<1>1. /\ DOMAIN checks = 1..8 /\ 8 \in Nat
      /\ \A i \in 1..8 : checks[i][2] # "VALID"
  BY DEF TargetedChecks
<1>2. /\ checks[2][1] = (wire.ref \notin DOMAIN elements)
      /\ checks[4][1] = (Reads(wire) # (wire.output # Missing))
  BY Zenon DEF TargetedChecks
<1> HIDE DEF checks
<1>3. ~checks[2][1] /\ ~checks[4][1]
  <2>1. \A i \in 1..8 : ~checks[i][1]
    BY <1>1, VerdictSays DEF checks
  <2> QED
    BY <2>1
<1> QED
  BY <1>2, <1>3, Zenon

(* An action that is let through. *)
LEMMA ValidAct ==
  ASSUME NEW wire, NEW o, NEW elements, NEW trace, wire.kind = "ACT",
         Validate(wire, o, elements, trace) = "VALID"
  PROVE  /\ wire.action # Missing
         /\ Reads(wire) <=> wire.output # Missing
         /\ wire.action # "NAVIGATE" => wire.ref \in DOMAIN elements
<1>1. Usable(wire)
  BY DEF Validate
<1>2. wire.action # Missing
  BY <1>1 DEF Usable
<1>3. CASE wire.action = "NAVIGATE"
  <2>1. Verdict(NavigateChecks(wire)) = "VALID"
    BY <1>1, <1>3 DEF Validate
  <2> QED
    BY <1>2, <1>3, <2>1, ValidNavigate DEF Reads
<1>4. CASE wire.action # "NAVIGATE"
  <2>1. Verdict(TargetedChecks(wire, elements, trace)) = "VALID"
    BY <1>1, <1>4 DEF Validate
  <2> QED
    BY <1>2, <2>1, ValidTargeted
<1> QED
  BY <1>3, <1>4

(* The validator always says something. *)
LEMMA NeverNone ==
  ASSUME NEW wire, NEW o, NEW elements, NEW trace
  PROVE  Validate(wire, o, elements, trace) # "NONE"
<1>1. Verdict(NavigateChecks(wire)) # "NONE"
  <2>1. DOMAIN NavigateChecks(wire) = 1..4 /\ 4 \in Nat
    BY DEF NavigateChecks
  <2>2. \A i \in 1..4 : NavigateChecks(wire)[i][2] # "NONE"
    BY DEF NavigateChecks
  <2> QED
    BY <2>1, <2>2, VerdictSays
<1>2. Verdict(TargetedChecks(wire, elements, trace)) # "NONE"
  <2>1. DOMAIN TargetedChecks(wire, elements, trace) = 1..8 /\ 8 \in Nat
    BY DEF TargetedChecks
  <2>2. \A i \in 1..8 : TargetedChecks(wire, elements, trace)[i][2] # "NONE"
    BY DEF TargetedChecks
  <2> QED
    BY <2>1, <2>2, VerdictSays
<1>3. \A b : Verdict(<< <<b, "PREMATURE_FINISH">> >>) # "NONE"
             /\ Verdict(<< <<b, "UNKNOWN_REF">> >>) # "NONE"
  <2> SUFFICES ASSUME NEW b, NEW code \in {"PREMATURE_FINISH", "UNKNOWN_REF"}
               PROVE  Verdict(<< <<b, code>> >>) # "NONE"
    OBVIOUS
  <2>1. /\ DOMAIN << <<b, code>> >> = 1..1 /\ 1 \in Nat
        /\ \A i \in 1..1 : << <<b, code>> >>[i][2] # "NONE"
    OBVIOUS
  <2> QED
    BY <2>1, VerdictSays
<1> QED
  BY <1>1, <1>2, <1>3, Zenon DEF Validate

------------------------------------------------------------------------------
(* The run's own state *)

(* Where a step leads, and when it leaves the result alone. *)
LEMMA ControlTyped ==
  ASSUME DiscoveryTypes, [Next]_vars
  PROVE  pc' \in Labels /\ (pc' \notin Over => result' = NoResult /\ pc \notin Over)
<1> USE DEF DiscoveryTypes, Goto, Stop, StopWith, EvidenceError, SurfaceError, Raise, Labels, Over
<1>1. CASE BeginEvidence \/ StopAtHead \/ BeginStep
  BY <1>1 DEF BeginEvidence, StopAtHead, BeginStep
<1>2. CASE Observe \/ ObserveFails
  BY <1>2 DEF Observe, ObserveFails
<1>3. CASE Ask \/ ProviderFails
  BY <1>3 DEF Ask, ProviderFails, Recorded
<1>4. CASE Reply
  <2>1. PICK wire, code : Recorded(IF code = "VALID" THEN Accepted(wire) ELSE Refused(code))
    BY <1>4 DEF Reply
  <2>2. CASE Accepted(wire)
    BY <1>4, <2>2 DEF Reply, Accepted
  <2>3. CASE Refused(code)
    BY <1>4, <2>3 DEF Reply, Refused
  <2>4. CASE EvidenceError
    BY <1>4, <2>4 DEF Reply
  <2> QED
    BY <2>1, <2>2, <2>3, <2>4 DEF Recorded
<1>5. CASE Gate \/ Locate \/ Dispatch
  BY <1>5 DEF Gate, Locate, Dispatch
<1>6. CASE Operate \/ Completed \/ Failed
  BY <1>6 DEF Operate, Completed, Failed
<1>7. CASE Terminal \/ End
  BY <1>7 DEF Terminal, End
<1>8. CASE PageMoves \/ Deadline \/ UNCHANGED vars
  BY <1>8 DEF PageMoves, Deadline, vars
<1> QED
  BY <1>1, <1>2, <1>3, <1>4, <1>5, <1>6, <1>7, <1>8 DEF Next, Run

(* What only a few steps change. *)
LEMMA Steady ==
  ASSUME [Next]_vars
  PROVE  /\ UNCHANGED page \/ PageMoves \/ Observe \/ Operate
         /\ UNCHANGED <<snap, observed>> \/ Observe
         /\ UNCHANGED <<unchanged, pending>> \/ Observe \/ Reply
         /\ UNCHANGED unchanged \/ Observe
         /\ UNCHANGED <<stepIndex, first>> \/ BeginStep \/ Reply
         /\ UNCHANGED stepIndex \/ BeginStep
         /\ UNCHANGED calls \/ Ask
         /\ UNCHANGED retries \/ Reply
         /\ UNCHANGED chosen \/ Reply
         /\ UNCHANGED steps \/ Completed
         /\ UNCHANGED overtime \/ ProviderFails \/ Reply \/ Dispatch
         /\ UNCHANGED late \/ Deadline
<1> USE DEF stepVars, countVars, historyVars, Recorded
<1>1. CASE BeginEvidence \/ StopAtHead \/ BeginStep \/ ObserveFails \/ Gate \/ Locate
  BY <1>1 DEF BeginEvidence, StopAtHead, BeginStep, ObserveFails, Gate, Locate
<1>2. CASE Observe
  BY <1>2 DEF Observe
<1>3. CASE Ask \/ ProviderFails
  BY <1>3 DEF Ask, ProviderFails
<1>4. CASE Reply
  BY <1>4 DEF Reply
<1>5. CASE Dispatch \/ Operate
  BY <1>5 DEF Dispatch, Operate
<1>6. CASE Completed \/ Failed \/ Terminal \/ End
  BY <1>6 DEF Completed, Failed, Terminal, End
<1>7. CASE PageMoves \/ Deadline \/ UNCHANGED vars
  BY <1>7 DEF PageMoves, Deadline, vars
<1> QED
  BY <1>1, <1>2, <1>3, <1>4, <1>5, <1>6, <1>7 DEF Next, Run

LEMMA PageTyped ==
  ASSUME DiscoveryTypes, Carried, [Next]_vars
  PROVE  /\ page' \in Pages /\ snap' \in Snapshots /\ observed' \in Seq(Snapshots)
         /\ unchanged' \in Nat
<1>1. \A p \in Pages : Moves[p] \subseteq Pages
  BY WorldAssumption
<1>2. CASE Observe
  <2>1. PICK url \in {page} \cup Moves[page] :
          LET s == [body |-> page, url |-> url]
          IN  /\ page' = url /\ snap' = s /\ observed' = Append(observed, s)
              /\ unchanged' \in {Progress(s), unchanged}
    BY <1>2 DEF Observe
  <2>2. url \in Pages /\ [body |-> page, url |-> url] \in Snapshots
    BY <1>1 DEF DiscoveryTypes, Snapshots
  <2>3. Append(observed, [body |-> page, url |-> url]) \in Seq(Snapshots)
    BY <2>2, AppendProperties DEF DiscoveryTypes
  <2>4. Progress([body |-> page, url |-> url]) \in Nat
    BY DEF Progress, DiscoveryTypes
  <2> QED
    BY <2>1, <2>2, <2>3, <2>4 DEF DiscoveryTypes
<1>3. CASE PageMoves
  BY <1>1, <1>3 DEF PageMoves, DiscoveryTypes, stepVars, historyVars
<1>4. CASE Operate
  <2>1. chosen.action \in ActionTypes
    BY <1>4 DEF Operate, Carried, Acting, Wires, ProposableTypes, ActionTypes
  <2>2. page' \in {page} \cup Leads[chosen.action][page]
    BY <1>4 DEF Operate
  <2>3. Leads[chosen.action][page] \subseteq Pages
    BY <2>1, WorldAssumption DEF DiscoveryTypes
  <2> QED
    BY <1>4, <2>2, <2>3 DEF Operate, DiscoveryTypes, stepVars, historyVars
<1>5. CASE UNCHANGED <<page, snap, observed, unchanged>>
  BY <1>5 DEF DiscoveryTypes
<1> QED
  BY <1>2, <1>3, <1>4, <1>5, Steady

LEMMA TypesStep ==
  ASSUME DiscoveryTypes, Carried, [Next]_vars
  PROVE  DiscoveryTypes'
<1>1. stepIndex' \in Nat
  BY Steady DEF DiscoveryTypes, BeginStep
<1>2. calls' \in Nat
  BY Steady DEF DiscoveryTypes, Ask
<1>3. retries' \in Nat
  <2>1. CASE Reply
    BY <2>1 DEF Reply, Recorded, Accepted, Refused, DiscoveryTypes
  <2> QED
    BY <2>1, Steady DEF DiscoveryTypes
<1>4. IsSeq(steps')
  <2>1. IsSeq(Append(steps, StepRaw))
    BY AppendAny DEF DiscoveryTypes
  <2>2. steps' \in {steps, Append(steps, StepRaw)}
    BY Steady DEF Completed
  <2> QED
    BY <2>1, <2>2 DEF DiscoveryTypes
<1> QED
  BY <1>1, <1>2, <1>3, <1>4, ControlTyped, PageTyped DEF DiscoveryTypes

(* The decision being carried out was valid when it was taken, and nothing *)
(* it was judged against moves before it is done.                          *)
LEMMA CarriedStep ==
  ASSUME DiscoveryTypes, Carried, [Next]_vars
  PROVE  Carried'
<1>1. CASE Reply
  <2>1. PICK answer \in Answers, o \in {stepIndex - 1, stepIndex} :
          LET wire == Echoing(answer, o)
              code == Validate(wire, stepIndex, Elements, steps)
          IN  Recorded(IF code = "VALID" THEN Accepted(wire) ELSE Refused(code))
    BY <1>1 DEF Reply
  <2> DEFINE wire == Echoing(answer, o)
  <2>2. wire \in Wires
    <3>1. answer \in Wires /\ o \in Int
      BY AnswersAssumption DEF DiscoveryTypes
    <3> QED
      BY <3>1 DEF Echoing, Wires
  <2> HIDE DEF wire
  <2> SUFFICES ASSUME pc' \in Acting
               PROVE  Carried'
    BY DEF Carried
  <2>3. SUFFICES /\ Validate(wire, stepIndex, Elements, steps) = "VALID"
                 /\ wire.kind = "ACT" /\ chosen' = wire
    <3>1. /\ wire.action # Missing
          /\ Reads(wire) <=> wire.output # Missing
          /\ wire.action # "NAVIGATE" => wire.ref \in DOMAIN Elements
      BY <2>3, ValidAct
    <3>2. Elements' = Elements
      BY <1>1 DEF Reply, Elements, Shown
    <3> QED
      BY <2>2, <2>3, <3>1, <3>2 DEF Carried, Navigates, Reads
  <2>4. pc' # "terminal" /\ pc' # "ask"
    BY DEF Acting
  <2>5. CASE EvidenceError
    BY <2>4, <2>5 DEF EvidenceError, Stop, StopWith
  <2>6. CASE /\ Validate(wire, stepIndex, Elements, steps) = "VALID" /\ Accepted(wire)
    BY <2>4, <2>6 DEF Accepted, Stop, StopWith
  <2>7. CASE \E code : Refused(code)
    BY <2>4, <2>7 DEF Refused, StopWith, Goto
  <2> QED
    BY <2>1, <2>5, <2>6, <2>7 DEF Recorded, wire
<1>2. CASE ~Reply
  <2>1. CASE pc' \notin Acting
    BY <2>1 DEF Carried
  <2>2. CASE pc' \in Acting /\ pc \in Acting
    <3>1. UNCHANGED <<chosen, snap>>
      <4>1. ~Observe
        BY <2>2 DEF Observe, Acting
      <4> QED
        BY <1>2, <4>1, Steady
    <3>2. chosen' = chosen /\ snap' = snap
      BY <3>1
    <3>3. Elements' = Elements
      BY <3>2 DEF Elements, Shown
    <3> QED
      BY <2>2, <3>2, <3>3 DEF Carried, Navigates, Reads
  <2>3. pc' \in Acting => pc \in Acting
    <3> USE DEF Acting, Goto, Stop, StopWith, EvidenceError, SurfaceError, Raise
    <3>1. CASE BeginEvidence \/ StopAtHead \/ BeginStep \/ Observe \/ ObserveFails
      BY <3>1 DEF BeginEvidence, StopAtHead, BeginStep, Observe, ObserveFails
    <3>2. CASE Ask \/ ProviderFails
      BY <3>2 DEF Ask, ProviderFails, Recorded
    <3>3. CASE Gate \/ Locate \/ Dispatch \/ Operate \/ Completed \/ Failed
      BY <3>3 DEF Gate, Locate, Dispatch, Operate, Completed, Failed
    <3>4. CASE Terminal \/ End
      BY <3>4 DEF Terminal, End
    <3>5. CASE PageMoves \/ Deadline \/ UNCHANGED vars
      BY <3>5 DEF PageMoves, Deadline, vars
    <3> QED
      BY <1>2, <3>1, <3>2, <3>3, <3>4, <3>5 DEF Next, Run
  <2> QED
    BY <2>1, <2>2, <2>3
<1> QED
  BY <1>1, <1>2

------------------------------------------------------------------------------
(* The record of a run *)

LEMMA RunUpdates ==
  ASSUME NEW r \in Runs, NEW s \in Nat
  PROVE  /\ [r EXCEPT !.seq = @ + 1] \in Runs
         /\ [r EXCEPT !.seq = @ + 1, !.dispatches = @ + 1] \in Runs
         /\ [r EXCEPT !.seq = 1] \in Runs
         /\ [r EXCEPT !.step = s] \in Runs
         /\ [[r EXCEPT !.step = NoStep] EXCEPT !.seq = @ + 1, !.terminal = TRUE] \in Runs
<1>0. r.seq + 1 \in Nat /\ r.dispatches + 1 \in Nat
  BY DEF Runs
<1>1. [r EXCEPT !.seq = @ + 1] \in Runs
  BY <1>0 DEF Runs
<1>2. [r EXCEPT !.seq = @ + 1, !.dispatches = @ + 1] \in Runs
  BY <1>0 DEF Runs
<1>3. [r EXCEPT !.seq = 1] \in Runs
  BY DEF Runs
<1>4. [r EXCEPT !.step = s] \in Runs
  BY DEF Runs
<1>5. [[r EXCEPT !.step = NoStep] EXCEPT !.seq = @ + 1, !.terminal = TRUE] \in Runs
  BY <1>0 DEF Runs, NoStep
<1> QED
  BY <1>1, <1>2, <1>3, <1>4, <1>5

(* The log has one more event, of this type and step. *)
Added(type, s) ==
  /\ IsSeq(log') /\ log' # <<>>
  /\ Len(log) \in Nat /\ DOMAIN log = 1..Len(log)
  /\ Len(log') = Len(log) + 1 /\ DOMAIN log' = 1..(Len(log) + 1)
  /\ log'[Len(log) + 1].type = type /\ log'[Len(log) + 1].step = s
  /\ \A k \in 1..Len(log) : log'[k] = log[k]

LEMMA StampAdded ==
  ASSUME IsSeq(log), NEW r, NEW type, log' = Append(log, Stamp(r, type))
  PROVE  Added(type, r.step)
<1>1. Stamp(r, type).type = type /\ Stamp(r, type).step = r.step
  BY DEF Stamp
<1> QED
  BY <1>1, AppendAny DEF Added

(* One more event, and what it does to the counts and the steps of a type. *)
LEMMA AddedCounted ==
  ASSUME NEW type, NEW s, Added(type, s), NEW other
  PROVE  /\ Count(other) \in Nat
         /\ Count(other)' = Count(other) + (IF other = type THEN 1 ELSE 0)
<1> DEFINE n == Len(log) + 1
           lines == LinesOf(log, other)
<1>1. lines \subseteq 1..Len(log) /\ IsFiniteSet(1..Len(log))
  BY FS_Interval DEF LinesOf, Added
<1>2. IsFiniteSet(lines) /\ Cardinality(lines) \in Nat
  BY <1>1, FS_Subset, FS_CardinalityType
<1>3. CASE other = type
  <2>1. LinesOf(log', other) = lines \cup {n} /\ n \notin lines
    BY <1>3 DEF LinesOf, Added
  <2> HIDE DEF lines
  <2>2. Cardinality(lines \cup {n}) = Cardinality(lines) + 1
    BY <1>2, <2>1, FS_AddElement
  <2> QED
    BY <1>2, <1>3, <2>1, <2>2 DEF Count, lines
<1>4. CASE other # type
  <2>1. LinesOf(log', other) = lines
    BY <1>4 DEF LinesOf, Added
  <2> QED
    BY <1>2, <1>4, <2>1 DEF Count
<1> QED
  BY <1>3, <1>4

LEMMA AddedStamped ==
  ASSUME NEW type, NEW s, Added(type, s), NEW other
  PROVE  /\ StepsOf(other)' = StepsOf(other) \cup (IF other = type THEN {s} ELSE {})
         /\ OncePerStep(other) /\ (other = type => \A t \in StepsOf(other) : t < s) =>
              OncePerStep(other)'
<1> DEFINE n == Len(log) + 1
<1>1. LinesOf(log', other) = LinesOf(log, other) \cup (IF other = type THEN {n} ELSE {})
  BY DEF LinesOf, Added
<1>2. /\ \A k \in LinesOf(log, other) : k \in 1..Len(log) /\ log'[k].step = log[k].step
      /\ log'[n].step = s /\ n \notin 1..Len(log)
  BY DEF LinesOf, Added
<1>3. StepsOf(other)' = StepsOf(other) \cup (IF other = type THEN {s} ELSE {})
  <2>1. CASE other = type
    BY <1>1, <1>2, <2>1 DEF StepsOf
  <2>2. CASE other # type
    BY <1>1, <1>2, <2>2 DEF StepsOf
  <2> QED
    BY <2>1, <2>2
<1>4. ASSUME OncePerStep(other), other = type => \A t \in StepsOf(other) : t < s
      PROVE  OncePerStep(other)'
  <2> SUFFICES ASSUME NEW j \in LinesOf(log', other), NEW k \in LinesOf(log', other), j < k
               PROVE  log'[j].step < log'[k].step
    BY DEF OncePerStep
  <2>1. CASE k \in LinesOf(log, other)
    <3>1. j \in LinesOf(log, other)
      BY <1>1, <1>2, <2>1 DEF Added
    <3> QED
      BY <1>2, <1>4, <2>1, <3>1 DEF OncePerStep
  <2>2. CASE k = n /\ other = type
    <3>1. j \in LinesOf(log, other)
      BY <1>1, <2>2 DEF Added
    <3>2. log[j].step < s
      BY <1>4, <2>2, <3>1 DEF StepsOf
    <3> QED
      BY <1>2, <2>2, <3>1, <3>2
  <2> QED
    BY <1>1, <2>1, <2>2
<1> QED
  BY <1>3, <1>4

(* The steps that write nothing. *)
Silent == \/ StopAtHead \/ BeginStep \/ ObserveFails \/ Ask \/ Locate \/ Operate \/ End
          \/ PageMoves \/ Deadline \/ UNCHANGED vars

Noted ==
  \/ Observe /\ Added("OBSERVATION", stepIndex)
  \/ (ProviderFails \/ Reply) /\ Added("MODEL_CALL", stepIndex)
  \/ Gate /\ Added("GATE_DECISION", stepIndex)
  \/ Dispatch /\ Added("ACTION_DISPATCHED", stepIndex)
  \/ Completed /\ Added("ACTION_COMPLETED", stepIndex)
  \/ Failed /\ Added("ACTION_FAILED", stepIndex)
  \/ Terminal /\ Added("DISCOVERY_ENDED", NoStep)

(* As long as the evidence holds, a step writes its event or writes none.  *)
LEMMA Ledger ==
  ASSUME DiscoveryTypes, Recording, [Next]_vars, Unbroken', pc # "begin"
  PROVE  /\ Unbroken
         /\ Noted \/ (Silent /\ log' = log)
         /\ Terminal => rec.active /\ ~rec.failed
<1>0. result'.code # "EVIDENCE_ERROR"
  BY DEF Unbroken
<1>1. Unbroken
  <2>1. CASE pc \in Over
    <3>1. pc = "done" \/ pc = "terminal" \/ pc = "end"
      BY <2>1 DEF Over
    <3>2. UNCHANGED result \/ (Terminal /\ result'.code = "EVIDENCE_ERROR")
      <4> USE DEF Goto
      <4>1. CASE BeginEvidence \/ StopAtHead \/ BeginStep \/ Observe \/ ObserveFails \/ Ask
        BY <3>1, <4>1 DEF BeginEvidence, StopAtHead, BeginStep, Observe, ObserveFails, Ask
      <4>2. CASE ProviderFails \/ Reply \/ Gate \/ Locate \/ Dispatch
        BY <3>1, <4>2 DEF ProviderFails, Reply, Gate, Locate, Dispatch
      <4>3. CASE Operate \/ Completed \/ Failed
        BY <3>1, <4>3 DEF Operate, Completed, Failed
      <4>4. CASE Terminal \/ End
        BY <4>4 DEF Terminal, End, NoResult
      <4>5. CASE PageMoves \/ Deadline \/ UNCHANGED vars
        BY <3>1, <4>5 DEF PageMoves, Deadline, vars
      <4> QED
        BY <4>1, <4>2, <4>3, <4>4, <4>5 DEF Next, Run
    <3> QED
      BY <1>0, <3>2 DEF Unbroken
  <2>2. CASE pc \notin Over
    BY <2>2 DEF DiscoveryTypes, NoResult, Unbroken
  <2> QED
    BY <2>1, <2>2
<1>2. IsSeq(log)
  BY <1>1 DEF Recording
<1>3. Terminal => rec.active /\ ~rec.failed
  BY <1>1 DEF Recording, Terminal
<1>4. ~EvidenceError
  BY <1>0 DEF EvidenceError, Stop, StopWith
<1>5. \A type : Written(type) => Added(type, rec.step)
  BY <1>2, StampAdded DEF Written
<1>6. rec.step = stepIndex \/ pc \in {"end", "done"}
  BY <1>1 DEF Recording
<1>7. Noted \/ (Silent /\ log' = log)
  <2>1. CASE Observe
    <3>1. pc = "observe" /\ Written("OBSERVATION")
      BY <1>4, <2>1 DEF Observe
    <3>2. Added("OBSERVATION", rec.step)
      BY <1>5, <3>1
    <3> QED
      BY <1>6, <2>1, <3>1, <3>2 DEF Noted
  <2>2. CASE ProviderFails \/ Reply
    <3>1. pc = "reply" /\ Written("MODEL_CALL")
      BY <1>4, <2>2 DEF ProviderFails, Reply, Recorded
    <3>2. Added("MODEL_CALL", rec.step)
      BY <1>5, <3>1
    <3> QED
      BY <1>6, <2>2, <3>1, <3>2 DEF Noted
  <2>3. CASE Gate
    <3>1. pc = "gate" /\ Written("GATE_DECISION")
      BY <1>4, <2>3 DEF Gate
    <3>2. Added("GATE_DECISION", rec.step)
      BY <1>5, <3>1
    <3> QED
      BY <1>6, <2>3, <3>1, <3>2 DEF Noted
  <2>4. CASE Dispatch
    <3>1. pc = "dispatch" /\ DispatchWritten
      BY <1>4, <2>4 DEF Dispatch
    <3>2. Added("ACTION_DISPATCHED", rec.step)
      BY <1>2, <3>1, StampAdded DEF DispatchWritten
    <3> QED
      BY <1>6, <2>4, <3>1, <3>2 DEF Noted
  <2>5. CASE Completed
    <3>1. pc = "completed" /\ Written("ACTION_COMPLETED")
      BY <1>4, <2>5 DEF Completed
    <3>2. Added("ACTION_COMPLETED", rec.step)
      BY <1>5, <3>1
    <3> QED
      BY <1>6, <2>5, <3>1, <3>2 DEF Noted
  <2>6. CASE Failed
    <3>1. pc = "failed" /\ Written("ACTION_FAILED")
      BY <1>4, <2>6 DEF Failed
    <3>2. Added("ACTION_FAILED", rec.step)
      BY <1>5, <3>1
    <3> QED
      BY <1>6, <2>6, <3>1, <3>2 DEF Noted
  <2>7. CASE Terminal
    <3>1. TerminalWritten("DISCOVERY_ENDED")
      BY <1>0, <1>3, <2>7 DEF Terminal, NoResult
    <3>2. Added("DISCOVERY_ENDED", Unstamped.step)
      BY <1>2, <3>1, StampAdded DEF TerminalWritten
    <3>3. Unstamped.step = NoStep
      BY <1>1, <2>7 DEF Recording, Terminal, Unstamped, Runs
    <3> QED
      BY <2>7, <3>2, <3>3 DEF Noted
  <2>8. CASE End
    <3>1. rec \in Runs /\ rec.active /\ sink.buffer = <<>> /\ log \o <<>> = log
      <4>1. log \o <<>> = log
        BY <1>2, ConcatEmptySeq DEF IsSeq
      <4> QED
        BY <1>1, <2>8, <4>1 DEF End, Recording
    <3> QED
      BY <2>8, <3>1 DEF End, EndRun, Silent
  <2>9. CASE StopAtHead \/ BeginStep \/ ObserveFails \/ Ask \/ Locate \/ Operate
    BY <2>9 DEF StopAtHead, BeginStep, ObserveFails, Ask, Locate, Operate, SetStep, recorderVars,
                Silent
  <2>10. CASE PageMoves \/ Deadline \/ UNCHANGED vars
    BY <2>10 DEF PageMoves, Deadline, vars, recorderVars, Silent
  <2>11. ~BeginEvidence
    BY DEF BeginEvidence
  <2> QED
    BY <2>1, <2>2, <2>3, <2>4, <2>5, <2>6, <2>7, <2>8, <2>9, <2>10, <2>11 DEF Next, Run
<1> QED
  BY <1>1, <1>3, <1>7

(* The first event. *)
LEMMA FirstEvent ==
  ASSUME DiscoveryTypes, Recording, [Next]_vars, Unbroken', pc = "begin"
  PROVE  /\ BeginEvidence /\ BeginWritten("DISCOVERY_STARTED") /\ pc' = "step" /\ result' = result
         /\ IsSeq(log')
         /\ \A other : other # "DISCOVERY_STARTED" =>
              Count(other)' = 0 /\ StepsOf(other)' = {} /\ OncePerStep(other)'
<1>1. /\ BeginEvidence /\ BeginWritten("DISCOVERY_STARTED") /\ Goto("step")
  <2>1. ~EvidenceError
    BY DEF Unbroken, EvidenceError, Stop, StopWith
  <2>2. BeginEvidence
    <3> USE DEF Unbroken
    <3>1. ~(StopAtHead \/ BeginStep \/ Observe \/ ObserveFails \/ Ask \/ ProviderFails \/ Reply)
      BY DEF StopAtHead, BeginStep, Observe, ObserveFails, Ask, ProviderFails, Reply
    <3>2. ~(Gate \/ Locate \/ Dispatch \/ Operate \/ Completed \/ Failed \/ Terminal \/ End)
      BY DEF Gate, Locate, Dispatch, Operate, Completed, Failed, Terminal, End
    <3>3. ~(PageMoves \/ Deadline \/ UNCHANGED vars)
      BY DEF PageMoves, Deadline, vars
    <3> QED
      BY <3>1, <3>2, <3>3 DEF Next, Run
  <2> QED
    BY <2>1, <2>2 DEF BeginEvidence
<1>2. log' = <<Stamp(FreshRun, "DISCOVERY_STARTED")>>
  BY <1>1 DEF BeginWritten
<1>4. IsSeq(log')
  <2>1. \A e : <<e>> \in Seq({e})
    OBVIOUS
  <2> QED
    BY <1>2, <2>1 DEF IsSeq
<1>5. DOMAIN log' = {1} /\ log'[1].type = "DISCOVERY_STARTED"
  BY <1>2 DEF Stamp
<1>6. \A other : other # "DISCOVERY_STARTED" => LinesOf(log', other) = {}
  BY <1>5 DEF LinesOf
<1>7. ASSUME NEW other, other # "DISCOVERY_STARTED"
      PROVE  Count(other)' = 0 /\ StepsOf(other)' = {} /\ OncePerStep(other)'
  <2>1. LinesOf(log', other) = {}
    BY <1>6, <1>7
  <2>2. Cardinality({}) = 0
    BY FS_EmptySet
  <2> QED
    BY <2>1, <2>2 DEF Count, StepsOf, OncePerStep
<1> QED
  BY <1>1, <1>4, <1>7 DEF Goto

LEMMA StaysAtBegin ==
  ASSUME [Next]_vars, pc' = "begin"
  PROVE  UNCHANGED vars
<1> USE DEF Goto, Stop, StopWith, EvidenceError, SurfaceError, Raise
<1>1. ~(BeginEvidence \/ StopAtHead \/ BeginStep \/ Observe \/ ObserveFails \/ Ask)
  BY DEF BeginEvidence, StopAtHead, BeginStep, Observe, ObserveFails, Ask
<1>2. ~(ProviderFails \/ Gate \/ Locate \/ Dispatch \/ Operate \/ Completed)
  BY DEF ProviderFails, Recorded, Gate, Locate, Dispatch, Operate, Completed
<1>3. ~Reply
  BY DEF Reply, Recorded, Accepted, Refused
<1>4. ~(Failed \/ Terminal \/ End \/ PageMoves \/ Deadline)
  BY DEF Failed, Terminal, End, PageMoves, Deadline
<1> QED
  BY <1>1, <1>2, <1>3, <1>4 DEF Next, Run

LEMMA RecordingStep ==
  ASSUME DiscoveryTypes, Recording, [Next]_vars
  PROVE  Recording'
<1> DEFINE Kept == /\ IsSeq(log)
                   /\ pc # "done" => rec \in Runs /\ rec.active /\ ~rec.failed /\ sink.buffer = <<>>
                   /\ pc \notin {"end", "done"} =>
                        rec.step = stepIndex /\ ~rec.terminal /\ Count("DISCOVERY_ENDED") = 0
<1>1. ASSUME pc' = "begin"
      PROVE  stepIndex' = 0 /\ steps' = <<>> /\ calls' = 0 /\ rec' = NoRun
  BY <1>1, StaysAtBegin DEF Recording, vars, stepVars, countVars, recorderVars
<1>2. ASSUME Unbroken', pc = "begin" PROVE Kept'
  <2>1. /\ rec' = [FreshRun EXCEPT !.seq = 1] /\ sink' = Opened /\ IsSeq(log')
        /\ pc' = "step" /\ stepIndex' = 0 /\ Count("DISCOVERY_ENDED")' = 0
    BY <1>2, FirstEvent DEF BeginWritten, BeginEvidence, Recording
  <2>2. FreshRun \in Runs /\ FreshRun.active /\ ~FreshRun.failed /\ ~FreshRun.terminal
        /\ FreshRun.step = 0
    BY DEF FreshRun, NoRun, NoStep, Runs
  <2>3. /\ rec' \in Runs /\ rec'.active /\ ~rec'.failed /\ ~rec'.terminal /\ rec'.step = 0
    BY <2>1, <2>2 DEF Runs
  <2> QED
    BY <2>1, <2>3 DEF Opened
<1>3. ASSUME Unbroken', pc # "begin" PROVE Kept'
  <2>1. Unbroken /\ Kept /\ (Noted \/ (Silent /\ log' = log))
    BY <1>3, Ledger DEF Recording
  <2>2. CASE Noted /\ ~Terminal
    <3>1. PICK type : /\ Added(type, stepIndex) /\ type # "DISCOVERY_ENDED"
                      /\ Written(type) \/ DispatchWritten
      <4>1. ~EvidenceError
        BY <1>3 DEF Unbroken, EvidenceError, Stop, StopWith
      <4> QED
        BY <2>2, <4>1 DEF Noted, Observe, ProviderFails, Reply, Recorded, Gate, Dispatch, Completed,
                          Failed
    <3>2. pc \notin {"end", "done"} /\ stepIndex' = stepIndex
      BY <2>2, Steady DEF Noted, Observe, ProviderFails, Reply, Gate, Dispatch, Completed, Failed,
                          BeginStep
    <3>3. /\ rec' = [rec EXCEPT !.seq = @ + 1] \/ rec' = [rec EXCEPT !.seq = @ + 1, !.dispatches = @ + 1]
          /\ UNCHANGED sink
      BY <3>1 DEF Written, DispatchWritten
    <3>4. /\ rec' \in Runs /\ rec'.active = rec.active /\ rec'.failed = rec.failed
          /\ rec'.terminal = rec.terminal /\ rec'.step = rec.step
      <4>1. rec \in Runs
        BY <2>1, <3>2
      <4>2. rec' \in Runs
        BY <3>3, <4>1, RunUpdates
      <4> QED
        BY <3>3, <4>1, <4>2 DEF Runs
    <3>5. Count("DISCOVERY_ENDED")' = 0
      BY <2>1, <3>1, <3>2, AddedCounted
    <3> QED
      BY <2>1, <3>1, <3>2, <3>3, <3>4, <3>5 DEF Added
  <2>3. CASE Terminal /\ Noted
    <3>1. TerminalWritten("DISCOVERY_ENDED") /\ pc' = "end" /\ pc = "terminal"
      <4>1. pc = "terminal" /\ rec.active /\ ~rec.failed
        BY <2>1, <2>3 DEF Terminal
      <4> QED
        BY <1>3, <2>3, <4>1 DEF Terminal, Unbroken, NoResult, Goto
    <3>2. rec' \in Runs /\ rec'.active = rec.active /\ rec'.failed = rec.failed
      <4>1. rec \in Runs
        BY <2>1, <3>1
      <4>2. rec' = [[rec EXCEPT !.step = NoStep] EXCEPT !.seq = @ + 1, !.terminal = TRUE]
        BY <3>1 DEF TerminalWritten, Unstamped
      <4>3. rec' \in Runs
        BY <4>1, <4>2, RunUpdates
      <4> QED
        BY <4>1, <4>2, <4>3 DEF Runs
    <3>3. IsSeq(log')
      <4>1. IsSeq(Append(log, Stamp(Unstamped, "DISCOVERY_ENDED")))
        BY <2>1, AppendAny
      <4> QED
        BY <3>1, <4>1 DEF TerminalWritten
    <3>4. sink'.buffer = <<>>
      BY <3>1 DEF TerminalWritten, Closed
    <3> QED
      BY <2>1, <3>1, <3>2, <3>3, <3>4
  <2>4. CASE Silent /\ log' = log
    <3>1. CASE BeginStep
      <4>1. rec \in Runs /\ stepIndex + 1 \in Nat /\ rec' = [rec EXCEPT !.step = stepIndex + 1]
        BY <2>1, <3>1 DEF BeginStep, SetStep, DiscoveryTypes
      <4>2. /\ rec' \in Runs /\ rec'.active = rec.active /\ rec'.failed = rec.failed
            /\ rec'.terminal = rec.terminal /\ rec'.step = stepIndex + 1
        BY <4>1 DEF Runs
      <4> QED
        BY <2>1, <2>4, <3>1, <4>2 DEF BeginStep, SetStep, Goto, Count
    <3>2. CASE End
      BY <2>1, <2>4, <3>2 DEF End
    <3>3. CASE UNCHANGED <<rec, sink, stepIndex>> /\ (pc \in {"end", "done"} => pc' = pc)
      BY <2>1, <2>4, <3>3 DEF Count
    <3>4. CASE StopAtHead \/ ObserveFails \/ Ask \/ Locate \/ Operate
      BY <3>3, <3>4 DEF StopAtHead, ObserveFails, Ask, Locate, Operate, recorderVars
    <3>5. CASE PageMoves \/ Deadline \/ UNCHANGED vars
      BY <3>3, <3>5 DEF PageMoves, Deadline, vars, recorderVars
    <3> QED
      BY <2>4, <3>1, <3>2, <3>4, <3>5 DEF Silent
  <2> QED
    BY <2>1, <2>2, <2>3, <2>4
<1>4. Unbroken' => Kept'
  BY <1>2, <1>3
<1> QED
  BY <1>1, <1>4 DEF Recording

------------------------------------------------------------------------------
(* The deadline, the calls *)

LEMMA LateStep ==
  ASSUME DiscoveryTypes, Late, [Next]_vars
  PROVE  Late'
<1>0. /\ Append(<<>>, "reply") = <<"reply">> /\ Append(<<>>, "act") = <<"act">>
      /\ Append(<<"reply">>, "act") = <<"reply", "act">>
  <2>1. Append(<<>>, "reply") = <<"reply">>
    OBVIOUS
  <2>2. Append(<<>>, "act") = <<"act">>
    OBVIOUS
  <2>3. Append(<<"reply">>, "act") = <<"reply", "act">>
    BY SecondAppended
  <2> QED
    BY <2>1, <2>2, <2>3
<1> USE DEF Late, Goto, Stop, StopWith, EvidenceError, SurfaceError, Raise
<1>1. CASE BeginEvidence \/ StopAtHead \/ BeginStep \/ ObserveFails
  BY <1>1 DEF BeginEvidence, StopAtHead, BeginStep, ObserveFails, historyVars, DiscoveryTypes
<1>2. CASE Observe
  BY <1>2 DEF Observe
<1>3. CASE Ask
  BY <1>3 DEF Ask, historyVars
<1>4. CASE ProviderFails
  BY <1>0, <1>4 DEF ProviderFails, Recorded, Overtime
<1>5. CASE Reply
  <2>1. /\ pc = "reply" /\ pc' \in {"terminal", "ask", "gate"} /\ late' = late
        /\ overtime' = IF late THEN Append(overtime, "reply") ELSE overtime
    BY <1>5 DEF Reply, Recorded, Accepted, Refused, Overtime
  <2> QED
    BY <1>0, <2>1
<1>6. CASE Gate \/ Locate \/ Operate
  BY <1>6 DEF Gate, Locate, Operate, historyVars
<1>7. CASE Dispatch
  BY <1>0, <1>7 DEF Dispatch, Overtime
<1>8. CASE Completed \/ Failed \/ Terminal \/ End
  BY <1>8 DEF Completed, Failed, Terminal, End, historyVars
<1>9. CASE PageMoves \/ UNCHANGED vars
  BY <1>9 DEF PageMoves, vars, historyVars
<1>10. CASE Deadline
  BY <1>10 DEF Deadline, historyVars
<1> QED
  BY <1>1, <1>2, <1>3, <1>4, <1>5, <1>6, <1>7, <1>8, <1>9, <1>10 DEF Next, Run

(* What becomes of an answer. *)
LEMMA ReplyEnds ==
  ASSUME Reply
  PROVE  /\ pc = "reply" /\ UNCHANGED <<stepIndex, calls>>
         /\ \/ /\ pc' = "ask" /\ first = "NONE" /\ first' # "NONE" /\ retries' = retries + 1
               /\ UNCHANGED <<chosen, pending, result>>
            \/ /\ pc' = "terminal" /\ UNCHANGED <<first, retries, chosen, pending>>
               /\ result'.code # "NO_PROGRESS" /\ result'.code # "SURFACE_ERROR"
               /\ result'.codes # <<>> => first # "NONE"
            \/ pc' = "gate" /\ UNCHANGED <<first, retries, result>> /\ pending' = <<snap>>
<1>1. PICK answer \in Answers, o \in {stepIndex - 1, stepIndex} :
        LET wire == Echoing(answer, o)
            code == Validate(wire, stepIndex, Elements, steps)
        IN  Recorded(IF code = "VALID" THEN Accepted(wire) ELSE Refused(code))
  BY DEF Reply
<1> DEFINE wire == Echoing(answer, o)
           code == Validate(wire, stepIndex, Elements, steps)
<1>2. pc = "reply" /\ UNCHANGED <<stepIndex, calls>>
  BY DEF Reply
<1>3. code # "NONE"
  BY NeverNone
<1> HIDE DEF wire, code
<1>4. CASE EvidenceError /\ UNCHANGED <<first, chosen, pending, retries>>
  BY <1>2, <1>4 DEF EvidenceError, Stop, StopWith
<1>5. CASE Accepted(wire)
  <2>1. CASE wire.kind = "ACT"
    BY <1>2, <1>5, <2>1 DEF Accepted, Goto
  <2>2. CASE wire.kind # "ACT"
    BY <1>2, <1>5, <2>2 DEF Accepted, Stop, StopWith
  <2> QED
    BY <2>1, <2>2
<1>6. CASE Refused(code)
  <2>1. CASE first = "NONE"
    BY <1>2, <1>3, <1>6, <2>1 DEF Refused, Goto
  <2>2. CASE first # "NONE"
    <3>1. /\ pc' = "terminal" /\ UNCHANGED <<first, chosen, pending, retries>>
          /\ result'.code \in {"AMBIGUOUS_TARGET", "INVALID_DECISION"}
      BY <1>6, <2>2 DEF Refused, StopWith
    <3> QED
      BY <1>2, <2>2, <3>1
  <2> QED
    BY <2>1, <2>2
<1> QED
  BY <1>1, <1>4, <1>5, <1>6 DEF Recorded, wire, code

LEMMA SpentStep ==
  ASSUME DiscoveryTypes, Spent, [Next]_vars
  PROVE  Spent'
<1> USE DEF Spent, DiscoveryTypes, Deciding, Goto, Stop, StopWith, EvidenceError, SurfaceError, Raise,
            stepVars, countVars
<1>1. CASE BeginEvidence \/ StopAtHead \/ BeginStep \/ ObserveFails
  BY <1>1 DEF BeginEvidence, StopAtHead, BeginStep, ObserveFails
<1>2. CASE Observe
  BY <1>2 DEF Observe
<1>3. CASE Ask
  BY <1>3 DEF Ask
<1>4. CASE ProviderFails
  BY <1>4 DEF ProviderFails, Recorded
<1>5. CASE Reply
  BY <1>5, ReplyEnds
<1>6. CASE Gate \/ Locate \/ Dispatch \/ Operate
  BY <1>6 DEF Gate, Locate, Dispatch, Operate
<1>7. CASE Completed \/ Failed \/ Terminal \/ End
  BY <1>7 DEF Completed, Failed, Terminal, End
<1>8. CASE PageMoves \/ Deadline \/ UNCHANGED vars
  BY <1>8 DEF PageMoves, Deadline, vars
<1> QED
  BY <1>1, <1>2, <1>3, <1>4, <1>5, <1>6, <1>7, <1>8 DEF Next, Run

(* Every call made has its event, and so have the refusals that end a run. *)
LEMMA CalledStep ==
  ASSUME DiscoveryTypes, Recording, Spent, Called, [Next]_vars
  PROVE  Called'
<1> SUFFICES ASSUME Unbroken' PROVE Called'
  BY DEF Called
<1> USE DEF Stop, StopWith, EvidenceError, SurfaceError, Raise, Goto, NoResult
<1>1. CASE pc = "begin"
  <2>1. Count("MODEL_CALL")' = 0 /\ calls' = 0 /\ pc' = "step" /\ result'.codes = <<>>
    BY <1>1, FirstEvent DEF BeginEvidence, countVars, Recording, DiscoveryTypes, Over
  <2> QED
    BY <2>1 DEF Called
<1>2. CASE pc # "begin"
  <2>0. Unbroken /\ (Noted \/ (Silent /\ log' = log)) /\ IsSeq(log)
    BY <1>2, Ledger DEF Recording
  <2>1. Count("MODEL_CALL")' = calls' - (IF pc' = "reply" THEN 1 ELSE 0)
    <3>0. Count("MODEL_CALL") = calls - (IF pc = "reply" THEN 1 ELSE 0)
      BY <2>0 DEF Called
    <3>1. CASE (ProviderFails \/ Reply) /\ Added("MODEL_CALL", stepIndex)
      <4>1. Count("MODEL_CALL")' = Count("MODEL_CALL") + 1
        BY <3>1, AddedCounted
      <4>2. pc = "reply" /\ pc' # "reply" /\ calls' = calls
        BY <3>1, ReplyEnds DEF ProviderFails, Recorded
      <4> QED
        BY <3>0, <4>1, <4>2 DEF DiscoveryTypes
    <3>2. CASE Noted /\ ~(ProviderFails \/ Reply)
      <4>1. PICK type, s : Added(type, s) /\ type # "MODEL_CALL"
        BY <3>2 DEF Noted
      <4>2. Count("MODEL_CALL")' = Count("MODEL_CALL")
        BY <4>1, AddedCounted
      <4>3. pc # "reply" /\ pc' # "reply" /\ calls' = calls
        BY <3>2 DEF Noted, Observe, Gate, Dispatch, Completed, Failed, Terminal, countVars
      <4> QED
        BY <3>0, <4>2, <4>3
    <3>3. CASE Silent /\ log' = log
      <4>1. Count("MODEL_CALL")' = Count("MODEL_CALL")
        BY <3>3 DEF Count
      <4>2. CASE Ask
        BY <3>0, <4>1, <4>2 DEF Ask, DiscoveryTypes
      <4>3. CASE PageMoves \/ Deadline \/ UNCHANGED vars
        BY <3>0, <4>1, <4>3 DEF PageMoves, Deadline, vars, countVars
      <4>4. CASE StopAtHead \/ BeginStep \/ ObserveFails \/ Locate \/ Operate \/ End
        BY <3>0, <4>1, <4>4 DEF StopAtHead, BeginStep, ObserveFails, Locate, Operate, End, countVars
      <4> QED
        BY <3>3, <4>2, <4>3, <4>4 DEF Silent
    <3>4. Noted /\ (ProviderFails \/ Reply) => (ProviderFails \/ Reply) /\ Added("MODEL_CALL", stepIndex)
      BY DEF Noted, Observe, ProviderFails, Reply, Gate, Dispatch, Completed, Failed, Terminal
    <3> QED
      BY <2>0, <3>1, <3>2, <3>3, <3>4
  <2>2. ASSUME pc' \in {"ask", "reply"}, first' # "NONE"
        PROVE  CalledAt(log, Len(log), stepIndex)'
    <3>1. CASE Reply /\ Added("MODEL_CALL", stepIndex)
      BY <3>1, ReplyEnds DEF Added, CalledAt
    <3>2. CASE log' = log /\ UNCHANGED <<first, stepIndex>> /\ pc \in {"ask", "reply"}
      BY <2>0, <2>2, <3>2 DEF Called, CalledAt
    <3>3. ~(Noted /\ ~Reply)
      BY <2>2 DEF Noted, Observe, Spent, ProviderFails, Recorded, Gate, Dispatch, Completed, Failed,
                  Terminal
    <3>4. CASE Ask
      BY <2>0, <2>2, <3>2, <3>4 DEF Ask, Noted, stepVars, Observe, ProviderFails, Reply, Gate, Dispatch,
                                    Completed, Failed, Terminal
    <3>5. CASE (PageMoves \/ Deadline \/ UNCHANGED vars) /\ log' = log
      BY <2>2, <3>2, <3>5 DEF PageMoves, Deadline, vars, stepVars
    <3>6. ~(StopAtHead \/ BeginStep \/ ObserveFails \/ Locate \/ Operate \/ End)
      BY <2>2 DEF StopAtHead, BeginStep, ObserveFails, Locate, Operate, End
    <3>7. Noted /\ Reply => Reply /\ Added("MODEL_CALL", stepIndex)
      BY DEF Noted, Observe, ProviderFails, Reply, Gate, Dispatch, Completed, Failed, Terminal
    <3>8. Silent => \/ StopAtHead \/ BeginStep \/ ObserveFails \/ Locate \/ Operate \/ End
                    \/ Ask \/ (PageMoves \/ Deadline \/ UNCHANGED vars)
      BY DEF Silent
    <3> QED
      BY <2>0, <3>1, <3>3, <3>4, <3>5, <3>6, <3>7, <3>8
  <2>3. ASSUME result'.codes # <<>>
        PROVE  LET n == Len(log') - Count("DISCOVERY_ENDED")'
               IN  n >= 2 /\ CalledAt(log', n, stepIndex') /\ CalledAt(log', n - 1, stepIndex')
    <3>1. CASE Reply /\ Added("MODEL_CALL", stepIndex)
      <4>1. first # "NONE" /\ pc = "reply" /\ stepIndex' = stepIndex /\ pc' = "terminal"
        BY <2>3, <3>1, ReplyEnds DEF DiscoveryTypes, Over
      <4>2. Count("DISCOVERY_ENDED")' = 0
        BY <3>1, <4>1, RecordingStep DEF Recording
      <4>3. CalledAt(log, Len(log), stepIndex)
        BY <2>0, <4>1 DEF Called
      <4>4. Len(log') = Len(log) + 1 /\ Len(log) \in Nat
        BY <3>1 DEF Added
      <4>5. /\ CalledAt(log', Len(log) + 1, stepIndex') /\ CalledAt(log', Len(log), stepIndex')
            /\ Len(log) >= 1
        BY <3>1, <4>1, <4>3 DEF CalledAt, Added
      <4> QED
        BY <4>2, <4>4, <4>5
    <3>2. CASE ~Reply
      <4>1. pc \in Over /\ result' = result
        <5> USE DEF DiscoveryTypes, Over
        <5>1. CASE BeginEvidence \/ StopAtHead \/ BeginStep \/ ObserveFails
          BY <2>3, <5>1 DEF BeginEvidence, StopAtHead, BeginStep, ObserveFails
        <5>2. ~(Observe \/ Ask \/ ProviderFails \/ Gate)
          <6>1. ASSUME pc \in {"observe", "ask", "reply", "gate"} PROVE result = NoResult
            BY <6>1
          <6>2. (Observe \/ Ask \/ ProviderFails \/ Gate) =>
                  result'.codes = <<>> \/ result' = result
            <7>1. Observe => result'.codes = <<>> \/ result' = result
              <8>1. Observe => result' = result \/ \E code : StopWith("DEAD_END", code, <<>>, Missing)
                BY DEF Observe
              <8> QED
                BY <8>1
            <7>2. Ask => result'.codes = <<>> \/ result' = result
              BY DEF Ask
            <7>3. ProviderFails => result'.codes = <<>> \/ result' = result
              BY DEF ProviderFails, Recorded
            <7>4. Gate => result'.codes = <<>> \/ result' = result
              <8>1. Gate => \/ Goto("dispatch") \/ Goto("locate") \/ EvidenceError
                            \/ Stop("BLOCKED_BY_POLICY", "POLICY_DENIED")
                            \/ Stop("BLOCKED_BY_POLICY", "INTERVENTION_REQUIRED")
                BY DEF Gate
              <8> QED
                BY <8>1
            <7> QED
              BY <7>1, <7>2, <7>3, <7>4
          <6>3. (Observe \/ Ask \/ ProviderFails \/ Gate) => pc \in {"observe", "ask", "reply", "gate"}
            BY DEF Observe, Ask, ProviderFails, Gate
          <6> QED
            BY <2>3, <6>1, <6>2, <6>3
        <5>3. CASE Locate \/ Dispatch \/ Operate \/ Completed \/ Failed
          BY <2>3, <5>3 DEF Locate, Dispatch, Operate, Completed, Failed
        <5>4. CASE Terminal \/ End
          BY <2>3, <5>4 DEF Terminal, End
        <5>5. CASE PageMoves \/ Deadline \/ UNCHANGED vars
          BY <2>3, <5>5 DEF PageMoves, Deadline, vars
        <5> QED
          BY <3>2, <5>1, <5>2, <5>3, <5>4, <5>5 DEF Next, Run
      <4> DEFINE n == Len(log) - Count("DISCOVERY_ENDED")
      <4>2. n >= 2 /\ CalledAt(log, n, stepIndex) /\ CalledAt(log, n - 1, stepIndex)
        BY <2>0, <2>3, <4>1 DEF Called
      <4>3. stepIndex' = stepIndex
        BY <4>1, Steady DEF BeginStep, Over
      <4>4. CASE Terminal /\ Added("DISCOVERY_ENDED", NoStep)
        <5>1. Count("DISCOVERY_ENDED")' = Count("DISCOVERY_ENDED") + 1 /\ Count("DISCOVERY_ENDED") \in Nat
          BY <4>4, AddedCounted
        <5>2. Len(log') - Count("DISCOVERY_ENDED")' = n
          BY <4>4, <5>1 DEF Added
        <5> HIDE DEF n
        <5>3. CalledAt(log', n, stepIndex') /\ CalledAt(log', n - 1, stepIndex')
          BY <4>2, <4>3, <4>4 DEF CalledAt, Added
        <5> QED
          BY <4>2, <5>2, <5>3
      <4>5. CASE log' = log
        BY <4>2, <4>3, <4>5 DEF Count, CalledAt
      <4> QED
        BY <2>0, <4>1, <4>4, <4>5 DEF Noted, Over, Observe, ProviderFails, Reply, Gate, Dispatch,
                                      Completed, Failed
    <3>3. Reply => Added("MODEL_CALL", stepIndex)
      <4>1. ASSUME Reply PROVE ~Silent
        <5>1. pc = "reply" /\ result = NoResult /\ result' # result
          BY <2>3, <4>1 DEF Reply, DiscoveryTypes, Over
        <5>2. pc' # "reply"
          BY <4>1, ReplyEnds
        <5> QED
          BY <5>1, <5>2 DEF Silent, StopAtHead, BeginStep, ObserveFails, Ask, Locate, Operate, End,
                            PageMoves, Deadline, vars
      <4>2. ASSUME Reply, Noted PROVE Added("MODEL_CALL", stepIndex)
        <5>1. pc = "reply"
          BY <4>2 DEF Reply
        <5> QED
          BY <4>2, <5>1 DEF Noted, Observe, Gate, Dispatch, Completed, Failed, Terminal
      <4> QED
        BY <2>0, <4>1, <4>2
    <3> QED
      BY <3>1, <3>2, <3>3
  <2> QED
    BY <2>1, <2>2, <2>3 DEF Called
<1> QED
  BY <1>1, <1>2

------------------------------------------------------------------------------
(* Where a run goes *)

Turns ==
  { <<"begin", "step">>, <<"begin", "terminal">>, <<"step", "observe">>, <<"step", "terminal">>,
    <<"observe", "terminal">>, <<"ask", "reply">>, <<"ask", "terminal">>, <<"ask", "end">>,
    <<"reply", "ask">>, <<"reply", "gate">>, <<"reply", "terminal">>, <<"gate", "locate">>,
    <<"gate", "dispatch">>, <<"gate", "terminal">>, <<"locate", "dispatch">>,
    <<"locate", "terminal">>, <<"dispatch", "operate">>, <<"dispatch", "terminal">>,
    <<"operate", "completed">>, <<"operate", "failed">>, <<"completed", "step">>,
    <<"completed", "terminal">>, <<"completed", "end">>, <<"failed", "terminal">>,
    <<"terminal", "end">>, <<"end", "done">> }

(* Only an observation leads from observing to asking, and only an         *)
(* observation finds that nothing has changed.                             *)
LEMMA TurnTaken ==
  ASSUME [Next]_vars, ~Observe
  PROVE  /\ pc' = pc \/ <<pc, pc'>> \in Turns
         /\ result'.code = "NO_PROGRESS" => result' = result
<1> USE DEF Goto, Stop, StopWith, EvidenceError, SurfaceError, Raise, NoResult, Turns
<1>1. CASE BeginEvidence \/ StopAtHead \/ BeginStep \/ ObserveFails
  BY <1>1 DEF BeginEvidence, StopAtHead, BeginStep, ObserveFails
<1>2. CASE Ask \/ ProviderFails
  BY <1>2 DEF Ask, ProviderFails, Recorded
<1>3. CASE Reply
  BY <1>3, ReplyEnds
<1>4. CASE Gate
  <2>1. \/ Goto("dispatch") \/ Goto("locate") \/ EvidenceError
        \/ Stop("BLOCKED_BY_POLICY", "POLICY_DENIED")
        \/ Stop("BLOCKED_BY_POLICY", "INTERVENTION_REQUIRED")
    BY <1>4 DEF Gate
  <2>2. pc = "gate"
    BY <1>4 DEF Gate
  <2> QED
    BY <2>1, <2>2
<1>5. CASE Locate \/ Dispatch \/ Operate
  BY <1>5 DEF Locate, Dispatch, Operate
<1>6. CASE Completed \/ Failed
  BY <1>6 DEF Completed, Failed
<1>7. CASE Terminal \/ End
  BY <1>7 DEF Terminal, End
<1>8. CASE PageMoves \/ Deadline \/ UNCHANGED vars
  BY <1>8 DEF PageMoves, Deadline, vars
<1> QED
  BY <1>1, <1>2, <1>3, <1>4, <1>5, <1>6, <1>7, <1>8 DEF Next, Run

LEMMA StepBegins ==
  ASSUME [Next]_vars, pc = "step", pc' = "observe"
  PROVE  BeginStep
<1> USE DEF Goto, Stop, StopWith, EvidenceError, SurfaceError, Raise
<1>1. ~(BeginEvidence \/ StopAtHead \/ Observe \/ ObserveFails \/ Ask \/ ProviderFails \/ Reply)
  BY DEF BeginEvidence, StopAtHead, Observe, ObserveFails, Ask, ProviderFails, Reply
<1>2. ~(Gate \/ Locate \/ Dispatch \/ Operate \/ Completed \/ Failed \/ Terminal \/ End)
  BY DEF Gate, Locate, Dispatch, Operate, Completed, Failed, Terminal, End
<1>3. ~(PageMoves \/ Deadline \/ UNCHANGED vars)
  BY DEF PageMoves, Deadline, vars
<1> QED
  BY <1>1, <1>2, <1>3 DEF Next, Run

------------------------------------------------------------------------------
(* What two observations have in common *)

(* An element has these fields and no other. *)
LEMMA ElementShape ==
  ASSUME NEW p \in Pages, NEW k \in DOMAIN Shown[p]
  PROVE  \E r, n, v, e, c, a :
           Shown[p][k] = [role |-> r, name |-> n, value |-> v, enabled |-> e, context |-> c, at |-> a]
<1>1. \A tree : \A j \in DOMAIN ElementsOf(tree) : \E r, n, v, e, c, a :
        ElementsOf(tree)[j] =
          [role |-> r, name |-> n, value |-> v, enabled |-> e, context |-> c, at |-> a]
  BY DEF ElementsOf
<1>2. Shown[p] = ElementsOf(Site[p].tree)
  BY DEF Shown
<1> DEFINE elements == ElementsOf(Site[p].tree)
<1>3. \E r, n, v, e, c, a :
        elements[k] = [role |-> r, name |-> n, value |-> v, enabled |-> e, context |-> c, at |-> a]
  <2>1. k \in DOMAIN elements
    BY <1>2
  <2> QED
    BY <1>1, <2>1, Zenon
<1> HIDE DEF elements
<1>4. Shown[p] = elements
  BY <1>2 DEF elements
<1> QED
  BY <1>3, <1>4

(* Comparing digests compares everything but the refs. *)
LEMMA SameViewIsDigest ==
  ASSUME NEW s \in Snapshots, NEW t \in Snapshots
  PROVE  SameView(s, t) <=> Digest(s) = Digest(t)
<1>1. s.body \in Pages /\ t.body \in Pages
  BY DEF Snapshots
<1> DEFINE A == Shown[s.body]
           B == Shown[t.body]
           Unref(e) == [e EXCEPT !.at = 0]
<1>2. ASSUME NEW k \in DOMAIN A, k \in DOMAIN B
      PROVE  Unref(A[k]) = Unref(B[k]) <=>
               \A field \in {"role", "name", "value", "enabled", "context"} :
                 A[k][field] = B[k][field]
  <2>1. PICK r, n, v, e, c, a :
          A[k] = [role |-> r, name |-> n, value |-> v, enabled |-> e, context |-> c, at |-> a]
    BY <1>1, ElementShape
  <2>2. PICK r2, n2, v2, e2, c2, a2 :
          B[k] = [role |-> r2, name |-> n2, value |-> v2, enabled |-> e2, context |-> c2, at |-> a2]
    BY <1>1, <1>2, ElementShape
  <2> QED
    BY <2>1, <2>2
<1>3. Digest(s).elements = [k \in DOMAIN A |-> Unref(A[k])]
      /\ Digest(t).elements = [k \in DOMAIN B |-> Unref(B[k])]
  BY DEF Digest
<1>4. Digest(s).elements = Digest(t).elements <=>
        DOMAIN A = DOMAIN B /\ \A k \in DOMAIN A : Unref(A[k]) = Unref(B[k])
  <2> HIDE DEF A, B, Unref
  <2>1. ASSUME Digest(s).elements = Digest(t).elements PROVE DOMAIN A = DOMAIN B
    BY <1>3, <2>1
  <2>2. ASSUME Digest(s).elements = Digest(t).elements, NEW k \in DOMAIN A
        PROVE  Unref(A[k]) = Unref(B[k])
    BY <1>3, <2>1, <2>2
  <2>3. ASSUME DOMAIN A = DOMAIN B, \A k \in DOMAIN A : Unref(A[k]) = Unref(B[k])
        PROVE  Digest(s).elements = Digest(t).elements
    BY <1>3, <2>3
  <2> QED
    BY <2>1, <2>2, <2>3
<1>5. Digest(s) = Digest(t) <=>
        /\ Site[s.url].route = Site[t.url].route /\ Site[s.body].title = Site[t.body].title
        /\ Digest(s).elements = Digest(t).elements
  <2> DEFINE x == [k \in DOMAIN A |-> Unref(A[k])]
             y == [k \in DOMAIN B |-> Unref(B[k])]
  <2>1. /\ Digest(s) = [route |-> Site[s.url].route, title |-> Site[s.body].title, elements |-> x]
        /\ Digest(t) = [route |-> Site[t.url].route, title |-> Site[t.body].title, elements |-> y]
    BY DEF Digest
  <2> HIDE DEF x, y, A, B
  <2> QED
    BY <2>1
<1>6. SameView(s, t) <=>
        /\ Site[s.url].route = Site[t.url].route /\ Site[s.body].title = Site[t.body].title
        /\ DOMAIN A = DOMAIN B
        /\ \A k \in DOMAIN A : \A field \in {"role", "name", "value", "enabled", "context"} :
             A[k][field] = B[k][field]
  BY DEF SameView
<1> HIDE DEF A, B, Unref
<1>7. DOMAIN A = DOMAIN B =>
        ((\A k \in DOMAIN A : Unref(A[k]) = Unref(B[k])) <=>
         \A k \in DOMAIN A : \A field \in {"role", "name", "value", "enabled", "context"} :
           A[k][field] = B[k][field])
  BY <1>2, Zenon
<1> QED
  BY <1>4, <1>5, <1>6, <1>7, Zenon

LEMMA SameViewAgrees ==
  ASSUME NEW s \in Snapshots, NEW t \in Snapshots, NEW u \in Snapshots, SameView(t, u)
  PROVE  SameView(s, s) /\ (SameView(s, t) <=> SameView(s, u))
BY SameViewIsDigest

LEMMA OverStays ==
  ASSUME [Next]_vars, pc \in Over
  PROVE  result' = result \/ result'.code = "EVIDENCE_ERROR"
<1> USE DEF Over, Goto
<1>1. pc = "terminal" \/ pc = "end" \/ pc = "done"
  OBVIOUS
<1>2. ~(BeginEvidence \/ StopAtHead \/ BeginStep \/ Observe \/ ObserveFails \/ Ask)
  BY <1>1 DEF BeginEvidence, StopAtHead, BeginStep, Observe, ObserveFails, Ask
<1>3. ~(ProviderFails \/ Reply \/ Gate \/ Locate \/ Dispatch)
  BY <1>1 DEF ProviderFails, Reply, Gate, Locate, Dispatch
<1>4. ~(Operate \/ Completed \/ Failed)
  BY <1>1 DEF Operate, Completed, Failed
<1>5. CASE Terminal \/ End
  BY <1>5 DEF Terminal, End, NoResult
<1>6. CASE PageMoves \/ Deadline \/ UNCHANGED vars
  BY <1>6 DEF PageMoves, Deadline, vars
<1> QED
  BY <1>2, <1>3, <1>4, <1>5, <1>6 DEF Next, Run

(* One more observation, like the last one or not. *)
LEMMA AlikeAdded ==
  ASSUME NEW h \in Seq(Snapshots), h # <<>>, NEW k \in Nat, AlikeSince(h, k), NEW s \in Snapshots
  PROVE  AlikeSince(Append(h, s), IF SameView(s, h[Len(h)]) THEN k + 1 ELSE 0)
<1> DEFINE n == Len(h)
           last == h[n]
           next == Append(h, s)
<1>1. n \in Nat /\ n > 0 /\ last \in Snapshots /\ k < n
  BY EmptySeq, ElementOfSeq DEF AlikeSince
<1>2. Len(next) = n + 1 /\ next[n + 1] = s /\ \A i \in 1..n : next[i] = h[i] /\ h[i] \in Snapshots
  BY AppendProperties, ElementOfSeq
<1>3. /\ \A i \in (n - k)..n : SameView(h[i], last)
      /\ k + 1 < n => ~SameView(h[n - k - 1], last)
  BY DEF AlikeSince
<1> HIDE DEF n, last, next
<1>4. CASE SameView(s, last)
  <2>1. SameView(s, s) /\ \A t \in Snapshots : SameView(t, last) <=> SameView(t, s)
    BY <1>1, <1>4, SameViewIsDigest
  <2>2. ASSUME NEW i \in (n - k)..(n + 1) PROVE SameView(next[i], s)
    <3>1. CASE i = n + 1
      BY <1>2, <2>1, <3>1
    <3>2. CASE i # n + 1
      <4>1. i \in (n - k)..n /\ i \in 1..n
        BY <1>1, <3>2
      <4> QED
        BY <1>2, <1>3, <2>1, <4>1
    <3> QED
      BY <3>1, <3>2
  <2>3. ASSUME k + 1 < n PROVE ~SameView(next[n - k - 1], s)
    <3>1. n - k - 1 \in 1..n
      BY <1>1, <2>3
    <3> QED
      BY <1>2, <1>3, <2>1, <2>3, <3>1
  <2>4. AlikeSince(next, k + 1)
    <3>1. Len(next) = n + 1 /\ next[n + 1] = s
      BY <1>2
    <3>2. k + 1 < Len(next)
      BY <1>1, <3>1
    <3>3. \A i \in (Len(next) - (k + 1))..Len(next) : SameView(next[i], next[Len(next)])
      BY <1>1, <2>2, <3>1
    <3>4. k + 1 + 1 < Len(next) => ~SameView(next[Len(next) - (k + 1) - 1], next[Len(next)])
      <4>1. Len(next) - (k + 1) - 1 = n - k - 1 /\ (k + 1 + 1 < Len(next) <=> k + 1 < n)
        BY <1>1, <3>1
      <4> QED
        BY <2>3, <3>1, <4>1
    <3> QED
      BY <3>1, <3>2, <3>3, <3>4 DEF AlikeSince
  <2> QED
    BY <1>4, <2>4 DEF n, last, next
<1>5. CASE ~SameView(s, last)
  <2>1. SameView(s, s) /\ ~SameView(last, s)
    BY <1>1, <1>5, SameViewIsDigest
  <2>2. next[n] = last
    BY <1>1, <1>2 DEF last
  <2>3. AlikeSince(next, 0)
    BY <1>1, <1>2, <2>1, <2>2 DEF AlikeSince
  <2> QED
    BY <1>5, <2>3 DEF n, last, next
<1> QED
  BY <1>4, <1>5

(* The counter counts the observations that are alike. *)
LEMMA StreakStep ==
  ASSUME DiscoveryTypes, Carried, Streak, [Next]_vars
  PROVE  Streak'
<1> SUFFICES ASSUME result'.code # "EVIDENCE_ERROR" PROVE Streak'
  BY DEF Streak
<1> DEFINE n == Len(observed)
<1>0. /\ n \in Nat /\ unchanged \in Nat /\ DOMAIN observed = 1..n
      /\ observed = <<>> <=> n = 0
      /\ \A i \in 1..n : observed[i] \in Snapshots
  BY EmptySeq, ElementOfSeq DEF DiscoveryTypes
<1>1. CASE Observe
  <2>1. /\ pc = "observe" /\ result = NoResult
    BY <1>1 DEF Observe, DiscoveryTypes, Over
  <2>2. PICK s :
          /\ snap' = s /\ observed' = Append(observed, s)
          /\ unchanged' = Progress(s) /\ pending' = <<>>
          /\ \/ pending # <<>> /\ unchanged' >= NoProgressLimit /\ pc' = "terminal"
             \/ /\ ~(pending # <<>> /\ unchanged' >= NoProgressLimit)
                /\ pc' = "ask" /\ result' = NoResult
    <3>1. ~EvidenceError
      BY DEF EvidenceError, Stop, StopWith
    <3>2. PICK url : LET s == [body |-> page, url |-> url]
                     IN  /\ snap' = s /\ observed' = Append(observed, s)
                         /\ unchanged' = Progress(s) /\ pending' = <<>>
                         /\ IF pending # <<>> /\ unchanged' >= NoProgressLimit
                            THEN Stop("DEAD_END", "NO_PROGRESS") ELSE Goto("ask")
      BY <1>1, <3>1 DEF Observe
    <3>3. CASE pending # <<>> /\ unchanged' >= NoProgressLimit
      BY <3>2, <3>3 DEF Stop, StopWith
    <3>4. CASE ~(pending # <<>> /\ unchanged' >= NoProgressLimit)
      BY <2>1, <3>2, <3>4 DEF Goto
    <3> QED
      BY <3>3, <3>4
  <2>3. snap' \in Snapshots /\ observed' \in Seq(Snapshots) /\ unchanged' \in Nat
    BY PageTyped
  <2>4. /\ s \in Snapshots /\ Len(observed') = n + 1 /\ observed'[n + 1] = s
        /\ \A i \in 1..n : observed'[i] = observed[i]
    BY <2>2, <2>3, AppendProperties DEF DiscoveryTypes
  <2>5. observed' # <<>> /\ Latest' = s
    BY <2>4, EmptySeq DEF Latest
  <2>6. CASE observed = <<>>
    <3>1. pending = <<>> /\ unchanged = 0
      BY <2>1, <2>6 DEF Streak, NoResult
    <3>2. unchanged' = 0 /\ n = 0 /\ pc' = "ask" /\ result' = NoResult
      BY <1>0, <2>2, <2>6, <3>1 DEF Progress
    <3>3. AlikeSince(observed', unchanged')
      <4>1. SameView(s, s)
        BY <2>4, SameViewIsDigest
      <4>2. \A h : Len(h) = 1 /\ h[1] = s => AlikeSince(h, 0)
        BY <4>1 DEF AlikeSince
      <4> QED
        BY <2>4, <3>2, <4>2
    <3>4. NoProgressLimit > 0
      BY LimitsAssumption
    <3> QED
      BY <2>2, <2>4, <2>5, <3>2, <3>3, <3>4, LimitsAssumption DEF Streak, Acting, Over, NoResult
  <2>7. CASE observed # <<>>
    <3>1. /\ pending = <<Latest>> /\ Latest \in Snapshots /\ n > 0
          /\ unchanged < NoProgressLimit
      BY <1>0, <2>1, <2>7 DEF Streak, NoResult, Over, Latest
    <3>2. AlikeSince(observed, unchanged)
      BY <2>1, <2>7 DEF Streak, NoResult
    <3>3. unchanged' = IF SameView(s, Latest) THEN unchanged + 1 ELSE 0
      <4>1. pending # <<>> /\ pending[1] = Latest
        BY <3>1
      <4> QED
        BY <2>2, <2>4, <3>1, <4>1, SameViewIsDigest DEF Progress
    <3>4. AlikeSince(observed', unchanged')
      <4>1. AlikeSince(Append(observed, s), IF SameView(s, Latest) THEN unchanged + 1 ELSE 0)
        BY <1>0, <2>4, <2>7, <3>2, AlikeAdded DEF DiscoveryTypes, Latest
      <4> QED
        BY <2>2, <3>3, <4>1
    <3>5. pc' = "terminal" => unchanged' >= NoProgressLimit
      BY <2>2
    <3>6. pc' = "ask" => unchanged' < NoProgressLimit /\ result' = NoResult
      BY <2>2, <2>3, <3>1, LimitsAssumption
    <3>7. /\ pc' = "ask" \/ pc' = "terminal"
          /\ pc' = "ask" => unchanged' < NoProgressLimit /\ result'.code = "NONE"
          /\ pc' = "terminal" => unchanged' >= NoProgressLimit
      BY <2>2, <3>5, <3>6 DEF NoResult
    <3>8. pending' = <<>> /\ snap' = Latest' /\ pc' \notin {"begin", "step", "observe"} \cup Acting
      BY <2>2, <2>5, <3>7 DEF Acting
    <3>9. result'.code = "NO_PROGRESS" => pc' = "terminal"
      BY <3>7
    <3>10. pc' = "ask" \/ pc' \in Over
      BY <3>7 DEF Over
    <3>11. pc' \notin Over => unchanged' < NoProgressLimit
      BY <3>7, <3>10
    <3>12. result'.code = "NO_PROGRESS" => unchanged' >= NoProgressLimit
      BY <3>7, <3>9
    <3> QED
      BY <2>5, <3>4, <3>8, <3>11, <3>12, Zenon DEF Streak
  <2> QED
    BY <2>6, <2>7
<1>2. CASE ~Observe
  <2>1. /\ UNCHANGED <<snap, observed, unchanged>>
        /\ UNCHANGED pending \/ Reply
        /\ pc' = pc \/ <<pc, pc'>> \in Turns
        /\ result'.code = "NO_PROGRESS" => result' = result
    BY <1>2, Steady, TurnTaken
  <2>2. result.code # "EVIDENCE_ERROR"
    <3>1. pc \in Over => result' = result \/ result'.code = "EVIDENCE_ERROR"
      BY OverStays
    <3> QED
      BY <3>1 DEF DiscoveryTypes, NoResult
  <2>3. /\ Latest' = Latest
        /\ pc' \notin Over => pc \notin Over
    BY <2>1 DEF Latest, Turns, Over
  <2>4. /\ observed = <<>> => pc' \in {"begin", "step", "observe"} \cup Over
        /\ pc' \in {"ask", "reply"} \cup Acting => pc \in {"ask", "reply"} \cup Acting
        /\ pc' \in {"begin", "step", "observe"} \cup Acting =>
             pc \in {"begin", "step", "observe", "reply"} \cup Acting
        /\ pc' \in {"begin", "step", "observe"} \cup Acting /\ pc = "reply" => pc' = "gate"
    BY <2>1, <2>2 DEF Turns, Acting, Over, Streak
  <2>5. pc' \in {"begin", "step", "observe"} \cup Acting =>
          pending' = IF observed = <<>> THEN <<>> ELSE <<Latest>>
    <3>1. CASE Reply
      <4>1. pc = "reply" /\ (pc' = "gate" => pending' = <<snap>>) /\ observed # <<>>
        BY <2>2, <3>1, ReplyEnds DEF Streak, Over
      <4> QED
        BY <2>2, <2>4, <4>1 DEF Streak
    <3>2. CASE ~Reply
      <4>1. pc = "reply" => pc' = "reply" \/ pc' \notin Acting \cup {"begin", "step", "observe"}
        BY <1>2, <3>2 DEF Next, Run, BeginEvidence, StopAtHead, BeginStep, ObserveFails, Ask,
             ProviderFails, Recorded, Gate, Locate, Dispatch, Operate, Completed, Failed, Terminal, End,
             PageMoves, Deadline, vars, Stop, StopWith, EvidenceError, Acting
      <4> QED
        BY <2>1, <2>2, <2>4, <3>2, <4>1 DEF Streak, Acting
    <3> QED
      BY <3>1, <3>2
  <2> QED
    BY <2>1, <2>2, <2>3, <2>4, <2>5 DEF Streak
<1> QED
  BY <1>1, <1>2

------------------------------------------------------------------------------
(* What was traced, dispatched and completed *)

LEMMA TracedAdded ==
  ASSUME DiscoveryTypes, pc = "completed", steps' = Append(steps, StepRaw)
  PROVE  /\ Len(steps) \in Nat /\ DOMAIN steps = 1..Len(steps)
         /\ Len(steps') = Len(steps) + 1 /\ DOMAIN steps' = 1..(Len(steps) + 1)
         /\ \A i \in DOMAIN steps : steps'[i] = steps[i]
         /\ steps'[Len(steps) + 1] = StepRaw /\ StepRaw.index = stepIndex
         /\ Traced' = Traced \cup {stepIndex}
<1>1. /\ Len(steps) \in Nat /\ DOMAIN steps = 1..Len(steps)
      /\ Len(steps') = Len(steps) + 1 /\ DOMAIN steps' = 1..(Len(steps) + 1)
      /\ \A i \in DOMAIN steps : steps'[i] = steps[i]
      /\ steps'[Len(steps) + 1] = StepRaw
  BY AppendAny DEF DiscoveryTypes
<1>2. StepRaw.index = stepIndex
  BY DEF StepRaw
<1> QED
  BY <1>1, <1>2 DEF Traced

(* The steps of the trace come in order, and a step is traced at its end.  *)
TraceOrder ==
  /\ \A i \in DOMAIN steps : steps[i].index \in Nat /\ steps[i].index <= stepIndex
  /\ pc \in Deciding \cup Acting => \A i \in DOMAIN steps : steps[i].index < stepIndex
  /\ \A i, j \in DOMAIN steps : i < j => steps[i].index < steps[j].index

LEMMA TraceOrderStep ==
  ASSUME DiscoveryTypes, TraceOrder, [Next]_vars
  PROVE  TraceOrder'
<1>1. CASE steps' = Append(steps, StepRaw) /\ Completed
  <2>1. pc = "completed" /\ stepIndex' = stepIndex
    BY <1>1 DEF Completed
  <2>2. pc' \notin Deciding \cup Acting
    <3>1. pc' \in {"step", "end", "terminal"}
      BY <1>1 DEF Completed, Goto, Raise, EvidenceError, Stop, StopWith
    <3> QED
      BY <3>1 DEF Deciding, Acting
  <2>3. \A i \in DOMAIN steps : steps[i].index \in Nat /\ steps[i].index < stepIndex
    BY <2>1 DEF TraceOrder, Acting
  <2>4. \A i \in DOMAIN steps' :
          \/ i \in DOMAIN steps /\ steps'[i] = steps[i]
          \/ i = Len(steps) + 1 /\ steps'[i].index = stepIndex
    BY <1>1, <2>1, TracedAdded
  <2>5. \A i \in DOMAIN steps' : steps'[i].index \in Nat /\ steps'[i].index <= stepIndex'
    BY <2>1, <2>3, <2>4 DEF DiscoveryTypes
  <2>6. ASSUME NEW i \in DOMAIN steps', NEW j \in DOMAIN steps', i < j
        PROVE  steps'[i].index < steps'[j].index
    <3>1. DOMAIN steps = 1..Len(steps) /\ Len(steps) \in Nat /\ DOMAIN steps' = 1..(Len(steps) + 1)
      BY <1>1, <2>1, TracedAdded
    <3>2. i \in DOMAIN steps /\ steps'[i] = steps[i]
      BY <2>4, <2>6, <3>1
    <3>3. CASE j \in DOMAIN steps /\ steps'[j] = steps[j]
      BY <2>6, <3>2, <3>3 DEF TraceOrder
    <3>4. CASE j = Len(steps) + 1 /\ steps'[j].index = stepIndex
      BY <2>3, <3>2, <3>4
    <3> QED
      BY <2>4, <3>3, <3>4
  <2> QED
    BY <2>2, <2>5, <2>6 DEF TraceOrder
<1>2. CASE steps' = steps
  <2>1. CASE BeginStep
    BY <1>2, <2>1 DEF BeginStep, TraceOrder, DiscoveryTypes
  <2>2. CASE ~BeginStep
    <3>1. stepIndex' = stepIndex
      BY <2>2, Steady
    <3>2. pc' \in Deciding \cup Acting => pc \in Deciding \cup Acting
      <4>1. CASE Observe
        BY <4>1 DEF Observe, Deciding
      <4>2. CASE ~Observe
        <5>1. ~(pc = "step" /\ pc' = "observe")
          BY <2>2, <4>2, StepBegins
        <5>2. pc' = pc \/ <<pc, pc'>> \in Turns
          BY <4>2, TurnTaken
        <5> QED
          BY <5>1, <5>2 DEF Turns, Deciding, Acting
      <4> QED
        BY <4>1, <4>2
    <3> QED
      BY <1>2, <3>1, <3>2 DEF TraceOrder
  <2> QED
    BY <2>1, <2>2
<1>3. steps' = steps \/ (steps' = Append(steps, StepRaw) /\ Completed)
  BY Steady DEF Completed
<1> QED
  BY <1>1, <1>2, <1>3

LEMMA AddedElsewhere ==
  ASSUME NEW type, NEW s, Added(type, s), NEW other, other # type
  PROVE  StepsOf(other)' = StepsOf(other) /\ (OncePerStep(other) => OncePerStep(other)')
<1>1. StepsOf(other)' = StepsOf(other) \cup {}
  BY AddedStamped
<1>2. OncePerStep(other) => OncePerStep(other)'
  BY AddedStamped
<1>3. \A S : S \cup {} = S
  OBVIOUS
<1> QED
  BY <1>1, <1>2, <1>3, Zenon

(* The log has the steps of the trace, each once, and the step under way.  *)
TraceLogged ==
  /\ OncePerStep("ACTION_DISPATCHED") /\ OncePerStep("ACTION_COMPLETED")
  /\ StepsOf("ACTION_COMPLETED") = Traced
  /\ pc \notin InDriver \cup Over => StepsOf("ACTION_DISPATCHED") = Traced
  /\ pc \in InDriver => StepsOf("ACTION_DISPATCHED") = Traced \cup {stepIndex}
  /\ pc \in Over =>
       \/ StepsOf("ACTION_DISPATCHED") = Traced
       \/ /\ StepsOf("ACTION_DISPATCHED") = Traced \cup {stepIndex}
          /\ stepIndex \notin Traced /\ result.code = "SURFACE_ERROR"
  /\ pc \notin Over => rec.dispatches = Len(steps) + (IF pc \in InDriver THEN 1 ELSE 0)

LEMMA TraceLoggedStep ==
  ASSUME DiscoveryTypes, Recording, TraceOrder, Unbroken => TraceLogged, [Next]_vars, Unbroken'
  PROVE  TraceLogged'
<1> USE DEF Goto, Stop, StopWith, EvidenceError, SurfaceError, Raise
<1>1. CASE pc = "begin"
  <2>1. /\ StepsOf("ACTION_DISPATCHED")' = {} /\ StepsOf("ACTION_COMPLETED")' = {}
        /\ OncePerStep("ACTION_DISPATCHED")' /\ OncePerStep("ACTION_COMPLETED")'
    BY <1>1, FirstEvent
  <2>2. /\ pc' = "step" /\ steps' = <<>> /\ rec' = [FreshRun EXCEPT !.seq = 1]
    BY <1>1, FirstEvent DEF BeginEvidence, BeginWritten, Recording
  <2>3. Traced' = {} /\ Len(steps') = 0
    BY <2>2, EmptyIsSeq DEF Traced
  <2>4. rec'.dispatches = 0
    BY <2>2 DEF FreshRun, NoRun
  <2> QED
    BY <2>1, <2>2, <2>3, <2>4 DEF TraceLogged, InDriver, Over
<1>2. CASE pc # "begin"
  <2>0. /\ Unbroken /\ TraceLogged /\ (Noted \/ (Silent /\ log' = log)) /\ ~EvidenceError
        /\ pc # "done" => rec \in Runs
    <3>1. Unbroken /\ (Noted \/ (Silent /\ log' = log))
      BY <1>2, Ledger
    <3> QED
      BY <3>1 DEF Unbroken, Recording
  <2> DEFINE D == "ACTION_DISPATCHED"
             C == "ACTION_COMPLETED"
  <2>1. CASE Completed
    <3>1. pc = "completed" /\ Written(C) /\ Added(C, stepIndex)
      <4>1. pc = "completed" /\ Written(C)
        BY <2>0, <2>1 DEF Completed
      <4>2. IsSeq(log) /\ rec.step = stepIndex
        BY <2>0, <4>1 DEF Recording
      <4>3. Added(C, rec.step)
        BY <4>1, <4>2, StampAdded DEF Written
      <4> QED
        BY <4>1, <4>2, <4>3
    <3>2. rec.dispatches = Len(steps) + 1
      BY <2>0, <3>1 DEF TraceLogged, InDriver, Over
    <3>3. pc' = "step" /\ steps' = Append(steps, StepRaw)
      BY <2>0, <2>1, <3>2 DEF Completed
    <3>4. Traced' = Traced \cup {stepIndex} /\ Len(steps') = Len(steps) + 1
      BY <3>1, <3>3, TracedAdded
    <3>5. StepsOf(D) = Traced \cup {stepIndex} /\ StepsOf(C) = Traced
      BY <2>0, <3>1 DEF TraceLogged, InDriver
    <3>6. StepsOf(D)' = StepsOf(D) /\ OncePerStep(D)'
      BY <2>0, <3>1, AddedElsewhere DEF TraceLogged
    <3>7. StepsOf(C)' = StepsOf(C) \cup {stepIndex} /\ OncePerStep(C)'
      <4>1. \A t \in StepsOf(C) : t < stepIndex
        BY <3>1, <3>5 DEF Traced, TraceOrder, Acting
      <4> QED
        BY <2>0, <3>1, <4>1, AddedStamped DEF TraceLogged
    <3>8. rec'.dispatches = rec.dispatches
      BY <2>0, <3>1 DEF Written, Runs
    <3> HIDE DEF D, C
    <3>9. pc' \notin InDriver \cup Over
      BY <3>3 DEF InDriver, Over
    <3>10. StepsOf(D)' = Traced' /\ StepsOf(C)' = Traced' /\ rec'.dispatches = Len(steps')
      BY <3>2, <3>4, <3>5, <3>6, <3>7, <3>8
    <3> QED
      BY <3>6, <3>7, <3>9, <3>10 DEF TraceLogged, D, C, InDriver
  <2>2. CASE Dispatch
    <3>1. /\ pc = "dispatch" /\ DispatchWritten /\ pc' = "operate" /\ steps' = steps
          /\ stepIndex' = stepIndex /\ Added(D, stepIndex)
      <4>1. /\ pc = "dispatch" /\ DispatchWritten /\ pc' = "operate" /\ steps' = steps
            /\ stepIndex' = stepIndex
        BY <2>0, <2>2 DEF Dispatch
      <4>2. IsSeq(log) /\ rec.step = stepIndex
        BY <2>0, <4>1 DEF Recording
      <4>3. Added(D, rec.step)
        BY <4>1, <4>2, StampAdded DEF DispatchWritten
      <4> QED
        BY <4>1, <4>2, <4>3
    <3>2. StepsOf(D) = Traced /\ StepsOf(C) = Traced /\ rec.dispatches = Len(steps)
      BY <2>0, <3>1 DEF TraceLogged, InDriver, Over, DiscoveryTypes
    <3>3. StepsOf(C)' = StepsOf(C) /\ OncePerStep(C)'
      BY <2>0, <3>1, AddedElsewhere DEF TraceLogged
    <3>4. StepsOf(D)' = StepsOf(D) \cup {stepIndex} /\ OncePerStep(D)'
      <4>1. \A t \in StepsOf(D) : t < stepIndex
        BY <3>1, <3>2 DEF Traced, TraceOrder, Acting
      <4> QED
        BY <2>0, <3>1, <4>1, AddedStamped DEF TraceLogged
    <3>5. rec'.dispatches = Len(steps') + 1
      BY <2>0, <3>1, <3>2 DEF DispatchWritten, Runs
    <3>6. Traced' = Traced
      BY <3>1 DEF Traced
    <3> QED
      BY <3>1, <3>2, <3>3, <3>4, <3>5, <3>6 DEF TraceLogged, InDriver, Over
  <2>3. CASE ~Completed /\ ~Dispatch
    <3>1. log' = log \/ \E type, s : Added(type, s) /\ type \notin {D, C}
      BY <2>0, <2>3 DEF Noted
    <3>2. /\ StepsOf(D)' = StepsOf(D) /\ OncePerStep(D)'
          /\ StepsOf(C)' = StepsOf(C) /\ OncePerStep(C)'
      <4>1. CASE log' = log
        BY <2>0, <4>1 DEF StepsOf, OncePerStep, TraceLogged
      <4>2. ASSUME NEW type, NEW s, Added(type, s), type \notin {D, C}
            PROVE  /\ StepsOf(D)' = StepsOf(D) /\ OncePerStep(D)'
                   /\ StepsOf(C)' = StepsOf(C) /\ OncePerStep(C)'
        BY <2>0, <4>2, AddedElsewhere DEF TraceLogged
      <4> QED
        BY <3>1, <4>1, <4>2
    <3>3. steps' = steps /\ Traced' = Traced
      BY <2>3, Steady DEF Traced
    <3>4. /\ pc' \notin Over =>
               /\ pc \notin Over /\ rec'.dispatches = rec.dispatches
               /\ pc' \in InDriver <=> pc \in InDriver
          /\ pc' \in InDriver => stepIndex' = stepIndex
          /\ pc' \in Over =>
               \/ pc \notin InDriver \cup Over
               \/ pc \in Over /\ stepIndex' = stepIndex /\ result' = result
               \/ pc \in InDriver /\ stepIndex' = stepIndex /\ result'.code = "SURFACE_ERROR"
      <4> USE <2>0 DEF InDriver, Over, Written
      <4>1. CASE StopAtHead \/ ObserveFails \/ Ask \/ Locate \/ Operate
        BY <4>1 DEF StopAtHead, ObserveFails, Ask, Locate, Operate, recorderVars
      <4>2. CASE BeginStep
        BY <4>2 DEF BeginStep, SetStep, Runs
      <4>3. CASE Observe
        BY <4>3 DEF Observe, Runs
      <4>4. CASE ProviderFails
        BY <4>4 DEF ProviderFails, Recorded, Runs
      <4>5. CASE Reply
        <5>1. pc = "reply" /\ pc' \notin InDriver /\ stepIndex' = stepIndex
          BY <4>5, ReplyEnds
        <5>2. Written("MODEL_CALL")
          BY <4>5 DEF Reply, Recorded
        <5> QED
          BY <5>1, <5>2 DEF Runs
      <4>6. CASE Gate
        <5>1. /\ pc = "gate" /\ stepIndex' = stepIndex /\ Written("GATE_DECISION")
              /\ pc' \in {"dispatch", "locate", "terminal"}
          BY <4>6 DEF Gate
        <5> QED
          BY <5>1 DEF Runs
      <4>7. CASE Failed
        BY <4>7 DEF Failed
      <4>8. CASE Terminal \/ End
        BY <4>8 DEF Terminal, End, Unbroken, NoResult
      <4>9. CASE PageMoves \/ Deadline \/ UNCHANGED vars
        BY <4>9 DEF PageMoves, Deadline, vars, recorderVars
      <4>10. ~BeginEvidence
        BY <1>2 DEF BeginEvidence
      <4> QED
        BY <2>3, <4>1, <4>2, <4>3, <4>4, <4>5, <4>6, <4>7, <4>8, <4>9, <4>10 DEF Next, Run
    <3>5. pc \in InDriver => stepIndex \notin Traced
      BY DEF TraceOrder, Traced, InDriver, Acting
    <3>6. pc \notin InDriver \cup Over => StepsOf(D) = Traced
      BY <2>0 DEF TraceLogged
    <3> HIDE DEF D, C
    <3>7. StepsOf(C)' = Traced'
      BY <2>0, <3>2, <3>3 DEF TraceLogged, C
    <3>8. pc' \notin Over => rec'.dispatches = Len(steps') + (IF pc' \in InDriver THEN 1 ELSE 0)
      <4>1. CASE pc' \in InDriver
        BY <2>0, <3>3, <3>4, <4>1 DEF TraceLogged
      <4>2. CASE pc' \notin InDriver
        BY <2>0, <3>3, <3>4, <4>2 DEF TraceLogged
      <4> QED
        BY <4>1, <4>2
    <3>9. pc' \notin InDriver \cup Over => StepsOf(D)' = Traced'
      BY <3>2, <3>3, <3>4, <3>6
    <3>10. pc' \in InDriver => StepsOf(D)' = Traced' \cup {stepIndex'}
      <4>1. pc' \in InDriver => pc' \notin Over
        BY DEF InDriver, Over
      <4> QED
        BY <2>0, <3>2, <3>3, <3>4, <4>1 DEF TraceLogged, D
    <3>11. ASSUME pc' \in Over
           PROVE  \/ StepsOf(D)' = Traced'
                  \/ /\ StepsOf(D)' = Traced' \cup {stepIndex'}
                     /\ stepIndex' \notin Traced' /\ result'.code = "SURFACE_ERROR"
      BY <2>0, <3>2, <3>3, <3>4, <3>5, <3>6, <3>11 DEF TraceLogged, D
    <3> QED
      BY <3>2, <3>7, <3>8, <3>9, <3>10, <3>11 DEF TraceLogged, D, C
  <2> QED
    BY <2>1, <2>2, <2>3
<1> QED
  BY <1>1, <1>2

------------------------------------------------------------------------------
(* What the goal rests on *)

(* The elements of a page are a sequence. *)
LEMMA ElementsInOrder ==
  ASSUME NEW S, NEW tree \in Seq(S)
  PROVE  \E n \in Nat : DOMAIN ElementsOf(tree) = 1..n
<1>1. PICK n \in Nat : DOMAIN tree = 1..n
  OBVIOUS
<1>2. ListedIn(tree) \in SUBSET (1..n)
  BY <1>1 DEF ListedIn
<1>3. IsFiniteSet(1..n)
  BY FS_Interval
<1>4. Cardinality(ListedIn(tree)) \in Nat
  BY <1>2, <1>3, FS_Subset, FS_CardinalityType
<1> QED
  BY <1>4 DEF ElementsOf

LEMMA ShownIsFinite ==
  ASSUME NEW p \in Pages
  PROVE  IsFiniteSet(DOMAIN Shown[p])
<1>1. Site[p].tree \in Trees
  BY TreesAssumption
<1>2. \E n \in Nat : DOMAIN ElementsOf(Site[p].tree) = 1..n
  BY <1>1, ElementsInOrder DEF Trees
<1>3. \A n \in Nat : IsFiniteSet(1..n)
  BY FS_Interval
<1> QED
  BY <1>2, <1>3 DEF Shown

(* A cell that is the only match of its own semantic target. *)
LEMMA OnlyMatch ==
  ASSUME NEW p \in Pages, NEW k \in DOMAIN Shown[p],
         IdentityMatches(Shown[p], SemanticTarget(Shown[p][k])) = 1
  PROVE  Found(Shown[p], SemanticTarget(Shown[p][k])) = {k}
<1> DEFINE e == Shown[p][k]
           S == Found(Shown[p], SemanticTarget(e))
<1>1. k \in S
  <2>1. /\ SemanticTarget(e).role = e.role /\ SemanticTarget(e).context = e.context
        /\ SemanticTarget(e).role \notin ContentRoles => e.name = SemanticTarget(e).name
    BY DEF SemanticTarget
  <2> QED
    BY <2>1, Zenon DEF Found
<1>2. IsFiniteSet(S)
  BY ShownIsFinite, FS_Subset DEF Found
<1>3. Cardinality(S) = 1
  BY DEF IdentityMatches
<1> HIDE DEF S
<1>4. \E x : S = {x}
  BY <1>2, <1>3, FS_Singleton
<1> QED
  BY <1>1, <1>4 DEF S

(* Templating makes no label of the Savings row, it only loses one. *)
LEMMA TemplatedSavings ==
  ASSUME NEW text, Templated(text) = "Savings" PROVE text = "Savings"
<1> DEFINE names == {n \in DOMAIN Inputs : Inputs[n] = text}
<1>1. CASE names = {}
  BY <1>1 DEF Templated
<1>2. CASE names # {}
  <2>1. (CHOOSE n \in names : TRUE) \in DOMAIN Inputs
    BY <1>2
  <2>2. Templated(text) = CHOOSE n \in names : TRUE
    BY <1>2 DEF Templated
  <2> QED
    BY <2>1, <2>2, InputsAssumption, TemplateAssumption
<1> QED
  BY <1>1, <1>2

(* What the verifier accepts, the snapshots of the trace prove. *)
LEMMA SatisfiedIsVerified ==
  ASSUME DiscoveryTypes, \A i \in DOMAIN steps : FromShown(steps[i]) /\ steps[i].on \in Snapshots,
         Satisfied(steps)
  PROVE  \E i \in DOMAIN steps :
           LET s == steps[i]
           IN  /\ s.output = Balance /\ steps[FirstOf(ReadsOf(steps, Balance))].text = s.text
               /\ \A j \in DOMAIN steps : steps[j].output = Balance => j = i
               /\ Evidenced(Site[s.on.url].route, Site[s.on.body].headings)
               /\ \E k \in DOMAIN Shown[s.on.body] :
                    LET e == Shown[s.on.body][k]
                    IN  /\ e.role = "cell" /\ RowLabel(e.context) = "Savings"
                        /\ Found(Shown[s.on.body], SemanticTarget(e)) = {k}
<1> DEFINE reads == ReadsOf(steps, Balance)
           i == FirstOf(reads)
           s == steps[i]
<1>1. DOMAIN steps = 1..Len(steps) /\ Len(steps) \in Nat
  BY AnySeq DEF DiscoveryTypes
<1>2. reads \in SUBSET (1..Len(steps)) /\ IsFiniteSet(1..Len(steps))
  BY <1>1, FS_Interval DEF ReadsOf
<1>3. Cardinality(reads) = 1 /\ IsFiniteSet(reads)
  BY <1>2, FS_Subset DEF Satisfied
<1> HIDE DEF reads
<1>4. PICK x : reads = {x}
  BY <1>3, FS_Singleton
<1>5. i \in reads
  BY <1>1, <1>2, <1>4, FirstIsMember
<1> HIDE DEF i
<1>6. i \in DOMAIN steps /\ s.action = "READ" /\ s.output = Balance
  BY <1>5 DEF ReadsOf, reads
<1>7. ASSUME NEW j \in DOMAIN steps, steps[j].output = Balance PROVE j = i
  <2>1. steps[j].action = "READ"
    BY <1>7, GoalAssumption DEF FromShown
  <2> QED
    BY <1>4, <1>5, <1>7, <2>1 DEF ReadsOf, reads
<1>8. /\ s.target.role = "cell" /\ RowLabel(s.target.context) = "Savings" /\ s.matches = 1
      /\ s.evidenced
  <2>1. /\ s.target.role = "cell" /\ Templated(RowLabel(s.target.context)) = "Savings"
        /\ s.matches = 1 /\ s.evidenced
    BY DEF Satisfied, reads, i
  <2> QED
    BY <2>1, TemplatedSavings
<1>9. FromShown(s) /\ s.on.body \in Pages
  BY <1>6 DEF Snapshots
<1>10. PICK k \in DOMAIN Shown[s.on.body] :
         /\ s.target = SemanticTarget(Shown[s.on.body][k])
         /\ s.matches = IdentityMatches(Shown[s.on.body], s.target)
  BY <1>6, <1>9 DEF FromShown
<1>11. /\ Shown[s.on.body][k].role = "cell" /\ RowLabel(Shown[s.on.body][k].context) = "Savings"
       /\ Found(Shown[s.on.body], SemanticTarget(Shown[s.on.body][k])) = {k}
  <2>1. /\ s.target.role = Shown[s.on.body][k].role
        /\ s.target.context = Shown[s.on.body][k].context
    BY <1>10 DEF SemanticTarget
  <2>2. IdentityMatches(Shown[s.on.body], SemanticTarget(Shown[s.on.body][k])) = 1
    BY <1>8, <1>10
  <2> QED
    BY <1>8, <1>9, <2>1, <2>2, OnlyMatch
<1>12. Evidenced(Site[s.on.url].route, Site[s.on.body].headings)
  BY <1>8, <1>9 DEF FromShown
<1> QED
  BY <1>6, <1>7, <1>11, <1>12 DEF i, reads

(* What is added to the trace. *)
LEMMA StepIsShown ==
  ASSUME DiscoveryTypes, Carried, pc = "completed"
  PROVE  FromShown(StepRaw) /\ StepRaw.on \in Snapshots
<1>1. /\ StepRaw.action = chosen.action /\ StepRaw.output = chosen.output /\ StepRaw.on = snap
      /\ StepRaw.evidenced =
           (Reads(chosen) /\ Evidenced(Site[snap.url].route, Site[snap.body].headings))
  BY Zenon DEF StepRaw
<1>2. Reads(chosen) <=> chosen.output # Missing
  BY DEF Carried, Acting
<1>3. ASSUME chosen.action = "READ"
      PROVE  \E k \in DOMAIN Shown[snap.body] :
               /\ StepRaw.target = SemanticTarget(Shown[snap.body][k])
               /\ StepRaw.matches = IdentityMatches(Shown[snap.body], StepRaw.target)
  <2>1. ~Navigates /\ chosen.ref \in DOMAIN Elements
    BY <1>3 DEF Carried, Acting, Navigates
  <2>2. ElementAt(Elements, chosen.ref) = Elements[chosen.ref] /\ Elements = Shown[snap.body]
    BY <2>1 DEF ElementAt, Elements
  <2>3. /\ StepRaw.target = SemanticTarget(ElementAt(Elements, chosen.ref))
        /\ StepRaw.matches = IdentityMatches(Elements, SemanticTarget(ElementAt(Elements, chosen.ref)))
    BY <2>1 DEF StepRaw
  <2> QED
    BY <2>1, <2>2, <2>3
<1> QED
  BY <1>1, <1>2, <1>3 DEF FromShown, Reads, DiscoveryTypes

------------------------------------------------------------------------------
(* A goal that is reached *)

GoalProof ==
  \E i \in DOMAIN steps :
    LET s == steps[i]
    IN  /\ s.output = Balance /\ result.output = s.text
        /\ \A j \in DOMAIN steps : steps[j].output = Balance => j = i
        /\ Evidenced(Site[s.on.url].route, Site[s.on.body].headings)
        /\ \E k \in DOMAIN Shown[s.on.body] :
             LET e == Shown[s.on.body][k]
             IN  /\ e.role = "cell" /\ RowLabel(e.context) = "Savings"
                 /\ Found(Shown[s.on.body], SemanticTarget(e)) = {k}

(* Only an answer that the verifier confirms reaches the goal. *)
LEMMA GoalReached ==
  ASSUME DiscoveryTypes, [Next]_vars, result'.reason = "GOAL_REACHED"
  PROVE  \/ result' = result
         \/ /\ Reply /\ Satisfied(steps) /\ pc' = "terminal" /\ result'.code = "GOAL_VERIFIED"
            /\ result'.output = steps[FirstOf(ReadsOf(steps, Balance))].text
<1> USE DEF Goto, Stop, StopWith, EvidenceError, SurfaceError, Raise, NoResult
<1>1. CASE BeginEvidence \/ StopAtHead \/ BeginStep \/ ObserveFails
  BY <1>1 DEF BeginEvidence, StopAtHead, BeginStep, ObserveFails
<1>2. CASE Observe
  BY <1>2 DEF Observe
<1>3. CASE Ask \/ ProviderFails
  BY <1>3 DEF Ask, ProviderFails, Recorded
<1>4. CASE Reply
  <2>1. PICK answer \in Answers, o \in {stepIndex - 1, stepIndex} :
          LET wire == Echoing(answer, o)
              code == Validate(wire, stepIndex, Elements, steps)
          IN  Recorded(IF code = "VALID" THEN Accepted(wire) ELSE Refused(code))
    BY <1>4 DEF Reply
  <2> DEFINE wire == Echoing(answer, o)
             code == Validate(wire, stepIndex, Elements, steps)
  <2> HIDE DEF wire, code
  <2>2. CASE EvidenceError
    BY <2>2
  <2>3. CASE code = "VALID" /\ Accepted(wire)
    <3>1. CASE wire.kind = "FINISH"
      <4>1. Satisfied(steps)
        BY <2>3, <3>1, ValidFinish DEF code
      <4>2. /\ result' = result
            \/ /\ pc' = "terminal" /\ result'.code = "GOAL_VERIFIED"
               /\ result'.output = steps[FirstOf(ReadsOf(steps, Balance))].text
        BY <2>3, <3>1 DEF Accepted
      <4> QED
        BY <1>4, <4>1, <4>2
    <3>2. CASE wire.kind # "FINISH"
      BY <2>3, <3>2 DEF Accepted
    <3> QED
      BY <3>1, <3>2
  <2>4. CASE Refused(code)
    BY <2>4 DEF Refused
  <2> QED
    BY <2>1, <2>2, <2>3, <2>4 DEF Recorded, wire, code
<1>5. CASE Gate
  <2>1. \/ Goto("dispatch") \/ Goto("locate") \/ EvidenceError
        \/ Stop("BLOCKED_BY_POLICY", "POLICY_DENIED")
        \/ Stop("BLOCKED_BY_POLICY", "INTERVENTION_REQUIRED")
    BY <1>5 DEF Gate
  <2> QED
    BY <2>1
<1>6. CASE Locate \/ Dispatch \/ Operate
  BY <1>6 DEF Locate, Dispatch, Operate
<1>7. CASE Completed \/ Failed
  BY <1>7 DEF Completed, Failed
<1>8. CASE Terminal \/ End
  <2>1. result' = result \/ result' = [NoResult EXCEPT !.reason = "DEAD_END", !.code = "EVIDENCE_ERROR"]
    BY <1>8 DEF Terminal, End
  <2>2. [NoResult EXCEPT !.reason = "DEAD_END", !.code = "EVIDENCE_ERROR"].reason = "DEAD_END"
    OBVIOUS
  <2> QED
    BY <2>1, <2>2
<1>9. CASE PageMoves \/ Deadline \/ UNCHANGED vars
  BY <1>9 DEF PageMoves, Deadline, vars
<1> QED
  BY <1>1, <1>2, <1>3, <1>4, <1>5, <1>6, <1>7, <1>8, <1>9 DEF Next, Run

LEMMA VerifiedStep ==
  ASSUME DiscoveryTypes, Carried, Recording, Verified, [Next]_vars
  PROVE  Verified'
<1>1. \A i \in DOMAIN steps' : FromShown(steps'[i]) /\ steps'[i].on \in Snapshots
  <2>1. CASE steps' = steps
    BY <2>1 DEF Verified
  <2>2. CASE Completed /\ steps' = Append(steps, StepRaw)
    <3>1. pc = "completed"
      BY <2>2 DEF Completed
    <3>2. FromShown(StepRaw) /\ StepRaw.on \in Snapshots
      BY <3>1, StepIsShown
    <3>3. \A i \in DOMAIN steps' : (i \in DOMAIN steps /\ steps'[i] = steps[i]) \/ steps'[i] = StepRaw
      BY <2>2, <3>1, TracedAdded
    <3> QED
      BY <3>2, <3>3 DEF Verified
  <2> QED
    BY <2>1, <2>2, Steady DEF Completed
<1>2. ASSUME result'.reason = "GOAL_REACHED" PROVE GoalProof'
  <2>1. CASE Reply /\ Satisfied(steps)
             /\ result'.output = steps[FirstOf(ReadsOf(steps, Balance))].text
    <3>1. steps' = steps
      BY <2>1 DEF Reply
    <3> QED
      BY <2>1, <3>1, SatisfiedIsVerified DEF GoalProof, Verified
  <2>2. CASE result' = result
    <3>1. pc \in Over /\ GoalProof
      BY <1>2, <2>2 DEF DiscoveryTypes, NoResult, Verified, GoalIsVerified, GoalProof
    <3>2. steps' = steps
      BY <3>1, Steady DEF Completed, Over
    <3> QED
      BY <2>2, <3>1, <3>2 DEF GoalProof
  <2> QED
    BY <1>2, <2>1, <2>2, GoalReached
<1>3. ASSUME result'.reason = "GOAL_REACHED", pc' \in {"end", "done"}
      PROVE  LastIs("DISCOVERY_ENDED")'
  <2>1. result' = result /\ pc \in Over /\ pc # "begin" /\ Unbroken'
    <3>1. result' = result
      BY <1>3, GoalReached
    <3>2. pc \in Over /\ result.code = "GOAL_VERIFIED"
      BY <1>3, <3>1 DEF DiscoveryTypes, NoResult, Verified
    <3> QED
      BY <1>3, <3>1, <3>2 DEF Unbroken, Over
  <2>2. Noted \/ (Silent /\ log' = log)
    BY <2>1, Ledger
  <2>3. CASE Terminal /\ Added("DISCOVERY_ENDED", NoStep)
    BY <2>3 DEF Added, LastIs
  <2>4. CASE log' = log /\ pc \in {"end", "done"}
    BY <1>3, <2>1, <2>4 DEF Verified, LastIs
  <2>5. Noted => Terminal /\ Added("DISCOVERY_ENDED", NoStep)
    BY <2>1 DEF Noted, Over, Observe, ProviderFails, Reply, Gate, Dispatch, Completed, Failed
  <2>6. Silent => pc \in {"end", "done"}
    BY <1>3, <2>1 DEF Silent, Over, StopAtHead, BeginStep, ObserveFails, Ask, Locate, Operate, End,
                      PageMoves, Deadline, vars
  <2> QED
    BY <2>2, <2>3, <2>4, <2>5, <2>6
<1>4. result'.reason = "GOAL_REACHED" => result'.code = "GOAL_VERIFIED"
  BY GoalReached DEF Verified
<1>5. GoalIsVerified'
  <2>1. ASSUME result'.reason = "GOAL_REACHED", pc' = "done"
        PROVE  log' # <<>> /\ log'[Len(log')].type = "DISCOVERY_ENDED"
    BY <1>3, <2>1 DEF LastIs
  <2>2. ASSUME result'.reason = "GOAL_REACHED" PROVE GoalProof'
    BY <1>2, <2>2
  <2> QED
    BY <2>1, <2>2, Zenon DEF GoalIsVerified, GoalProof
<1> QED
  BY <1>1, <1>3, <1>4, <1>5 DEF Verified

------------------------------------------------------------------------------
(* The invariant *)

LEMMA DiscoveryInit == Init => DiscoveryInv
<1> SUFFICES ASSUME Init PROVE DiscoveryInv
  OBVIOUS
<1> USE DEF Init
<1>1. IsSeq(steps) /\ steps = <<>> /\ DOMAIN steps = {} /\ observed = <<>>
  BY EmptyIsSeq
<1>2. DiscoveryTypes
  <2>1. page \in Pages /\ snap \in Snapshots
    BY StartAssumption DEF Snapshots
  <2>2. observed \in Seq(Snapshots)
    BY <1>1, EmptySeq
  <2> QED
    BY <1>1, <2>1, <2>2 DEF DiscoveryTypes, Labels, Over
<1>3. Carried
  BY DEF Carried, Acting
<1>4. Recording
  BY DEF Recording, Unbroken
<1>5. Late /\ Spent
  BY DEF Late, Spent, Deciding
<1>6. Streak
  BY LimitsAssumption DEF Streak, NoResult, Acting, Over
<1>7. Called
  BY DEF Called, Unbroken
<1>8. Trace
  BY <1>1 DEF Trace, Unbroken
<1>9. Verified
  BY <1>1 DEF Verified, GoalIsVerified, NoResult
<1> QED
  BY <1>2, <1>3, <1>4, <1>5, <1>6, <1>7, <1>8, <1>9 DEF DiscoveryInv

LEMMA TraceParts == Trace <=> TraceOrder /\ (Unbroken => TraceLogged)
BY DEF Trace, TraceOrder, TraceLogged

LEMMA DiscoveryStep ==
  ASSUME DiscoveryInv, [Next]_vars
  PROVE  DiscoveryInv'
<1> USE DEF DiscoveryInv
<1>1. DiscoveryTypes' /\ Carried' /\ Recording'
  BY TypesStep, CarriedStep, RecordingStep
<1>2. Late' /\ Spent' /\ Streak'
  BY LateStep, SpentStep, StreakStep
<1>3. Called' /\ Verified'
  BY CalledStep, VerifiedStep
<1>4. Trace'
  <2>1. TraceOrder /\ (Unbroken => TraceLogged)
    BY TraceParts
  <2>2. TraceOrder'
    BY <2>1, TraceOrderStep
  <2>3. Unbroken' => TraceLogged'
    BY <2>1, TraceLoggedStep
  <2> QED
    BY <2>2, <2>3 DEF Trace, TraceOrder, TraceLogged
<1> QED
  BY <1>1, <1>2, <1>3, <1>4

LEMMA DiscoveryInductive == Spec => []DiscoveryInv
<1>1. DiscoveryInv /\ [Next]_vars => DiscoveryInv'
  BY DiscoveryStep
<1> QED
  BY <1>1, DiscoveryInit, PTL DEF Spec

------------------------------------------------------------------------------
(* What a cell shows, and what a READ of it returns *)

(* A set of positions up to n, and how its members are counted. *)
LEMMA CountBefore ==
  ASSUME NEW n \in Nat, NEW S \in SUBSET (1..n)
  PROVE  /\ IsFiniteSet(S) /\ Cardinality(S) \in Nat
         /\ \A i \in S : Before(S, i) \in 0..(Cardinality(S) - 1)
         /\ \A i, j \in S : i < j => Before(S, i) < Before(S, j)
<1>1. IsFiniteSet(1..n)
  BY FS_Interval
<1>2. ASSUME NEW T \in SUBSET (1..n) PROVE IsFiniteSet(T) /\ Cardinality(T) \in Nat
  BY <1>1, FS_Subset, FS_CardinalityType
<1>3. IsFiniteSet(S) /\ Cardinality(S) \in Nat
  BY <1>2
<1>4. ASSUME NEW T, T \subseteq 1..n, NEW i \in S, {j \in S : j < i} \cup {i} \subseteq T
      PROVE  Before(S, i) \in Nat /\ Before(S, i) + 1 <= Cardinality(T)
  <2> DEFINE B == {j \in S : j < i}
  <2>1. IsFiniteSet(B) /\ Cardinality(B) \in Nat
    <3>1. B \in SUBSET (1..n)
      OBVIOUS
    <3> QED
      BY <1>2, <3>1
  <2>2. i \notin B
    OBVIOUS
  <2>3. B \cup {i} \in SUBSET T
    BY <1>4
  <2>4. Before(S, i) = Cardinality(B)
    BY DEF Before
  <2> HIDE DEF B
  <2>5. IsFiniteSet(T)
    BY <1>2, <1>4
  <2>6. Cardinality(B \cup {i}) = Cardinality(B) + 1
    BY <2>1, <2>2, FS_AddElement
  <2>7. Cardinality(B \cup {i}) <= Cardinality(T)
    BY <2>3, <2>5, FS_Subset
  <2> QED
    BY <2>1, <2>4, <2>6, <2>7
<1>5. ASSUME NEW i \in S PROVE Before(S, i) \in 0..(Cardinality(S) - 1)
  <2>1. {j \in S : j < i} \cup {i} \subseteq S /\ S \subseteq 1..n
    OBVIOUS
  <2>2. Before(S, i) \in Nat /\ Before(S, i) + 1 <= Cardinality(S)
    BY <1>4, <2>1
  <2> QED
    BY <1>3, <2>2
<1>6. ASSUME NEW i \in S, NEW j \in S, i < j PROVE Before(S, i) < Before(S, j)
  <2> DEFINE T == {k \in S : k < j}
  <2>1. T \subseteq 1..n
    OBVIOUS
  <2>2. \A k \in S : k < i => k < j
    BY <1>6
  <2>3. {k \in S : k < i} \cup {i} \subseteq T
    BY <1>6, <2>2
  <2>4. Before(S, i) \in Nat /\ Before(S, i) + 1 <= Cardinality(T)
    <3> HIDE DEF T
    <3> QED
      BY <1>4, <2>1, <2>3
  <2>5. Before(S, j) = Cardinality(T) /\ Before(S, j) \in Int
    BY <1>5, <1>3 DEF Before
  <2> QED
    BY <2>4, <2>5
<1> QED
  BY <1>3, <1>5, <1>6

(* The k-th member of a set of positions is one of them. *)
LEMMA NthIsMember ==
  ASSUME NEW n \in Nat, NEW S \in SUBSET (1..n), NEW k \in 1..Cardinality(S)
  PROVE  Nth(S, k) \in S
<1> DEFINE c == Cardinality(S)
           rank == [i \in S |-> Before(S, i) + 1]
<1>1. /\ IsFiniteSet(S) /\ c \in Nat
      /\ \A i \in S : Before(S, i) \in 0..(c - 1)
      /\ \A i, j \in S : i < j => Before(S, i) < Before(S, j)
  BY CountBefore
<1>2. \A i, j \in S : Before(S, i) = Before(S, j) => i = j
  <2>1. \A i, j \in S : i < j \/ j < i \/ i = j
    OBVIOUS
  <2>2. \A i \in S : Before(S, i) \in Int
    BY <1>1
  <2> QED
    BY <1>1, <2>1, <2>2
<1>3. rank \in Injection(S, 1..c)
  BY <1>1, <1>2 DEF Injection, IsInjective
<1>4. rank \in Surjection(S, 1..c)
  <2>1. IsFiniteSet(1..c) /\ Cardinality(1..c) = c
    BY <1>1, FS_Interval
  <2> HIDE DEF rank
  <2> QED
    BY <1>3, <2>1, FS_Injection
<1>5. \A m \in 1..c : \E i \in S : rank[i] = m
  BY <1>4 DEF Surjection
<1>6. PICK i \in S : Before(S, i) + 1 = k
  BY <1>5
<1>7. Before(S, i) = k - 1
  BY <1>1, <1>6
<1> QED
  BY <1>7 DEF Nth

(* An element has the role, name and value of a node of its tree. *)
LEMMA ElementOfNode ==
  ASSUME NEW p \in Pages, NEW k \in DOMAIN Shown[p]
  PROVE  \E i \in DOMAIN Site[p].tree :
           /\ Shown[p][k].role = Site[p].tree[i].role /\ Shown[p][k].name = Site[p].tree[i].name
           /\ Shown[p][k].value = ValueFor(Site[p].tree[i])
<1> DEFINE tree == Site[p].tree
           i == Nth(ListedIn(tree), k)
<1>1. PICK n \in Nat : DOMAIN tree = 1..n
  BY TreesAssumption DEF Trees
<1>2. ListedIn(tree) \in SUBSET (1..n)
  BY <1>1 DEF ListedIn
<1>3. /\ k \in 1..Cardinality(ListedIn(tree))
      /\ Shown[p][k] = [role |-> tree[i].role, name |-> tree[i].name, value |-> ValueFor(tree[i]),
                        enabled |-> tree[i].enabled, context |-> ContextHint(tree, i), at |-> i]
  BY DEF Shown, ElementsOf
<1>4. i \in ListedIn(tree)
  BY <1>1, <1>2, <1>3, NthIsMember
<1>5. i \in DOMAIN tree
  BY <1>4 DEF ListedIn
<1> HIDE DEF i, tree
<1>6. /\ Shown[p][k].role = tree[i].role /\ Shown[p][k].name = tree[i].name
      /\ Shown[p][k].value = ValueFor(tree[i])
  BY <1>3
<1> QED
  BY <1>5, <1>6 DEF tree

(* A cell that can be read shows its name. *)
LEMMA CellShowsName ==
  ASSUME CellsAreText, NEW p \in Pages, NEW k \in DOMAIN Shown[p], Shown[p][k].role = "cell"
  PROVE  Shown[p][k].value = Shown[p][k].name
<1>1. PICK i \in DOMAIN Site[p].tree :
        /\ Shown[p][k].role = Site[p].tree[i].role /\ Shown[p][k].name = Site[p].tree[i].name
        /\ Shown[p][k].value = ValueFor(Site[p].tree[i])
  BY ElementOfNode
<1>2. Site[p].tree[i].text \in {NoText, Site[p].tree[i].name}
  BY <1>1 DEF CellsAreText
<1> QED
  BY <1>1, <1>2 DEF ValueFor, ContentRoles

(* The decision being carried out reads something, ... *)
Readable ==
  pc \in Acting /\ Reads(chosen) =>
    Elements[chosen.ref].value # NoText \/ Elements[chosen.ref].name # NoText

(* ... and what a cell has returned is what the snapshot showed for it.    *)
ReadAsShown ==
  pc = "completed" /\ Reads(chosen) /\ Elements[chosen.ref].role = "cell" =>
    readText = Elements[chosen.ref].value

(* The reads of cells the trace keeps. *)
TextShown(s) ==
  s.action = "READ" /\ s.target.role = "cell" =>
    \E k \in DOMAIN Shown[s.on.body] :
      s.target = SemanticTarget(Shown[s.on.body][k]) /\ Shown[s.on.body][k].value = s.text

(* The READ the goal was reached by. *)
GoalRead ==
  result.reason = "GOAL_REACHED" =>
    \E i \in DOMAIN steps :
      /\ steps[i].action = "READ" /\ steps[i].output = Balance
      /\ steps[i].target.role = "cell" /\ RowLabel(steps[i].target.context) = "Savings"
      /\ result.output = steps[i].text

TextInv == Readable /\ ReadAsShown /\ (\A i \in DOMAIN steps : TextShown(steps[i])) /\ GoalRead

LEMMA ValidRead ==
  ASSUME NEW wire, NEW o, NEW elements, NEW trace, wire.kind = "ACT", Reads(wire),
         Validate(wire, o, elements, trace) = "VALID"
  PROVE  elements[wire.ref].value # NoText \/ elements[wire.ref].name # NoText
<1> DEFINE checks == TargetedChecks(wire, elements, trace)
           e == ElementAt(elements, wire.ref)
<1>1. Verdict(checks) = "VALID"
  BY DEF Validate, Reads
<1>2. /\ DOMAIN checks = 1..8 /\ 8 \in Nat
      /\ \A i \in 1..8 : checks[i][2] # "VALID"
  BY DEF TargetedChecks
<1>3. checks[5][1] = IllegalTarget(wire.action, e)
  BY Zenon DEF TargetedChecks
<1> HIDE DEF checks
<1>4. ~checks[5][1]
  <2>1. \A i \in 1..8 : ~checks[i][1]
    BY <1>1, <1>2, VerdictSays
  <2> QED
    BY <2>1
<1>5. ~(e.value = NoText /\ e.name = NoText)
  BY <1>3, <1>4 DEF IllegalTarget, Reads
<1>6. e = elements[wire.ref]
  BY <1>5 DEF ElementAt, NoElement
<1> QED
  BY <1>5, <1>6

LEMMA ReadableStep ==
  ASSUME DiscoveryTypes, Readable, [Next]_vars
  PROVE  Readable'
<1> USE DEF Acting, Goto, Stop, StopWith, EvidenceError, SurfaceError, Raise
<1>1. CASE Reply
  <2>1. PICK answer \in Answers, o \in {stepIndex - 1, stepIndex} :
          LET wire == Echoing(answer, o)
              code == Validate(wire, stepIndex, Elements, steps)
          IN  Recorded(IF code = "VALID" THEN Accepted(wire) ELSE Refused(code))
    BY <1>1 DEF Reply
  <2> DEFINE wire == Echoing(answer, o)
  <2> HIDE DEF wire
  <2>2. Elements' = Elements
    BY <1>1 DEF Reply, Elements, Shown
  <2>3. CASE EvidenceError
    BY <2>3 DEF Readable
  <2>4. CASE Validate(wire, stepIndex, Elements, steps) = "VALID" /\ Accepted(wire)
    <3>1. CASE pc' \in Acting /\ Reads(chosen')
      <4>1. wire.kind = "ACT" /\ chosen' = wire
        BY <2>4, <3>1 DEF Accepted
      <4>2. Elements[wire.ref].value # NoText \/ Elements[wire.ref].name # NoText
        BY <2>4, <3>1, <4>1, ValidRead
      <4> QED
        BY <2>2, <4>1, <4>2 DEF Readable
    <3>2. CASE ~(pc' \in Acting /\ Reads(chosen'))
      BY <3>2 DEF Readable, Reads
    <3> QED
      BY <3>1, <3>2
  <2>5. CASE \E code : Refused(code)
    BY <2>5 DEF Refused, Readable
  <2> QED
    BY <2>1, <2>3, <2>4, <2>5 DEF Recorded, wire
<1>2. CASE ~Reply
  <2>1. pc' \in Acting => pc \in Acting /\ ~Observe
    <3>1. CASE BeginEvidence \/ StopAtHead \/ BeginStep \/ Observe \/ ObserveFails
      BY <3>1 DEF BeginEvidence, StopAtHead, BeginStep, Observe, ObserveFails
    <3>2. CASE Ask \/ ProviderFails
      BY <3>2 DEF Ask, ProviderFails, Recorded
    <3>3. CASE Gate \/ Locate \/ Dispatch \/ Operate \/ Completed \/ Failed
      BY <3>3 DEF Gate, Locate, Dispatch, Operate, Completed, Failed, Observe
    <3>4. CASE Terminal \/ End
      BY <3>4 DEF Terminal, End
    <3>5. CASE PageMoves \/ Deadline \/ UNCHANGED vars
      BY <3>5 DEF PageMoves, Deadline, vars, Observe
    <3> QED
      BY <1>2, <3>1, <3>2, <3>3, <3>4, <3>5 DEF Next, Run
  <2>2. CASE pc' \in Acting
    <3>1. chosen' = chosen /\ snap' = snap
      BY <1>2, <2>1, <2>2, Steady
    <3>2. Elements' = Elements
      BY <3>1 DEF Elements, Shown
    <3> QED
      BY <2>1, <2>2, <3>1, <3>2 DEF Readable, Reads
  <2> QED
    BY <2>2 DEF Readable
<1> QED
  BY <1>1, <1>2

(* However the page has moved, the node a cell's recipe leads to has the   *)
(* cell's name, and so its text.                                           *)
LEMMA SameCellRead ==
  ASSUME CellsAreText, DiscoveryTypes, Carried, Readable, pc = "operate", Reads(chosen),
         Elements[chosen.ref].role = "cell", LiveTarget # {}
  PROVE  TextOf(Site[page].tree[FirstOf(LiveTarget)]) = Elements[chosen.ref].value
<1> DEFINE e == Elements[chosen.ref]
           tree == Site[page].tree
           i == FirstOf(LiveTarget)
<1>1. chosen.ref \in DOMAIN Elements /\ snap.body \in Pages /\ page \in Pages
  BY DEF Carried, Acting, Navigates, Reads, DiscoveryTypes, Snapshots
<1>2. e.value = e.name
  BY <1>1, CellShowsName DEF Elements
<1>3. e.name # NoText
  BY <1>2 DEF Readable, Acting
<1>4. i \in LiveTarget
  <2>1. PICK n \in Nat : DOMAIN tree = 1..n
    BY <1>1, TreesAssumption DEF Trees
  <2>2. LiveTarget \in SUBSET (1..n)
    BY <2>1 DEF LiveTarget, Relocated
  <2> QED
    BY <2>2, FirstIsMember
<1> HIDE DEF e, i
<1>5. RecipeOf(Elements, chosen.ref).role = e.role /\ RecipeOf(Elements, chosen.ref).name = e.name
  BY DEF RecipeOf, e
<1>6. i \in DOMAIN tree /\ tree[i].role = "cell" /\ tree[i].name = e.name
  <2>1. i \in DOMAIN tree /\ Alike(e.role, e.name, tree[i])
    BY <1>4, <1>5 DEF LiveTarget, Relocated
  <2> QED
    BY <1>3, <2>1 DEF Alike, e
<1>7. tree[i].text \in {NoText, e.name}
  BY <1>1, <1>6 DEF CellsAreText
<1>8. TextOf(tree[i]) = e.name
  BY <1>6, <1>7 DEF TextOf, FillRoles
<1> QED
  BY <1>2, <1>8 DEF e, i

LEMMA ReadAsShownStep ==
  ASSUME CellsAreText, DiscoveryTypes, Carried, Readable, ReadAsShown, [Next]_vars
  PROVE  ReadAsShown'
<1> SUFFICES ASSUME pc' = "completed", Reads(chosen'), Elements'[chosen'.ref].role = "cell"
             PROVE  readText' = Elements'[chosen'.ref].value
  BY DEF ReadAsShown, Reads
<1> USE DEF Goto, Stop, StopWith, EvidenceError, SurfaceError, Raise
<1>1. CASE Operate
  <2>1. chosen' = chosen /\ snap' = snap /\ pc = "operate"
    BY <1>1 DEF Operate
  <2>2. Elements' = Elements
    BY <2>1 DEF Elements, Shown
  <2>3. LiveTarget # {} /\ readText' = TextOf(Site[page].tree[FirstOf(LiveTarget)])
    BY <1>1, <2>1 DEF Operate, Navigates, Reads
  <2> QED
    BY <2>1, <2>2, <2>3, SameCellRead DEF Reads
<1>2. CASE ~Operate
  <2>1. pc = "completed" /\ UNCHANGED <<snap, chosen, readText>>
    <3>1. CASE BeginEvidence \/ StopAtHead \/ BeginStep \/ Observe \/ ObserveFails
      BY <3>1 DEF BeginEvidence, StopAtHead, BeginStep, Observe, ObserveFails
    <3>2. CASE Ask \/ ProviderFails
      BY <3>2 DEF Ask, ProviderFails, Recorded
    <3>3. CASE Reply
      BY <3>3, ReplyEnds DEF InDriver
    <3>4. CASE Gate \/ Locate \/ Dispatch \/ Completed \/ Failed
      BY <3>4 DEF Gate, Locate, Dispatch, Completed, Failed
    <3>5. CASE Terminal \/ End
      BY <3>5 DEF Terminal, End
    <3>6. CASE PageMoves \/ Deadline \/ UNCHANGED vars
      BY <3>6 DEF PageMoves, Deadline, vars, stepVars
    <3> QED
      BY <1>2, <3>1, <3>2, <3>3, <3>4, <3>5, <3>6 DEF Next, Run
  <2>2. Elements' = Elements
    BY <2>1 DEF Elements, Shown
  <2> QED
    BY <2>1, <2>2 DEF ReadAsShown, Reads
<1> QED
  BY <1>1, <1>2

(* A READ of a cell is traced with what the snapshot showed. *)
LEMMA TextShownStep ==
  ASSUME DiscoveryTypes, Carried, ReadAsShown, \A i \in DOMAIN steps : TextShown(steps[i]),
         [Next]_vars
  PROVE  \A i \in DOMAIN steps' : TextShown(steps'[i])
<1>1. CASE steps' = steps
  BY <1>1
<1>2. CASE Completed /\ steps' = Append(steps, StepRaw)
  <2>1. pc = "completed"
    BY <1>2 DEF Completed
  <2>2. TextShown(StepRaw)
    <3>1. /\ StepRaw.action = chosen.action /\ StepRaw.on = snap /\ StepRaw.text = readText
      BY Zenon DEF StepRaw
    <3>2. CASE chosen.action = "READ" /\ StepRaw.target.role = "cell"
      <4>1. ~Navigates /\ chosen.ref \in DOMAIN Elements
        BY <2>1, <3>2 DEF Carried, Acting, Navigates
      <4>2. StepRaw.target = SemanticTarget(Elements[chosen.ref])
        <5>1. ElementAt(Elements, chosen.ref) = Elements[chosen.ref]
          BY <4>1 DEF ElementAt
        <5>2. StepRaw.target = SemanticTarget(ElementAt(Elements, chosen.ref))
          BY <4>1 DEF StepRaw
        <5> QED
          BY <5>1, <5>2
      <4>3. Elements[chosen.ref].role = "cell"
        BY <3>2, <4>2 DEF SemanticTarget
      <4>4. readText = Elements[chosen.ref].value
        BY <2>1, <3>2, <4>3 DEF ReadAsShown, Reads
      <4> QED
        BY <3>1, <4>1, <4>2, <4>4 DEF TextShown, Elements
    <3> QED
      BY <3>1, <3>2 DEF TextShown
  <2>3. \A i \in DOMAIN steps' : (i \in DOMAIN steps /\ steps'[i] = steps[i]) \/ steps'[i] = StepRaw
    BY <1>2, <2>1, TracedAdded
  <2> QED
    BY <2>2, <2>3
<1> QED
  BY <1>1, <1>2, Steady DEF Completed

LEMMA GoalReadStep ==
  ASSUME DiscoveryTypes, GoalRead, [Next]_vars
  PROVE  GoalRead'
<1> SUFFICES ASSUME result'.reason = "GOAL_REACHED" PROVE GoalRead'
  BY DEF GoalRead
<1>1. CASE Reply /\ Satisfied(steps)
           /\ result'.output = steps[FirstOf(ReadsOf(steps, Balance))].text
  <2> DEFINE reads == ReadsOf(steps, Balance)
             i == FirstOf(reads)
  <2>1. DOMAIN steps = 1..Len(steps) /\ Len(steps) \in Nat
    BY AnySeq DEF DiscoveryTypes
  <2>2. reads \in SUBSET (1..Len(steps)) /\ IsFiniteSet(1..Len(steps))
    BY <2>1, FS_Interval DEF ReadsOf
  <2>3. reads # {}
    BY <1>1, FS_EmptySet DEF Satisfied
  <2> HIDE DEF reads
  <2>4. i \in reads
    BY <2>1, <2>2, <2>3, FirstIsMember
  <2>5. i \in DOMAIN steps /\ steps[i].action = "READ" /\ steps[i].output = Balance
    BY <2>4 DEF ReadsOf, reads
  <2>6. steps[i].target.role = "cell" /\ RowLabel(steps[i].target.context) = "Savings"
    <3>1. /\ steps[i].target.role = "cell"
          /\ Templated(RowLabel(steps[i].target.context)) = "Savings"
      BY <1>1 DEF Satisfied, reads
    <3> QED
      BY <3>1, TemplatedSavings
  <2>7. result'.output = steps[i].text
    BY <1>1 DEF reads
  <2> HIDE DEF i
  <2>8. steps' = steps
    BY <1>1 DEF Reply
  <2> QED
    BY <2>5, <2>6, <2>7, <2>8 DEF GoalRead
<1>2. CASE result' = result
  <2>1. pc \in Over
    BY <1>2 DEF DiscoveryTypes, NoResult
  <2>2. steps' = steps
    BY <2>1, Steady DEF Completed, Over
  <2> QED
    BY <1>2, <2>2 DEF GoalRead
<1> QED
  BY <1>1, <1>2, GoalReached

LEMMA TextInductive == ASSUME CellsAreText PROVE Spec => []TextInv
<1>1. Init => TextInv
  <2> SUFFICES ASSUME Init PROVE TextInv
    OBVIOUS
  <2>1. DOMAIN steps = {}
    BY EmptyIsSeq DEF Init
  <2> QED
    BY <2>1 DEF Init, TextInv, Readable, ReadAsShown, GoalRead, NoResult, Acting
<1>2. DiscoveryInv /\ TextInv /\ [Next]_vars => TextInv'
  BY ReadableStep, ReadAsShownStep, TextShownStep, GoalReadStep DEF TextInv, DiscoveryInv
<1> QED
  BY <1>1, <1>2, DiscoveryInductive, PTL DEF Spec

------------------------------------------------------------------------------
(* What the runs check, for every site, model and bound *)

(* After the deadline the answer of a call already made is still heard,    *)
(* and the action it leads to is still done; nothing else is               *)
(* (DiscoveryAgent._decide, _act).                                         *)
THEOREM LateIsBounded == Spec => []LateWorkIsBounded
<1>1. DiscoveryInv => LateWorkIsBounded
  BY DEF DiscoveryInv, Late, LateWorkIsBounded
<1> QED
  BY <1>1, DiscoveryInductive, PTL

(* A run is given up as stuck exactly when its last NoProgressLimit        *)
(* actions in a row changed nothing (DiscoveryAgent._check_progress).      *)
THEOREM StuckWhenUnchanged == Spec => []StuckIsUnchanged
<1>1. DiscoveryInv => StuckIsUnchanged
  <2> SUFFICES ASSUME DiscoveryInv PROVE StuckIsUnchanged
    OBVIOUS
  <2> USE DEF DiscoveryInv
  <2>1. /\ Len(observed) \in Nat /\ unchanged \in Nat /\ NoProgressLimit \in Nat \ {0}
        /\ observed # <<>> => Len(observed) > 0
        /\ \A i \in 1..Len(observed) : observed[i] \in Snapshots
    BY EmptySeq, ElementOfSeq, LimitsAssumption DEF DiscoveryTypes
  <2>2. ASSUME result.code = "NO_PROGRESS" PROVE LastAlike(NoProgressLimit + 1)
    <3>1. AlikeSince(observed, unchanged) /\ unchanged >= NoProgressLimit
      BY <2>2 DEF Streak
    <3> QED
      BY <2>1, <3>1 DEF AlikeSince, LastAlike
  <2>3. ASSUME pc \in {"ask", "reply", "gate"}, LastAlike(NoProgressLimit + 1) PROVE FALSE
    <3>1. result.code # "EVIDENCE_ERROR" /\ pc \notin Over
      BY <2>3 DEF DiscoveryTypes, NoResult, Over
    <3>2. observed # <<>> /\ AlikeSince(observed, unchanged) /\ unchanged < NoProgressLimit
      BY <2>3, <3>1 DEF Streak, Over
    <3>3. unchanged + 1 < Len(observed)
      BY <2>1, <2>3, <3>2 DEF LastAlike
    <3>4. ~SameView(observed[Len(observed) - unchanged - 1], observed[Len(observed)])
      BY <3>2, <3>3 DEF AlikeSince
    <3>5. Len(observed) - unchanged - 1 \in
            (Len(observed) - (NoProgressLimit + 1) + 1)..(Len(observed) - 1)
      BY <2>1, <3>2
    <3> QED
      BY <2>3, <3>4, <3>5 DEF LastAlike
  <2> QED
    BY <2>2, <2>3 DEF StuckIsUnchanged
<1> QED
  BY <1>1, DiscoveryInductive, PTL

(* While the evidence holds, the recorder says so too. *)
LEMMA OnRecordIsUnbroken == OnRecord => Unbroken
BY DEF OnRecord, Unbroken

(* Every call of the model has its event before anything follows from it   *)
(* (DiscoveryAgent._decide, _record_model_call).                           *)
THEOREM CallsRecorded == Spec => []CallsOnRecord
<1>1. DiscoveryInv => CallsOnRecord
  <2> SUFFICES ASSUME DiscoveryInv, OnRecord PROVE CallsOnRecord
    BY DEF CallsOnRecord
  <2>1. Unbroken
    BY OnRecordIsUnbroken
  <2>2. calls <= stepIndex + retries /\ retries <= stepIndex
    BY DEF DiscoveryInv, Spent
  <2> QED
    BY <2>1, <2>2 DEF DiscoveryInv, Called, CalledAt, CallsOnRecord
<1> QED
  BY <1>1, DiscoveryInductive, PTL

(* The trace is the log's dispatches and completions, step for step        *)
(* (DiscoveryAgent._act).                                                  *)
THEOREM TraceRecorded == Spec => []TraceIsRecorded
<1>1. DiscoveryInv => TraceIsRecorded
  <2> SUFFICES ASSUME DiscoveryInv, OnRecord PROVE TraceIsRecorded
    BY DEF TraceIsRecorded
  <2>1. Unbroken
    BY OnRecordIsUnbroken
  <2>2. Trace /\ TraceOrder /\ TraceLogged
    BY <2>1, TraceParts DEF DiscoveryInv
  <2>3. pc \in InDriver => stepIndex \notin Traced
    BY <2>2 DEF TraceOrder, Traced, InDriver, Acting
  <2>4. \/ StepsOf("ACTION_DISPATCHED") = Traced
        \/ /\ StepsOf("ACTION_DISPATCHED") = Traced \cup {stepIndex} /\ stepIndex \notin Traced
           /\ pc \in {"operate", "completed", "failed"} \/ result.code = "SURFACE_ERROR"
    BY <2>2, <2>3 DEF TraceLogged, InDriver
  <2> QED
    BY <2>2, <2>4 DEF TraceOrder, TraceLogged, TraceIsRecorded, Traced
<1> QED
  BY <1>1, DiscoveryInductive, PTL

(* GOAL_REACHED is the verifier's word on what the pages showed, and the   *)
(* log of such a run ends with its terminal event (goal.py, validator.py). *)
THEOREM GoalVerified == Spec => []GoalIsVerified
<1>1. DiscoveryInv => GoalIsVerified
  BY DEF DiscoveryInv, Verified
<1> QED
  BY <1>1, DiscoveryInductive, PTL

(* The value the goal was reached with is the one a Savings cell of the    *)
(* snapshot showed, whatever the page did between the snapshot and the     *)
(* READ, as long as a cell holds no text but its name (RecipeOf, TextOf,   *)
(* Satisfied).                                                             *)
THEOREM GoalProven == ASSUME CellsAreText PROVE Spec => []GoalIsProven
<1>1. DiscoveryInv /\ TextInv => GoalIsProven
  <2> SUFFICES ASSUME DiscoveryInv, TextInv PROVE GoalIsProven
    OBVIOUS
  <2>1. GoalIsVerified
    BY DEF DiscoveryInv, Verified
  <2>2. ASSUME result.reason = "GOAL_REACHED"
        PROVE  \E i \in DOMAIN steps :
                 /\ steps[i].output = Balance
                 /\ \E k \in DOMAIN Shown[steps[i].on.body] :
                      LET e == Shown[steps[i].on.body][k]
                      IN  e.value = result.output /\ RowLabel(e.context) = "Savings"
    <3>1. PICK i \in DOMAIN steps :
            /\ steps[i].action = "READ" /\ steps[i].output = Balance
            /\ steps[i].target.role = "cell" /\ RowLabel(steps[i].target.context) = "Savings"
            /\ result.output = steps[i].text
      BY <2>2 DEF TextInv, GoalRead
    <3>2. PICK k \in DOMAIN Shown[steps[i].on.body] :
            /\ steps[i].target = SemanticTarget(Shown[steps[i].on.body][k])
            /\ Shown[steps[i].on.body][k].value = steps[i].text
      BY <3>1 DEF TextInv, TextShown
    <3>3. Shown[steps[i].on.body][k].context = steps[i].target.context
      BY <3>2 DEF SemanticTarget
    <3> QED
      BY <3>1, <3>2, <3>3
  <2> QED
    BY <2>1, <2>2 DEF GoalIsProven
<1> QED
  BY <1>1, DiscoveryInductive, TextInductive, PTL

(* The assertion after on_completed holds: the recorder has counted one    *)
(* dispatch more than the trace has steps.                                 *)
THEOREM DispatchesAgree ==
  Spec => [](OnRecord /\ pc = "completed" => rec.dispatches = Len(steps) + 1)
<1>1. DiscoveryInv => (OnRecord /\ pc = "completed" => rec.dispatches = Len(steps) + 1)
  BY OnRecordIsUnbroken DEF DiscoveryInv, Trace, InDriver, Over
<1> QED
  BY <1>1, DiscoveryInductive, PTL
====
