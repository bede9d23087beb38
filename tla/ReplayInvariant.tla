-------------------------- MODULE ReplayInvariant --------------------------
(***************************************************************************)
(* What is true at every point of a run, call by call: the inductive       *)
(* strengthening behind the theorems of ReplayProofs.                      *)
(***************************************************************************)
EXTENDS ReplayProperties

WithHuman == {"human", "handback", "return"}
InStep    == {"resolve", "gate", "output", "postcondition", "accept"} \cup Acting
             \cup BeforeHuman \cup WithHuman \cup AfterHuman
Concluded == {"terminal", "closing", "ending"}
Attempted == {"completed", "failed", "output", "postcondition"}
NotYetDone == (InStep \ Attempted) \ {"restore"}

(* Where the step counter is. *)
StepPlace == /\ pc \in InStep => step \in StepIds
             /\ pc = "checkpoint" => step = Checkpoint
             /\ pc = "step" => step \in 0..N
             /\ pc \in {"begin", "bind"} => step = 0

(* Who owns control at each call, and what the gate had answered. *)
Ownership ==
  /\ pc \in Acting => /\ owner = "AUTOMATION" /\ ruling.decision = "ALLOW"
                      /\ Plan[step].declared # "IRREVERSIBLE"
  /\ pc \in BeforeHuman => owner = "AUTOMATION"
  /\ pc = "accept"      => owner = "PENDING_HUMAN"
  /\ pc \in WithHuman   => owner = "HUMAN"
  /\ pc \in AfterHuman  => owner = "RETURNING"

Control == StepPlace /\ Ownership /\ IrreversibleNeverAutomated

Undone(i)   == attempts[i] = 0 /\ ~steps[i].byHuman
DoneOnce(i) == \/ attempts[i] = 1 /\ ~steps[i].byHuman
               \/ attempts[i] = 0 /\ steps[i].byHuman

(* The steps behind are done once, those ahead not at all, and the current *)
(* one is as far as pc says.                                               *)
InOrder ==
  /\ \A i \in StepIds : /\ i < step => DoneOnce(i)
                        /\ i > step => Undone(i)
  /\ step \in StepIds =>
       /\ pc \in NotYetDone => Undone(step)
       /\ pc \in Attempted  => attempts[step] = 1 /\ ~steps[step].byHuman
       /\ pc = "restore"    => attempts[step] = 0 /\ steps[step].byHuman
       /\ pc = "step"       => DoneOnce(step)
       /\ Undone(step) \/ DoneOnce(step)

(* A verdict is given at the end, and SUCCESS past the last step. *)
VerdictPlace ==
  /\ result.status = "SUCCESS" => step = Checkpoint
  /\ pc \in Concluded <=> pc # "idle" /\ result.status # "NONE"

Progress == InOrder /\ VerdictPlace

(* The recorder's count against the step records. *)
Counted ==
  /\ pc \in {"locate", "dispatch"} => rec.dispatches = before
  /\ pc \in {"operate", "completed", "failed"} => rec.dispatches = before + 1

Marked(i) == steps[i].dispatched <=> attempts[i] = 1

Marks ==
  /\ \A i \in StepIds : i # step => Marked(i)
  /\ step \in StepIds => IF pc \in {"completed", "failed"} THEN ~steps[step].dispatched
                         ELSE Marked(step)

Truth == Counted /\ Marks

(* The recorder's count against the step records: a dispatch is counted    *)
(* when it is announced and marked when it has completed.                  *)
Underway   == Labels \ (Concluded \cup {"idle", "begin"})
Dispatched == {i \in StepIds : steps[i].dispatched}
Tally ==
  pc \in Underway =>
    rec.dispatches = Cardinality(Dispatched)
                     + IF pc \in {"operate", "completed", "failed"} THEN 1 ELSE 0

------------------------------------------------------------------------------
(* Who may still act: a run that found the owner elsewhere never leaves    *)
(* the gate, and past the first step automation owns control.              *)
PastHandover == \/ pc \in {"output", "postcondition", "checkpoint"}
                \/ pc = "step" /\ step # 0
                \/ result.status = "SUCCESS"
OwnedOnce ==
  /\ pc \in Acting \cup BeforeHuman \cup WithHuman \cup AfterHuman \cup {"accept"}
       => startedAs = "AUTOMATION"
  /\ StuckOwnerBlocks
  /\ PastHandover => owner = "AUTOMATION"

(* Where a step the human performed is known to have been performed.       *)
Remembered ==
  \A i \in humanDid :
    \/ steps[i].byHuman
    \/ i = step /\ pc \in WithHuman \cup AfterHuman
    \/ pc \in {"closing", "ending", "idle"}
    \/ pc = "terminal" /\ (result.status = "FAILURE" => result.retry = "no")

(* What was judged before the driver is called.                            *)
Judged ==
  pc \in {"locate", "dispatch", "operate"} /\ Act.action # "NAVIGATE"
    => RequestRisk(Policy, RequestOn(snap.url)) # "IRREVERSIBLE"

(* READ steps, and only they, have their output recorded.                  *)
Past(i) == i < step \/ (i = step /\ pc = "step")
Outputs ==
  /\ pc = "output" => Act.action = "READ"
  /\ pc \in BeforeHuman \cup WithHuman \cup AfterHuman \cup {"accept", "postcondition"}
       => Act.action # "READ"
  /\ outputs = {i \in StepIds : Past(i) /\ Plan[i].action = "READ"}

------------------------------------------------------------------------------
(* The recorder, seen from the engine: which step it stamps on events, and *)
(* that it fails under way only where the engine takes note of it.         *)
Recording ==
  /\ pc \in Underway =>
       /\ rec.active /\ rec.step = IF step \in StepIds THEN step ELSE NoStep
       /\ rec.failed => handoff.failed /\ pc \in AfterHuman \cup {"return"}
  /\ pc = "restore" => /\ handoff.verdict = "VERIFIED" /\ handoff.kind = "DONE"
                       /\ ~handoff.failed
  /\ result.status = "SUCCESS" /\ pc = "terminal" => rec.active /\ ~rec.failed
  /\ result.status = "SUCCESS" /\ pc = "ending" => rec.terminal

Proven(i) == /\ steps[i].status = "COMPLETED"
             /\ \/ LogHas("ACTION_COMPLETED", i)
                \/ steps[i].byHuman /\ LogHas("INTERVENTION_VERIFIED", i)

(* What is in the file at each call. *)
Lines ==
  /\ pc \in {"operate", "completed", "failed"} => LogHas("ACTION_DISPATCHED", step)
  /\ pc \in {"output", "postcondition"} => LogHas("ACTION_COMPLETED", step)
  /\ pc \in {"escalate", "accept", "human"} => LogHas("INTERVENTION_REQUESTED", step)
  /\ pc = "settle" /\ ~handoff.failed => LogHas("INTERVENTION_VERIFIED", step)
  /\ pc = "restore" => LogHas("INTERVENTION_VERIFIED", step)

Backed == \A i \in StepIds : Past(i) => Proven(i)

Filed == WriteAhead /\ Lines /\ Backed

(* The first line and the last one. *)
Framed ==
  /\ pc \in Underway \/ result.status = "SUCCESS" =>
       log # <<>> /\ log[1].type = "RUN_STARTED"
  /\ result.status = "SUCCESS" /\ pc \in {"ending", "idle"} =>
       log[Len(log)].type = "RUN_COMPLETED"

(* Transfers of control on record for the current step. *)
Transfers == {k \in DOMAIN log : log[k].type = "CONTROL_TRANSFERRED" /\ log[k].step = step}
Asked ==
  /\ pc \in Underway => \A k \in DOMAIN log : log[k].step <= step
  /\ pc \in InStep \ ({"accept"} \cup WithHuman \cup AfterHuman) => Transfers = {}
  /\ pc = "accept" => Cardinality(Transfers) = 1
  /\ pc = "human"  => Cardinality(Transfers) = 2

------------------------------------------------------------------------------
(* The recorder between two runs, and what a failed write has left behind. *)
Early == Underway \ AfterHuman
Sinking ==
  /\ pc \in {"idle", "begin"} => ~rec.active
  /\ pc \in Underway => ~rec.terminal
  /\ sink.buffer # <<>> => rec.active /\ rec.failed /\ Len(sink.buffer) = 1
  /\ pc = "begin" => ~handoff.failed
  /\ pc \in Early /\ handoff.failed => rec.failed

(* No terminal event before the end, and none the result contradicts. *)
Clear(file)  == \A k \in DOMAIN file : file[k].type \notin TerminalTypes
TrueTo(file) == \A k \in DOMAIN file : Told(file[k].type)
LastWord ==
  /\ result.status = "RAISED" => pc \in {"ending", "idle"}
  /\ pc # "begin" => \/ Clear(log) /\ Clear(sink.buffer)
                     \/ pc \in {"ending", "idle"} /\ TrueTo(log) /\ TrueTo(sink.buffer)

(* The owner against the transfers in the file. *)
Transferred(file) == LinesOf(file, "CONTROL_TRANSFERRED")
Abreast == owner = OwnerAfter(OnFile) /\ Transferred(sink.buffer) = {}
Ahead   == /\ owner = OwnerAfter(OnFile + 1)
           /\ rec.failed \/ ~rec.active
           /\ Clear(log) /\ Clear(sink.buffer)
           /\ pc \notin Early
OwnerShown ==
  /\ pc = "begin" => startedAs = owner
  /\ startedAs = "AUTOMATION" /\ pc # "begin" => Abreast \/ Ahead

OnDisk   == Sinking /\ LastWord /\ OwnerShown
Conduct  == OwnedOnce /\ Remembered /\ Judged /\ Outputs
Evidence == Recording /\ Filed /\ Framed /\ Asked
=============================================================================
