-------------------------- MODULE RecorderProtocol --------------------------
(***************************************************************************)
(* EvidenceRecorder under any order of calls its API admits: events and    *)
(* artifacts outside a run, after a failure or after the terminal event, a *)
(* second begin_run, end_run called twice.  ReplayEngine makes the calls   *)
(* in its own order; this module shows what the recorder guarantees to any *)
(* caller, the surface and the gate that notify it included.               *)
(***************************************************************************)
EXTENDS EvidenceRecorder

CONSTANTS Steps,      \* step indexes a caller stamps on events
          EventTypes, \* the events other than dispatches and terminal ones
          MaxSeq      \* bound on the events of one run

ASSUME StepsAssumption  == Steps \subseteq Nat \ {0}
ASSUME TypesAssumption  == EventTypes \cap ({"ACTION_DISPATCHED"} \cup TerminalTypes) = {}
ASSUME MaxSeqAssumption == MaxSeq \in Nat

(* The bound MaxSeq keeps one run's log finite. *)
Room == rec.seq < MaxSeq

Init == rec = NoRun /\ log = <<>> /\ sink = Closed

BeginRun == BeginWritten("RUN_STARTED") \/ BeginFails("RUN_STARTED")
BeginStep == \E s \in Steps : SetStep(s)
ClearStep == SetStep(NoStep)
Emit == Room /\ \E t \in EventTypes : Written(t) \/ NotWritten(t)
OnDispatched == Room /\ (DispatchWritten \/ DispatchNotWritten)
StoreArtifact == ArtifactStored \/ ArtifactRefused
Terminal == Room /\ \E t \in TerminalTypes : TerminalWritten(t) \/ TerminalFails(t)

Next == BeginRun \/ BeginStep \/ ClearStep \/ Emit \/ OnDispatched
        \/ StoreArtifact \/ Terminal \/ EndRun

Spec == Init /\ [][Next]_recorderVars

------------------------------------------------------------------------------
Events == [type : EventTypes \cup TerminalTypes \cup {"ACTION_DISPATCHED", "RUN_STARTED"},
           step : Steps \cup {NoStep},
           seq  : Nat \ {0}]

RecTypeOK ==
  rec \in [active : BOOLEAN, step : Steps \cup {NoStep}, seq : Nat,
           dispatches : Nat, failed : BOOLEAN, terminal : BOOLEAN]

SinkTypeOK == sink \in [open : BOOLEAN, buffer : Seq(Events)] /\ Len(sink.buffer) <= 1

(* The types of the recorder's state, the log and the sink.                *)
TypeOK == RecTypeOK /\ SinkTypeOK /\ log \in Seq(Events)

(* Chronology: whatever calls are made and wherever writes fail, the file  *)
(* holds the events numbered 1, 2, 3... with no gap and no repetition.     *)
Chronology == \A i \in DOMAIN log : log[i].seq = i

(* The terminal event is the last line of its file: nothing follows it,    *)
(* and there is one at most.                                               *)
TerminalIsLast == \A i \in DOMAIN log : log[i].type \in TerminalTypes => i = Len(log)

(* dispatch_count never claims a dispatch the file does not hold, and      *)
(* equals the dispatches in the file while evidence is healthy: the fact   *)
(* the engine decides `dispatched` by.                                     *)
DispatchCountPersisted ==
  rec.active => /\ rec.dispatches <= Count("ACTION_DISPATCHED")
                /\ ~rec.failed => rec.dispatches = Count("ACTION_DISPATCHED")

(* Failure discipline: until the run is released a failed run writes       *)
(* nothing more, and releasing it adds at most the very line whose write   *)
(* had failed.                                                             *)
FailureIsFinal ==
  [][rec.active /\ rec.failed =>
       /\ rec'.active => rec'.failed /\ log' = log
       /\ ~rec'.active => log' \in {log, log \o sink.buffer}]_recorderVars

(* "from then on every further write for that run is refused ... while     *)
(* nothing more is written" (recorder.py, module docstring).  Refuted: the *)
(* close in end_run flushes the line a failed flush left in the buffer.    *)
NothingMoreIsWritten == [][rec.active /\ rec.failed => log' = log]_recorderVars
=============================================================================
