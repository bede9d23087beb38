-------------------------- MODULE EvidenceRecorder --------------------------
(***************************************************************************)
(* The evidence recorder and the JSONL sink behind it                      *)
(* (src/cua/evidence/recorder.py and writer.py).                           *)
(*                                                                         *)
(*   rec   _ActiveRun: whether a run is being recorded, the step stamped   *)
(*         on events, seq, the persisted dispatch count, whether evidence  *)
(*         has failed, whether the terminal event was written              *)
(*   log   the readable events of the current run's events.jsonl           *)
(*   sink  whether the file is open, and the line a failed flush has left  *)
(*         in the file object's buffer (at most one)                       *)
(*                                                                         *)
(* Every call has outcomes the caller cannot choose; each is an operator:  *)
(* Written and NotWritten for an event, and so on.  NotWritten is the      *)
(* caller's view, an EvidenceError; what is on the disk then depends on    *)
(* where the write failed.  A line cut short is not a readable event and   *)
(* counts as absent.                                                       *)
(***************************************************************************)
EXTENDS Integers, Sequences, FiniteSets

VARIABLES rec, log, sink

recorderVars == <<rec, log, sink>>

NoStep == 0

TerminalTypes == {"RUN_COMPLETED", "RUN_FAILED"}

NoRun == [active |-> FALSE, step |-> NoStep, seq |-> 0, dispatches |-> 0,
          failed |-> FALSE, terminal |-> FALSE]

FreshRun == [NoRun EXCEPT !.active = TRUE]

Closed == [open |-> FALSE, buffer |-> <<>>]
Opened == [open |-> TRUE, buffer |-> <<>>]

(* Seeded fault of Stamp: the number the run had before this event.        *)
StampedBeforeCounting(run, type) == [type |-> type, step |-> run.step, seq |-> run.seq]

(* The envelope _emit builds: seq is counted up before the write.          *)
Stamp(run, type) == [type |-> type, step |-> run.step, seq |-> run.seq + 1]

(* The events of one type in a file, and how many the run's file holds.    *)
LinesOf(file, type) == {k \in DOMAIN file : file[k].type = type}
Count(type) == Cardinality(LinesOf(log, type))

------------------------------------------------------------------------------
(* The sink: where a write stops, and what it leaves.                      *)

(* JsonlEvidenceWriter.write raising EvidenceError for event e, over a log  *)
(* that was `before`: refused by the redactor (nothing anywhere), stopped  *)
(* in the flush (the line waits in the buffer), or stopped in the fsync    *)
(* (the line is in the file).                                              *)
WriteFails(before, e) ==
  \/ log' = before            /\ sink' = Opened
  \/ log' = before            /\ sink' = [Opened EXCEPT !.buffer = <<e>>]
  \/ log' = Append(before, e) /\ sink' = Opened

------------------------------------------------------------------------------
(* Events *)

(* Seeded faults of Refuses: one refusal forgotten. *)
IgnoresTerminal == ~rec.active \/ rec.failed
IgnoresFailure  == ~rec.active \/ rec.terminal

(* _emit's three refusals: outside a run, after a failure, after the       *)
(* terminal event.                                                         *)
Refuses == ~rec.active \/ rec.failed \/ rec.terminal

(* _emit: the write succeeded. *)
Written(type) ==
  /\ ~Refuses
  /\ rec' = [rec EXCEPT !.seq = @ + 1]
  /\ log' = Append(log, Stamp(rec, type))
  /\ UNCHANGED sink

(* _emit raises: refused with nothing touched, or the write failed and the *)
(* failure is remembered.                                                  *)
NotWritten(type) ==
  \/ Refuses /\ UNCHANGED recorderVars
  \/ /\ ~Refuses
     /\ rec' = [rec EXCEPT !.seq = @ + 1, !.failed = TRUE]
     /\ WriteFails(log, Stamp(rec, type))

(* Seeded fault of DispatchWritten: the dispatch is not counted.           *)
Uncounted == Written("ACTION_DISPATCHED")

(* on_dispatched: the count moves only once the write succeeded. *)
DispatchWritten ==
  /\ ~Refuses
  /\ rec' = [rec EXCEPT !.seq = @ + 1, !.dispatches = @ + 1]
  /\ log' = Append(log, Stamp(rec, "ACTION_DISPATCHED"))
  /\ UNCHANGED sink

(* Seeded fault of DispatchNotWritten: counted before the write.           *)
CountedThenFailed ==
  \/ Refuses /\ UNCHANGED recorderVars
  \/ /\ ~Refuses
     /\ rec' = [rec EXCEPT !.seq = @ + 1, !.failed = TRUE, !.dispatches = @ + 1]
     /\ WriteFails(log, Stamp(rec, "ACTION_DISPATCHED"))

(* on_dispatched raises, and the driver is never called. *)
DispatchNotWritten == NotWritten("ACTION_DISPATCHED")

------------------------------------------------------------------------------
(* Run lifecycle *)

(* begin_run on an idle recorder: the sink opened and the started event    *)
(* was written.                                                            *)
BeginWritten(started) ==
  /\ ~rec.active
  /\ rec' = [FreshRun EXCEPT !.seq = 1]
  /\ log' = <<Stamp(FreshRun, started)>>
  /\ sink' = Opened

(* begin_run raises: a run is still being recorded, the sink did not open  *)
(* (no run becomes active), or the started event failed (the run stays     *)
(* active with its evidence failed).                                       *)
BeginFails(started) ==
  \/ rec.active /\ UNCHANGED recorderVars
  \/ /\ ~rec.active
     /\ \/ UNCHANGED rec /\ log' = <<>> /\ sink' = Closed
        \/ /\ rec' = [FreshRun EXCEPT !.seq = 1, !.failed = TRUE]
           /\ WriteFails(<<>>, Stamp(FreshRun, started))

(* begin_step, clear_step *)
SetStep(s) ==
  /\ rec.active
  /\ rec' = [rec EXCEPT !.step = s]
  /\ UNCHANGED <<log, sink>>

(* store_artifact: bytes beside the log, the same failure discipline.      *)
ArtifactStored ==
  /\ rec.active /\ ~rec.failed /\ sink.open
  /\ UNCHANGED recorderVars

ArtifactRefused ==
  \/ (~rec.active \/ rec.failed) /\ UNCHANGED recorderVars
  \/ /\ rec.active /\ ~rec.failed
     /\ rec' = [rec EXCEPT !.failed = TRUE]
     /\ UNCHANGED <<log, sink>>

Unstamped == [rec EXCEPT !.step = NoStep]

(* _terminal: the event was written and the sink closed. *)
TerminalWritten(type) ==
  /\ ~Refuses
  /\ rec' = [Unstamped EXCEPT !.seq = @ + 1, !.terminal = TRUE]
  /\ log' = Append(log, Stamp(Unstamped, type))
  /\ sink' = Closed

(* _terminal raises: refused; the write failed; or the event was written   *)
(* and closing the file failed.                                            *)
TerminalFails(type) ==
  \/ rec.active /\ Refuses /\ rec' = Unstamped /\ UNCHANGED <<log, sink>>
  \/ /\ ~Refuses
     /\ rec' = [Unstamped EXCEPT !.seq = @ + 1, !.failed = TRUE]
     /\ WriteFails(log, Stamp(Unstamped, type))
  \/ /\ ~Refuses
     /\ rec' = [Unstamped EXCEPT !.seq = @ + 1, !.failed = TRUE, !.terminal = TRUE]
     /\ log' = Append(log, Stamp(Unstamped, type))
     /\ sink' = Closed

(* end_run: idempotent; releases the run and closes the sink unless the    *)
(* terminal event did.  The close flushes once more what a failed flush    *)
(* left in the buffer; a close that fails is swallowed.                    *)
EndRun ==
  IF ~rec.active THEN UNCHANGED recorderVars
  ELSE /\ rec' = NoRun
       /\ sink' = Closed
       /\ \/ log' = log
          \/ ~rec.terminal /\ log' = log \o sink.buffer
=============================================================================
