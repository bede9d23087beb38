--------------------------- MODULE RecorderProofs ---------------------------
(***************************************************************************)
(* Proofs about the evidence recorder, for every caller, every vocabulary  *)
(* of events and every length of a run.                                    *)
(***************************************************************************)
EXTENDS RecorderProtocol, SequenceTheorems, FiniteSetTheorems, TLAPS

(* While evidence is healthy seq numbers the last line of the file.        *)
Numbered == rec.active /\ ~rec.failed => Len(log) = rec.seq

(* A line waits in the buffer only in a failed run, and it is the next one. *)
Waiting ==
  sink.buffer # <<>> =>
    rec.active /\ rec.failed /\ sink.buffer[1].seq = Len(log) + 1

(* Where a line may still be added there is no terminal event yet.         *)
NotEnded ==
  \/ rec.active /\ ~rec.failed /\ ~rec.terminal
  \/ sink.buffer # <<>>
  => \A i \in DOMAIN log : log[i].type \notin TerminalTypes

RecorderInv == TypeOK /\ Chronology /\ TerminalIsLast /\ Numbered /\ Waiting /\ NotEnded

(* What a write that failed leaves behind: the file and its buffer, the    *)
(* one waiting line ready to be the next.                                  *)
FileOK ==
  /\ log \in Seq(Events) /\ SinkTypeOK
  /\ Chronology /\ TerminalIsLast
  /\ sink.buffer # <<>> =>
       /\ sink.buffer[1].seq = Len(log) + 1
       /\ \A i \in DOMAIN log : log[i].type \notin TerminalTypes

RunStates == [active : BOOLEAN, step : Steps \cup {NoStep}, seq : Nat,
              dispatches : Nat, failed : BOOLEAN, terminal : BOOLEAN]

(* What the recorder's own bookkeeping does to a run. *)
LEMMA CountedUp ==
  ASSUME NEW r \in RunStates
  PROVE  LET written  == [r EXCEPT !.seq = @ + 1]
             counted  == [r EXCEPT !.seq = @ + 1, !.dispatches = @ + 1]
             failed   == [r EXCEPT !.seq = @ + 1, !.failed = TRUE]
             ended    == [r EXCEPT !.seq = @ + 1, !.terminal = TRUE]
             unclosed == [r EXCEPT !.seq = @ + 1, !.failed = TRUE, !.terminal = TRUE]
             still    == [r EXCEPT !.step = NoStep]
         IN  /\ \A d \in {written, counted, failed, ended, unclosed} :
                  d \in RunStates /\ d.seq = r.seq + 1 /\ d.active = r.active
             /\ failed.failed /\ ended.terminal /\ unclosed.terminal
             /\ still \in RunStates /\ still.active = r.active /\ still.seq = r.seq
<1>0. r.seq + 1 \in Nat /\ r.dispatches + 1 \in Nat
  BY DEF RunStates
<1> DEFINE written  == [r EXCEPT !.seq = @ + 1]
           counted  == [r EXCEPT !.seq = @ + 1, !.dispatches = @ + 1]
           failed   == [r EXCEPT !.seq = @ + 1, !.failed = TRUE]
           ended    == [r EXCEPT !.seq = @ + 1, !.terminal = TRUE]
           unclosed == [r EXCEPT !.seq = @ + 1, !.failed = TRUE, !.terminal = TRUE]
           still    == [r EXCEPT !.step = NoStep]
<1>1. written \in RunStates /\ written.seq = r.seq + 1 /\ written.active = r.active
  BY <1>0 DEF RunStates
<1>2. counted \in RunStates /\ counted.seq = r.seq + 1 /\ counted.active = r.active
  BY <1>0 DEF RunStates
<1>3. failed \in RunStates /\ failed.seq = r.seq + 1 /\ failed.active = r.active
      /\ failed.failed
  BY <1>0 DEF RunStates
<1>4. ended \in RunStates /\ ended.seq = r.seq + 1 /\ ended.active = r.active
      /\ ended.terminal
  BY <1>0 DEF RunStates
<1>5. unclosed \in RunStates /\ unclosed.seq = r.seq + 1 /\ unclosed.active = r.active
      /\ unclosed.terminal
  BY <1>0 DEF RunStates
<1>6. still \in RunStates /\ still.active = r.active /\ still.seq = r.seq
  BY DEF RunStates
<1> HIDE DEF written, counted, failed, ended, unclosed, still
<1> QED
  BY <1>1, <1>2, <1>3, <1>4, <1>5, <1>6 DEF written, counted, failed, ended, unclosed, still

(* The envelope of an event carries the next number and a known type.      *)
LEMMA StampTyped ==
  ASSUME RecTypeOK, NEW type \in EventTypes \cup TerminalTypes \cup {"ACTION_DISPATCHED", "RUN_STARTED"}
  PROVE  /\ Stamp(rec, type) \in Events
         /\ Stamp(rec, type).seq = rec.seq + 1
         /\ Stamp(rec, type).type = type
BY StepsAssumption DEF RecTypeOK, Stamp, Events, NoStep

LEMMA RecorderInit == Init => RecorderInv
BY DEF Init, RecorderInv, TypeOK, RecTypeOK, SinkTypeOK, Chronology, TerminalIsLast, Numbered,
       Waiting, NotEnded, NoRun, Closed, NoStep

(* A failed write leaves the log and the buffer as the invariant wants     *)
(* them, whatever the event.                                               *)
LEMMA FailedWrite ==
  ASSUME NEW before \in Seq(Events), NEW e \in Events, WriteFails(before, e),
         \A i \in DOMAIN before : before[i].seq = i,
         \A i \in DOMAIN before : before[i].type \notin TerminalTypes,
         e.seq = Len(before) + 1
  PROVE  FileOK'
<1> USE DEF Opened
<1>1. CASE log' = before /\ sink' = Opened
  BY <1>1 DEF FileOK, SinkTypeOK, Chronology, TerminalIsLast
<1>2. CASE log' = before /\ sink' = [Opened EXCEPT !.buffer = <<e>>]
  <2>1. sink' = [open |-> TRUE, buffer |-> <<e>>]
    BY <1>2
  <2>2. <<e>> \in Seq(Events) /\ Len(<<e>>) = 1 /\ <<e>>[1] = e
    OBVIOUS
  <2>3. SinkTypeOK' /\ sink'.buffer[1] = e
    BY <2>1, <2>2 DEF SinkTypeOK
  <2>4. log' \in Seq(Events) /\ Chronology' /\ TerminalIsLast'
    BY <1>2 DEF Chronology, TerminalIsLast
  <2> QED
    BY <1>2, <2>3, <2>4 DEF FileOK
<1>3. CASE log' = Append(before, e) /\ sink' = Opened
  BY <1>3 DEF FileOK, SinkTypeOK, Chronology, TerminalIsLast
<1> QED
  BY <1>1, <1>2, <1>3 DEF WriteFails

(* Adding the next line, not a terminal one unless `terminal` says so.     *)
LEMMA NextLine ==
  ASSUME NEW e \in Events, TypeOK, Chronology,
         \A i \in DOMAIN log : log[i].type \notin TerminalTypes,
         e.seq = Len(log) + 1, log' = Append(log, e)
  PROVE  /\ log' \in Seq(Events) /\ Len(log') = Len(log) + 1
         /\ Chronology' /\ TerminalIsLast'
         /\ e.type \notin TerminalTypes =>
              \A i \in DOMAIN log' : log'[i].type \notin TerminalTypes
BY DEF TypeOK, Chronology, TerminalIsLast

(* A written event. *)
LEMMA WrittenStep ==
  ASSUME RecorderInv, NEW type \in EventTypes \cup {"ACTION_DISPATCHED"},
         Written(type) \/ (type = "ACTION_DISPATCHED" /\ DispatchWritten)
  PROVE  RecorderInv'
<1>1. type \notin TerminalTypes
  BY TypesAssumption DEF TerminalTypes
<1>2. /\ ~Refuses
      /\ log' = Append(log, Stamp(rec, type)) /\ UNCHANGED sink
      /\ rec' \in {[rec EXCEPT !.seq = @ + 1],
                   [rec EXCEPT !.seq = @ + 1, !.dispatches = @ + 1]}
  BY DEF Written, DispatchWritten
<1>3. rec.active /\ ~rec.failed /\ ~rec.terminal
  BY <1>2 DEF Refuses
<1>4. /\ Stamp(rec, type) \in Events /\ Stamp(rec, type).seq = rec.seq + 1
      /\ Stamp(rec, type).type = type
  BY StampTyped DEF RecorderInv, TypeOK
<1>5. /\ log' \in Seq(Events) /\ Len(log') = Len(log) + 1 /\ Chronology' /\ TerminalIsLast'
      /\ \A i \in DOMAIN log' : log'[i].type \notin TerminalTypes
  BY NextLine, <1>1, <1>2, <1>3, <1>4 DEF RecorderInv, Numbered, NotEnded
<1>6. RecTypeOK' /\ rec'.seq = rec.seq + 1
  <2>1. rec \in RunStates
    BY DEF RecorderInv, TypeOK, RecTypeOK, RunStates
  <2>2. rec' \in RunStates /\ rec'.seq = rec.seq + 1
    BY <1>2, <2>1, CountedUp
  <2> QED
    BY <2>2 DEF RecTypeOK, RunStates
<1>7. sink.buffer = <<>>
  BY <1>3 DEF RecorderInv, Waiting
<1> QED
  BY <1>2, <1>3, <1>5, <1>6, <1>7
  DEF RecorderInv, TypeOK, SinkTypeOK, Numbered, Waiting, NotEnded

(* An event that could not be written. *)
LEMMA NotWrittenStep ==
  ASSUME RecorderInv, NEW type \in EventTypes \cup {"ACTION_DISPATCHED"}, NotWritten(type)
  PROVE  RecorderInv'
<1>1. CASE Refuses /\ UNCHANGED recorderVars
  BY <1>1 DEF recorderVars, RecorderInv, TypeOK, RecTypeOK, SinkTypeOK, Chronology,
              TerminalIsLast, Numbered, Waiting, NotEnded
<1>2. CASE /\ ~Refuses
           /\ rec' = [rec EXCEPT !.seq = @ + 1, !.failed = TRUE]
           /\ WriteFails(log, Stamp(rec, type))
  <2>1. rec.active /\ ~rec.failed /\ ~rec.terminal
    BY <1>2 DEF Refuses
  <2>2. Stamp(rec, type) \in Events /\ Stamp(rec, type).seq = Len(log) + 1
    BY StampTyped, <2>1 DEF RecorderInv, TypeOK, Numbered
  <2>3. FileOK'
    <3>1. /\ log \in Seq(Events) /\ \A i \in DOMAIN log : log[i].seq = i
          /\ \A i \in DOMAIN log : log[i].type \notin TerminalTypes
      BY <2>1 DEF RecorderInv, TypeOK, Chronology, NotEnded
    <3> QED
      BY FailedWrite, <1>2, <2>2, <3>1
  <2>4. RecTypeOK' /\ rec'.active /\ rec'.failed
    <3>1. rec \in RunStates
      BY DEF RecorderInv, TypeOK, RecTypeOK, RunStates
    <3>2. rec' \in RunStates /\ rec'.active = rec.active /\ rec'.failed
      BY <1>2, <3>1, CountedUp
    <3> QED
      BY <2>1, <3>2 DEF RecTypeOK, RunStates
  <2> QED
    BY <2>3, <2>4 DEF FileOK, RecorderInv, TypeOK, Numbered, Waiting, NotEnded
<1> QED
  BY <1>1, <1>2 DEF NotWritten

(* begin_run *)
LEMMA BeginStepInv ==
  ASSUME RecorderInv, BeginRun
  PROVE  RecorderInv'
<1> DEFINE e == Stamp(FreshRun, "RUN_STARTED")
<1>1. e \in Events /\ e.seq = 1 /\ e.type = "RUN_STARTED"
  BY DEF Stamp, FreshRun, NoRun, NoStep, Events
<1>2. CASE BeginWritten("RUN_STARTED")
  <2>1. log' = <<e>> /\ sink' = Opened /\ rec' = [FreshRun EXCEPT !.seq = 1]
    BY <1>2 DEF BeginWritten
  <2>2. <<e>> \in Seq(Events) /\ Len(<<e>>) = 1 /\ <<e>>[1] = e /\ DOMAIN <<e>> = {1}
    <3> HIDE DEF e
    <3> QED BY <1>1
  <2>3. RecTypeOK' /\ rec'.seq = 1
    BY <2>1 DEF RecTypeOK, FreshRun, NoRun, NoStep
  <2>4. SinkTypeOK' /\ sink'.buffer = <<>>
    BY <2>1 DEF SinkTypeOK, Opened
  <2>5. "RUN_STARTED" \notin TerminalTypes
    BY DEF TerminalTypes
  <2> HIDE DEF e
  <2>6. /\ log' \in Seq(Events) /\ Len(log') = 1 /\ Chronology' /\ TerminalIsLast'
        /\ \A i \in DOMAIN log' : log'[i].type \notin TerminalTypes
    BY <1>1, <2>1, <2>2, <2>5 DEF Chronology, TerminalIsLast
  <2> QED
    BY <2>3, <2>4, <2>6 DEF RecorderInv, TypeOK, Numbered, Waiting, NotEnded
<1>3. CASE rec.active /\ UNCHANGED recorderVars
  BY <1>3 DEF recorderVars, RecorderInv, TypeOK, RecTypeOK, SinkTypeOK, Chronology,
              TerminalIsLast, Numbered, Waiting, NotEnded
<1>4. CASE ~rec.active /\ UNCHANGED rec /\ log' = <<>> /\ sink' = Closed
  BY <1>4 DEF RecorderInv, TypeOK, RecTypeOK, SinkTypeOK, Chronology,
              TerminalIsLast, Numbered, Waiting, NotEnded, Closed
<1>5. CASE /\ rec' = [FreshRun EXCEPT !.seq = 1, !.failed = TRUE]
           /\ WriteFails(<<>>, e)
  <2>1. FileOK'
    <3> HIDE DEF e
    <3>1. <<>> \in Seq(Events) /\ e.seq = Len(<<>>) + 1
      BY <1>1
    <3>2. \A i \in DOMAIN <<>> : <<>>[i].seq = i /\ <<>>[i].type \notin TerminalTypes
      OBVIOUS
    <3> QED
      BY FailedWrite, <1>1, <1>5, <3>1, <3>2
  <2>2. RecTypeOK' /\ rec'.active /\ rec'.failed
    BY <1>5 DEF RecTypeOK, FreshRun, NoRun, NoStep
  <2> QED
    BY <2>1, <2>2 DEF FileOK, RecorderInv, TypeOK, Numbered, Waiting, NotEnded
<1> QED
  BY <1>2, <1>3, <1>4, <1>5 DEF BeginRun, BeginFails

(* The terminal event, written or not. *)
LEMMA TerminalStep ==
  ASSUME RecorderInv, NEW type \in TerminalTypes,
         TerminalWritten(type) \/ TerminalFails(type)
  PROVE  RecorderInv'
<1> DEFINE e == Stamp(Unstamped, type)
<1>1. CASE rec.active /\ Refuses /\ rec' = Unstamped /\ UNCHANGED <<log, sink>>
  BY <1>1 DEF Unstamped, RecorderInv, TypeOK, RecTypeOK, SinkTypeOK, Chronology,
              TerminalIsLast, Numbered, Waiting, NotEnded
<1>2. ASSUME ~Refuses PROVE RecorderInv'
  <2>0. Unstamped \in RunStates /\ Unstamped.active = rec.active /\ Unstamped.seq = rec.seq
    <3>1. rec \in RunStates
      BY DEF RecorderInv, TypeOK, RecTypeOK, RunStates
    <3> QED
      BY <3>1, CountedUp DEF Unstamped
  <2>1. rec.active /\ ~rec.failed /\ ~rec.terminal
    BY <1>2 DEF Refuses
  <2>2. e \in Events /\ e.seq = Len(log) + 1 /\ e.type = type
    BY <2>1 DEF Stamp, Unstamped, Events, RecorderInv, TypeOK, RecTypeOK, Numbered
  <2>3. \A i \in DOMAIN log : log[i].type \notin TerminalTypes
    BY <2>1 DEF RecorderInv, NotEnded
  <2>4. CASE /\ log' = Append(log, e) /\ sink' = Closed
             /\ rec' \in {[Unstamped EXCEPT !.seq = @ + 1, !.terminal = TRUE],
                          [Unstamped EXCEPT !.seq = @ + 1, !.failed = TRUE, !.terminal = TRUE]}
    <3>1. log' \in Seq(Events) /\ Len(log') = Len(log) + 1 /\ Chronology' /\ TerminalIsLast'
      <4> HIDE DEF e
      <4> QED BY NextLine, <2>2, <2>3, <2>4 DEF RecorderInv
    <3>2. RecTypeOK' /\ rec'.terminal /\ rec'.seq = rec.seq + 1
      <4>1. rec' \in RunStates /\ rec'.terminal /\ rec'.seq = Unstamped.seq + 1
        BY <2>0, <2>4, CountedUp
      <4> QED
        BY <2>0, <4>1 DEF RecTypeOK, RunStates
    <3>3. SinkTypeOK' /\ sink'.buffer = <<>>
      BY <2>4 DEF SinkTypeOK, Closed
    <3> QED
      BY <2>1, <3>1, <3>2, <3>3 DEF RecorderInv, TypeOK, Numbered, Waiting, NotEnded
  <2>5. CASE /\ rec' = [Unstamped EXCEPT !.seq = @ + 1, !.failed = TRUE]
             /\ WriteFails(log, e)
    <3>1. FileOK'
      <4> HIDE DEF e
      <4>1. log \in Seq(Events) /\ \A i \in DOMAIN log : log[i].seq = i
        BY DEF RecorderInv, TypeOK, Chronology
      <4> QED BY FailedWrite, <2>2, <2>3, <2>5, <4>1
    <3>2. RecTypeOK' /\ rec'.active /\ rec'.failed
      <4>1. rec' \in RunStates /\ rec'.active = Unstamped.active /\ rec'.failed
        BY <2>0, <2>5, CountedUp
      <4> QED
        BY <2>0, <2>1, <4>1 DEF RecTypeOK, RunStates
    <3> QED
      BY <3>1, <3>2 DEF FileOK, RecorderInv, TypeOK, Numbered, Waiting, NotEnded
  <2> QED
    BY <1>2, <2>4, <2>5 DEF TerminalWritten, TerminalFails
<1> QED
  BY <1>1, <1>2 DEF TerminalWritten, TerminalFails

LEMMA OneLine ==
  ASSUME NEW lines \in Seq(Events), Len(lines) <= 1, lines # <<>>
  PROVE  Len(lines) = 1 /\ lines[1] \in Events /\ lines = <<lines[1]>>
<1>1. Len(lines) # 0
  BY EmptySeq
<1>2. Len(lines) = 1
  <2>1. Len(lines) \in Nat
    OBVIOUS
  <2> QED
    BY <1>1, <2>1
<1> QED
  BY <1>2

LEMMA Extended ==
  ASSUME NEW lines \in Seq(Events), NEW e \in Events
  PROVE  lines \o <<e>> = Append(lines, e)
OBVIOUS

(* end_run: the line that waited becomes the last one, and it is the next. *)
LEMMA EndRunStep ==
  ASSUME RecorderInv, EndRun
  PROVE  RecorderInv'
<1>1. CASE ~rec.active
  BY <1>1 DEF EndRun, recorderVars, RecorderInv, TypeOK, RecTypeOK, SinkTypeOK, Chronology,
              TerminalIsLast, Numbered, Waiting, NotEnded
<1>2. CASE rec.active
  <2>1. rec' = NoRun /\ sink' = Closed /\ log' \in {log, log \o sink.buffer}
    BY <1>2 DEF EndRun
  <2>2. log' \in Seq(Events) /\ Chronology' /\ TerminalIsLast'
    <3>1. CASE log' = log
      BY <3>1 DEF RecorderInv, TypeOK, Chronology, TerminalIsLast
    <3>2. CASE sink.buffer = <<>> /\ log' = log \o sink.buffer
      <4>1. log' = log
        BY <3>2 DEF RecorderInv, TypeOK
      <4> QED
        BY <4>1 DEF RecorderInv, TypeOK, Chronology, TerminalIsLast
    <3>3. CASE sink.buffer # <<>> /\ log' = log \o sink.buffer
      <4>1. Len(sink.buffer) = 1 /\ sink.buffer \in Seq(Events) /\ sink.buffer[1] \in Events
        <5>1. sink.buffer \in Seq(Events) /\ Len(sink.buffer) <= 1
          BY DEF RecorderInv, TypeOK, SinkTypeOK
        <5> QED
          BY <3>3, <5>1, OneLine
      <4>2. log' = Append(log, sink.buffer[1])
        <5>1. log \in Seq(Events)
          BY DEF RecorderInv, TypeOK
        <5>2. sink.buffer = <<sink.buffer[1]>>
          BY <3>3, <4>1, OneLine
        <5>3. log \o <<sink.buffer[1]>> = Append(log, sink.buffer[1])
          BY <4>1, <5>1, Extended
        <5> QED
          BY <3>3, <5>2, <5>3
      <4>3. /\ sink.buffer[1].seq = Len(log) + 1
            /\ \A i \in DOMAIN log : log[i].type \notin TerminalTypes
        BY <3>3 DEF RecorderInv, Waiting, NotEnded
      <4> QED
        BY NextLine, <4>1, <4>2, <4>3 DEF RecorderInv
    <3> QED
      BY <2>1, <3>1, <3>2, <3>3
  <2> QED
    BY <2>1, <2>2 DEF RecorderInv, TypeOK, RecTypeOK, SinkTypeOK, Numbered, Waiting, NotEnded,
                      NoRun, Closed, NoStep
<1> QED
  BY <1>1, <1>2

(* The calls that write no event. *)
LEMMA QuietStep ==
  ASSUME RecorderInv, BeginStep \/ ClearStep \/ StoreArtifact
  PROVE  RecorderInv'
<1> USE DEF RecorderInv, TypeOK, RecTypeOK, SinkTypeOK, Chronology, TerminalIsLast, Numbered,
            Waiting, NotEnded
<1>1. ASSUME NEW s \in Steps \cup {NoStep}, SetStep(s) PROVE RecorderInv'
  BY <1>1 DEF SetStep
<1>2. CASE ArtifactStored
  BY <1>2 DEF ArtifactStored, recorderVars
<1>3. CASE ArtifactRefused
  BY <1>3 DEF ArtifactRefused, recorderVars
<1> QED
  BY <1>1, <1>2, <1>3 DEF BeginStep, ClearStep, StoreArtifact

LEMMA RecorderInductive == RecorderInv /\ [Next]_recorderVars => RecorderInv'
<1> SUFFICES ASSUME RecorderInv, [Next]_recorderVars PROVE RecorderInv'
  OBVIOUS
<1>1. CASE UNCHANGED recorderVars
  BY <1>1 DEF recorderVars, RecorderInv, TypeOK, RecTypeOK, SinkTypeOK, Chronology,
              TerminalIsLast, Numbered, Waiting, NotEnded
<1>2. CASE BeginRun
  BY <1>2, BeginStepInv
<1>3. CASE BeginStep \/ ClearStep \/ StoreArtifact
  BY <1>3, QuietStep
<1>4. CASE Emit
  BY <1>4, WrittenStep, NotWrittenStep DEF Emit
<1>5. CASE OnDispatched
  BY <1>5, WrittenStep, NotWrittenStep DEF OnDispatched, DispatchNotWritten
<1>6. CASE Terminal
  BY <1>6, TerminalStep DEF Terminal
<1>7. CASE EndRun
  BY <1>7, EndRunStep
<1> QED
  BY <1>1, <1>2, <1>3, <1>4, <1>5, <1>6, <1>7 DEF Next

LEMMA RecorderInvariant == Spec => []RecorderInv
BY RecorderInit, RecorderInductive, PTL DEF Spec

(* Every part of the recorder's state keeps its type, the buffer holding   *)
(* one line at most.                                                       *)
THEOREM RecorderTypes == Spec => []TypeOK
<1>1. RecorderInv => TypeOK
  BY DEF RecorderInv
<1> QED
  BY <1>1, RecorderInvariant, PTL

(* The file is the events numbered from 1 on, whatever failed on the way.  *)
THEOREM GapFree == Spec => []Chronology
<1>1. RecorderInv => Chronology
  BY DEF RecorderInv
<1> QED
  BY <1>1, RecorderInvariant, PTL

(* Nothing is ever written behind a terminal event, the line a close       *)
(* flushes included.                                                       *)
THEOREM NothingAfterTerminal == Spec => []TerminalIsLast
<1>1. RecorderInv => TerminalIsLast
  BY DEF RecorderInv
<1> QED
  BY <1>1, RecorderInvariant, PTL

(* A failed run stays failed and its file unchanged until it is released,  *)
(* which adds at most the line whose flush had failed.                     *)
THEOREM FailuresLast == Spec => FailureIsFinal
<1> DEFINE Final == rec.active /\ rec.failed =>
                      /\ rec'.active => rec'.failed /\ log' = log
                      /\ ~rec'.active => log' \in {log, log \o sink.buffer}
<1>1. RecorderInv /\ [Next]_recorderVars => [Final]_recorderVars
  <2> SUFFICES ASSUME RecorderInv, Next, rec.active, rec.failed PROVE Final
    BY DEF recorderVars
  <2>1. Refuses
    BY DEF Refuses
  <2>2. rec \in [active : BOOLEAN, step : Steps \cup {NoStep}, seq : Nat,
                 dispatches : Nat, failed : BOOLEAN, terminal : BOOLEAN]
    BY DEF RecorderInv, TypeOK, RecTypeOK
  <2>3. CASE BeginRun
    BY <2>3 DEF BeginRun, BeginWritten, BeginFails, recorderVars
  <2>4. CASE BeginStep \/ ClearStep
    BY <2>2, <2>4 DEF BeginStep, ClearStep, SetStep
  <2>5. CASE StoreArtifact
    BY <2>5 DEF StoreArtifact, ArtifactStored, ArtifactRefused, recorderVars
  <2>6. CASE Emit
    BY <2>1, <2>6 DEF Emit, Written, NotWritten, recorderVars
  <2>7. CASE OnDispatched
    BY <2>1, <2>7 DEF OnDispatched, DispatchWritten, DispatchNotWritten, NotWritten, recorderVars
  <2>8. CASE Terminal
    BY <2>1, <2>2, <2>8 DEF Terminal, TerminalWritten, TerminalFails, Unstamped
  <2>9. CASE EndRun
    BY <2>9 DEF EndRun, NoRun
  <2> QED
    BY <2>3, <2>4, <2>5, <2>6, <2>7, <2>8, <2>9 DEF Next
<1> QED
  BY <1>1, RecorderInvariant, PTL DEF Spec, FailureIsFinal

------------------------------------------------------------------------------
(* Counting the lines of one type: a line more is one more, or none.       *)
LEMMA LinesCounted ==
  ASSUME NEW file \in Seq(Events), NEW type
  PROVE  /\ IsFiniteSet(LinesOf(file, type))
         /\ Cardinality(LinesOf(file, type)) \in Nat
<1>1. LinesOf(file, type) \subseteq 1..Len(file) /\ IsFiniteSet(1..Len(file))
  BY FS_Interval DEF LinesOf
<1>2. IsFiniteSet(LinesOf(file, type))
  BY <1>1, FS_Subset
<1> QED
  BY <1>2, FS_CardinalityType

LEMMA LineAdded ==
  ASSUME NEW file \in Seq(Events), NEW e \in Events, NEW type
  PROVE  Cardinality(LinesOf(Append(file, e), type)) =
           Cardinality(LinesOf(file, type)) + (IF e.type = type THEN 1 ELSE 0)
<1> DEFINE n == Len(file) + 1
<1>1. /\ DOMAIN file = 1..Len(file) /\ Len(file) \in Nat
      /\ DOMAIN Append(file, e) = 1..n /\ Append(file, e)[n] = e
      /\ \A k \in 1..Len(file) : Append(file, e)[k] = file[k]
  BY AppendProperties
<1>2. CASE e.type = type
  <2>1. LinesOf(Append(file, e), type) = LinesOf(file, type) \cup {n}
    BY <1>1, <1>2 DEF LinesOf
  <2>2. n \notin LinesOf(file, type)
    BY <1>1 DEF LinesOf
  <2>3. IsFiniteSet(LinesOf(file, type))
    BY LinesCounted
  <2>4. Cardinality(LinesOf(file, type) \cup {n}) = Cardinality(LinesOf(file, type)) + 1
    BY <2>2, <2>3, FS_AddElement
  <2> QED
    BY <1>2, <2>1, <2>4
<1>3. CASE e.type # type
  <2>1. LinesOf(Append(file, e), type) = LinesOf(file, type)
    BY <1>1, <1>3 DEF LinesOf
  <2> QED
    BY <1>3, <2>1, LinesCounted
<1> QED
  BY <1>2, <1>3

(* What one write, come through or not, does to the count of dispatches.   *)
LEMMA WriteCounted ==
  ASSUME NEW before \in Seq(Events), NEW e \in Events,
         log' = Append(before, e) \/ WriteFails(before, e)
  PROVE  /\ Count("ACTION_DISPATCHED")' \in Nat
         /\ Cardinality(LinesOf(before, "ACTION_DISPATCHED")) <= Count("ACTION_DISPATCHED")'
         /\ e.type # "ACTION_DISPATCHED" =>
              Count("ACTION_DISPATCHED")' = Cardinality(LinesOf(before, "ACTION_DISPATCHED"))
         /\ e.type = "ACTION_DISPATCHED" /\ log' = Append(before, e) =>
              Count("ACTION_DISPATCHED")' = Cardinality(LinesOf(before, "ACTION_DISPATCHED")) + 1
<1>1. Cardinality(LinesOf(before, "ACTION_DISPATCHED")) \in Nat
  BY LinesCounted
<1>2. log' = before \/ log' = Append(before, e)
  BY DEF WriteFails
<1>3. CASE log' = before
  <2>1. log' # Append(before, e)
    <3>1. Len(Append(before, e)) = Len(before) + 1 /\ Len(before) \in Nat
      OBVIOUS
    <3> QED
      BY <1>3, <3>1
  <2> QED
    BY <1>1, <1>3, <2>1 DEF Count
<1>4. CASE log' = Append(before, e)
  <2>1. Count("ACTION_DISPATCHED")' =
          Cardinality(LinesOf(before, "ACTION_DISPATCHED"))
          + (IF e.type = "ACTION_DISPATCHED" THEN 1 ELSE 0)
    BY <1>4, LineAdded DEF Count
  <2> QED
    BY <1>1, <2>1
<1> QED
  BY <1>2, <1>3, <1>4

LEMMA PersistedStep ==
  ASSUME RecorderInv, DispatchCountPersisted, [Next]_recorderVars
  PROVE  DispatchCountPersisted'
<1> DEFINE n == Count("ACTION_DISPATCHED")
<1>0. /\ rec \in RunStates /\ log \in Seq(Events) /\ n \in Nat /\ RecTypeOK
      /\ n = Cardinality(LinesOf(log, "ACTION_DISPATCHED"))
  BY LinesCounted DEF RecorderInv, TypeOK, RecTypeOK, RunStates, Count
<1>1. CASE UNCHANGED log /\ rec' \in {rec, Unstamped, [rec EXCEPT !.failed = TRUE]}
                          \cup {[rec EXCEPT !.step = s] : s \in Steps \cup {NoStep}}
  <2>1. /\ rec'.active = rec.active /\ rec'.dispatches = rec.dispatches
        /\ rec.failed => rec'.failed
    BY <1>0, <1>1 DEF Unstamped, RunStates
  <2>2. Count("ACTION_DISPATCHED")' = n
    BY <1>1 DEF Count
  <2> QED
    BY <2>1, <2>2, <1>0 DEF DispatchCountPersisted, RunStates
<1>2. CASE ~rec'.active
  BY <1>2 DEF DispatchCountPersisted
<1>3. CASE BeginRun
  <2>1. CASE UNCHANGED recorderVars
    BY <1>1, <2>1 DEF recorderVars
  <2>2. CASE ~rec.active /\ UNCHANGED rec
    BY <1>2, <2>2
  <2>3. CASE /\ rec' \in {[FreshRun EXCEPT !.seq = 1], [FreshRun EXCEPT !.seq = 1, !.failed = TRUE]}
             /\ \/ log' = Append(<<>>, Stamp(FreshRun, "RUN_STARTED"))
                \/ WriteFails(<<>>, Stamp(FreshRun, "RUN_STARTED"))
    <3>1. Stamp(FreshRun, "RUN_STARTED") \in Events /\ <<>> \in Seq(Events)
      BY DEF Stamp, FreshRun, NoRun, NoStep, Events
    <3>2. Stamp(FreshRun, "RUN_STARTED").type # "ACTION_DISPATCHED"
      BY DEF Stamp
    <3>3. Cardinality(LinesOf(<<>>, "ACTION_DISPATCHED")) = 0
      BY FS_EmptySet DEF LinesOf
    <3>4. Count("ACTION_DISPATCHED")' = 0
      BY <2>3, <3>1, <3>2, <3>3, WriteCounted
    <3>5. rec'.dispatches = 0
      BY <2>3 DEF FreshRun, NoRun
    <3> QED
      BY <3>4, <3>5 DEF DispatchCountPersisted
  <2>4. <<Stamp(FreshRun, "RUN_STARTED")>> = Append(<<>>, Stamp(FreshRun, "RUN_STARTED"))
    OBVIOUS
  <2> QED
    BY <1>3, <2>1, <2>2, <2>3, <2>4 DEF BeginRun, BeginWritten, BeginFails
<1>4. ASSUME NEW type \in EventTypes, Written(type) \/ NotWritten(type)
      PROVE  DispatchCountPersisted'
  <2>0. type # "ACTION_DISPATCHED"
    BY TypesAssumption
  <2>1. CASE UNCHANGED recorderVars
    BY <1>1, <2>1 DEF recorderVars
  <2>2. CASE /\ ~Refuses
             /\ rec' \in {[rec EXCEPT !.seq = @ + 1], [rec EXCEPT !.seq = @ + 1, !.failed = TRUE]}
             /\ log' = Append(log, Stamp(rec, type)) \/ WriteFails(log, Stamp(rec, type))
    <3>1. Stamp(rec, type) \in Events /\ Stamp(rec, type).type # "ACTION_DISPATCHED"
      BY <1>0, <2>0, StampTyped
    <3>2. Count("ACTION_DISPATCHED")' = n
      BY <1>0, <2>2, <3>1, WriteCounted
    <3>3. rec.active /\ ~rec.failed /\ rec'.dispatches = rec.dispatches
      BY <1>0, <2>2 DEF Refuses, RunStates
    <3> QED
      BY <1>0, <3>2, <3>3 DEF DispatchCountPersisted
  <2> QED
    BY <1>4, <2>1, <2>2 DEF Written, NotWritten
<1>5. CASE OnDispatched
  <2>1. CASE UNCHANGED recorderVars
    BY <1>1, <2>1 DEF recorderVars
  <2>2. CASE ~Refuses
    <3>1. /\ Stamp(rec, "ACTION_DISPATCHED") \in Events
          /\ Stamp(rec, "ACTION_DISPATCHED").type = "ACTION_DISPATCHED"
      BY <1>0, StampTyped
    <3>2. rec.active /\ ~rec.failed /\ rec.dispatches = n
      BY <2>2 DEF Refuses, DispatchCountPersisted
    <3>3. CASE DispatchWritten
      <4>1. log' = Append(log, Stamp(rec, "ACTION_DISPATCHED"))
            /\ rec' = [rec EXCEPT !.seq = @ + 1, !.dispatches = @ + 1]
        BY <3>3 DEF DispatchWritten
      <4>2. Count("ACTION_DISPATCHED")' = n + 1
        BY <1>0, <3>1, <4>1, WriteCounted
      <4>3. rec'.dispatches = n + 1
        BY <1>0, <3>2, <4>1 DEF RunStates
      <4> QED
        BY <1>0, <4>2, <4>3 DEF DispatchCountPersisted
    <3>4. CASE /\ rec' = [rec EXCEPT !.seq = @ + 1, !.failed = TRUE]
               /\ WriteFails(log, Stamp(rec, "ACTION_DISPATCHED"))
      <4>1. n <= Count("ACTION_DISPATCHED")'
        BY <1>0, <3>1, <3>4, WriteCounted
      <4>2. rec'.dispatches = n /\ rec'.failed
        BY <1>0, <3>2, <3>4 DEF RunStates
      <4> QED
        BY <4>1, <4>2 DEF DispatchCountPersisted
    <3> QED
      BY <1>5, <2>2, <3>3, <3>4 DEF OnDispatched, DispatchNotWritten, NotWritten
  <2> QED
    BY <1>5, <2>1, <2>2 DEF OnDispatched, DispatchWritten, DispatchNotWritten, NotWritten
<1>6. ASSUME NEW type \in TerminalTypes, TerminalWritten(type) \/ TerminalFails(type)
      PROVE  DispatchCountPersisted'
  <2>1. CASE rec' = Unstamped /\ UNCHANGED log
    BY <1>1, <2>1
  <2>2. CASE /\ ~Refuses
             /\ rec' \in {[Unstamped EXCEPT !.seq = @ + 1, !.terminal = TRUE],
                          [Unstamped EXCEPT !.seq = @ + 1, !.failed = TRUE],
                          [Unstamped EXCEPT !.seq = @ + 1, !.failed = TRUE, !.terminal = TRUE]}
             /\ \/ log' = Append(log, Stamp(Unstamped, type))
                \/ WriteFails(log, Stamp(Unstamped, type))
    <3>1. /\ Stamp(Unstamped, type) \in Events
          /\ Stamp(Unstamped, type).type # "ACTION_DISPATCHED"
      BY <1>0 DEF Stamp, Unstamped, Events, RunStates, TerminalTypes
    <3>2. Count("ACTION_DISPATCHED")' = n
      BY <1>0, <2>2, <3>1, WriteCounted
    <3>3. rec.active /\ ~rec.failed /\ rec'.dispatches = rec.dispatches
      BY <1>0, <2>2 DEF Refuses, Unstamped, RunStates
    <3> QED
      BY <1>0, <3>2, <3>3 DEF DispatchCountPersisted
  <2> QED
    BY <1>6, <2>1, <2>2 DEF TerminalWritten, TerminalFails
<1>7. CASE BeginStep \/ ClearStep \/ StoreArtifact \/ UNCHANGED recorderVars
  BY <1>1, <1>7
     DEF BeginStep, ClearStep, StoreArtifact, SetStep, ArtifactStored, ArtifactRefused, recorderVars
<1>8. CASE EndRun
  BY <1>2, <1>8, <1>1 DEF EndRun, NoRun, recorderVars
<1> QED
  BY <1>3, <1>4, <1>5, <1>6, <1>7, <1>8 DEF Next, Emit, Terminal

(* dispatch_count never runs ahead of the file and, while evidence is      *)
(* healthy, equals the dispatches in it (on_dispatched).                   *)
THEOREM DispatchesPersisted == Spec => []DispatchCountPersisted
<1>1. Init => DispatchCountPersisted
  BY DEF Init, NoRun, DispatchCountPersisted
<1>2. RecorderInv /\ DispatchCountPersisted /\ [Next]_recorderVars => DispatchCountPersisted'
  BY PersistedStep
<1> QED
  BY <1>1, <1>2, RecorderInvariant, PTL DEF Spec
=============================================================================
