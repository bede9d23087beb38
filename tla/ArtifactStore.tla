--------------------------- MODULE ArtifactStore ----------------------------
(***************************************************************************)
(* One identity of the artifact store (src/cua/artifact/store.py) and its  *)
(* compile report, written by processes that each persist a compiled       *)
(* artifact: the artifact, then the report.  A process may die anywhere,   *)
(* and another may begin at any time.                                      *)
(*                                                                         *)
(* A file is missing, empty (write_text truncates before it writes), whole *)
(* (the artifact it holds) or mixed: a text written over a longer one      *)
(* keeps its tail.  Neither an empty nor a mixed file validates.           *)
(***************************************************************************)
CONSTANTS Processes,
          Artifacts, \* the contents the identity may be compiled to
          Longer     \* pairs of them, the first with the longer text

Missing == "MISSING"
Empty   == "EMPTY"
Mixed   == "MIXED"

ASSUME ArtifactsAssumption ==
  Artifacts \cap {Missing, Empty, Mixed} = {} /\ Longer \subseteq Artifacts \X Artifacts

VARIABLES artifact,   \* the artifact's file
          report,     \* the report's file
          pc, mine,   \* of each process: where it is, the artifact it persists
          saved,      \* history: the artifacts whose write a save() completed
          overlapped  \* history: whether two processes were ever at work at once

vars == <<artifact, report, pc, mine, saved, overlapped>>

Init ==
  /\ artifact = Missing /\ report = Missing
  /\ pc = [p \in Processes |-> "idle"]
  /\ mine \in [Processes -> Artifacts]
  /\ saved = {} /\ overlapped = FALSE

Goto(p, place) == pc' = [pc EXCEPT ![p] = place]

(* What a file holds after a process that had truncated it writes `a`.     *)
Written(file, a) ==
  IF \/ <<file, a>> \in Longer
     \/ file = Mixed /\ \E b \in Artifacts : <<b, a>> \in Longer
  THEN Mixed ELSE a

------------------------------------------------------------------------------
Begin(p, a) ==
  /\ pc[p] = "idle"
  /\ mine' = [mine EXCEPT ![p] = a]
  /\ overlapped' = (overlapped \/ \E q \in Processes : pc[q] # "idle")
  /\ Goto(p, "look")
  /\ UNCHANGED <<artifact, report, saved>>

(* save(): the file is compared with the text to write. *)
Look(p) ==
  /\ pc[p] = "look"
  /\ Goto(p, IF artifact \in {Missing, mine[p]} THEN "open" ELSE "compare")
  /\ UNCHANGED <<artifact, report, mine, saved, overlapped>>

(* It differs and is read again, to be validated and compared: save raises *)
(* ValidationError or ArtifactConflict, or goes on.  Seeded faults of      *)
(* Compare: any valid content may be replaced; the caller carries on after *)
(* a conflict.                                                             *)
ReplaceAny(p) ==
  /\ pc[p] = "compare"
  /\ Goto(p, IF artifact \in Artifacts THEN "open" ELSE "idle")
  /\ UNCHANGED <<artifact, report, mine, saved, overlapped>>

ReportAnyway(p) ==
  /\ pc[p] = "compare"
  /\ Goto(p, IF artifact = mine[p] THEN "open" ELSE "open_report")
  /\ UNCHANGED <<artifact, report, mine, saved, overlapped>>

Compare(p) ==
  /\ pc[p] = "compare"
  /\ Goto(p, IF artifact = mine[p] THEN "open" ELSE "idle")
  /\ UNCHANGED <<artifact, report, mine, saved, overlapped>>

Open(p) ==
  /\ pc[p] = "open"
  /\ artifact' = Empty
  /\ Goto(p, "write")
  /\ UNCHANGED <<report, mine, saved, overlapped>>

Write(p) ==
  /\ pc[p] = "write"
  /\ artifact' = Written(artifact, mine[p])
  /\ saved' = saved \cup {mine[p]}
  /\ Goto(p, "open_report")
  /\ UNCHANGED <<report, mine, overlapped>>

(* save_compile_report(): no look at what is there. *)
OpenReport(p) ==
  /\ pc[p] = "open_report"
  /\ report' = Empty
  /\ Goto(p, "write_report")
  /\ UNCHANGED <<artifact, mine, saved, overlapped>>

WriteReport(p) ==
  /\ pc[p] = "write_report"
  /\ report' = Written(report, mine[p])
  /\ Goto(p, "idle")
  /\ UNCHANGED <<artifact, mine, saved, overlapped>>

Crash(p) ==
  /\ pc[p] # "idle"
  /\ Goto(p, "idle")
  /\ UNCHANGED <<artifact, report, mine, saved, overlapped>>

Next ==
  \E p \in Processes :
    \/ \E a \in Artifacts : Begin(p, a)
    \/ Look(p) \/ Compare(p) \/ Open(p) \/ Write(p)
    \/ OpenReport(p) \/ WriteReport(p) \/ Crash(p)

Spec == Init /\ [][Next]_vars

------------------------------------------------------------------------------
(* load_id and load_compile_report return the content, or raise.           *)
Loads(file) == IF file \in Artifacts THEN {file} ELSE {}

(* "An existing identity is never silently overwritten with different      *)
(* content" (store.py:4-5): while processes come one after the other, and  *)
(* wherever each of them died, only one artifact was ever saved under the  *)
(* identity, and a load returns that one or raises.                        *)
FirstSaveWins ==
  ~overlapped => (\A a, b \in saved : a = b) /\ Loads(artifact) \subseteq saved

(* A report is only ever beside the artifact it describes: a process whose *)
(* artifact was refused writes none, and one that died before its report   *)
(* leaves none of another's (store.py:8-11).                               *)
ReportIsTheArtifacts ==
  ~overlapped => /\ Loads(report) \subseteq saved
                 /\ Loads(artifact) # {} => Loads(report) \subseteq Loads(artifact)
=============================================================================
