---------------------------- MODULE StoreProofs ----------------------------
(***************************************************************************)
(* Proofs about the artifact store, for every set of processes, every set  *)
(* of contents and every length of their texts.                            *)
(***************************************************************************)
EXTENDS ArtifactStore, TLAPS

Places == {"idle", "look", "compare", "open", "write", "open_report", "write_report"}
Files  == Artifacts \cup {Missing, Empty, Mixed}

(* The types of the variables. *)
TypeInv ==
  /\ artifact \in Files /\ report \in Files
  /\ pc \in [Processes -> Places]
  /\ mine \in [Processes -> Artifacts]
  /\ saved \subseteq Artifacts
  /\ overlapped \in BOOLEAN

(* One process at a time. *)
Alone == \A p, q \in Processes : pc[p] # "idle" /\ pc[q] # "idle" => p = q

(* What the files hold once a process is through, or dead. *)
Settled ==
  /\ \A a, b \in saved : a = b
  /\ artifact \in saved \cup {Missing, Empty}
  /\ artifact = Missing => saved = {}
  /\ report \in saved \cup {Missing, Empty}

(* What the process at work knows of them. *)
Known(p) ==
  /\ pc[p] = "open" => artifact \in {Missing, mine[p]}
  /\ pc[p] = "write" => artifact = Empty /\ saved \subseteq {mine[p]}
  /\ pc[p] \in {"open_report", "write_report"} => artifact = mine[p]
  /\ pc[p] = "write_report" => report = Empty

StoreInv ==
  /\ TypeInv
  /\ ~overlapped => Alone /\ Settled /\ \A p \in Processes : Known(p)

(* A text written over an empty file is the file. *)
LEMMA WrittenOnEmpty ==
  \A a \in Artifacts : Written(Empty, a) = a
BY ArtifactsAssumption DEF Written, Empty, Mixed

(* What is written is a file. *)
LEMMA WrittenType ==
  \A file, a : a \in Artifacts => Written(file, a) \in Files
BY DEF Written, Files

LEMMA StoreInit == Init => StoreInv
BY DEF Init, StoreInv, TypeInv, Alone, Settled, Known, Places, Files

(* The types do not depend on who overlaps. *)
LEMMA TypeStep == TypeInv /\ [Next]_vars => TypeInv'
<1> SUFFICES ASSUME TypeInv, [Next]_vars PROVE TypeInv'
  OBVIOUS
<1> USE DEF TypeInv, Goto, Places
<1>1. CASE UNCHANGED vars
  BY <1>1 DEF vars
<1>2. ASSUME NEW p \in Processes, NEW a \in Artifacts, Begin(p, a) PROVE TypeInv'
  BY <1>2 DEF Begin
<1>3. ASSUME NEW p \in Processes, Look(p) PROVE TypeInv'
  BY <1>3 DEF Look
<1>4. ASSUME NEW p \in Processes, Compare(p) PROVE TypeInv'
  BY <1>4 DEF Compare
<1>5. ASSUME NEW p \in Processes, Open(p) PROVE TypeInv'
  BY <1>5 DEF Open, Files
<1>6. ASSUME NEW p \in Processes, Write(p) PROVE TypeInv'
  BY <1>6, WrittenType DEF Write
<1>7. ASSUME NEW p \in Processes, OpenReport(p) PROVE TypeInv'
  BY <1>7 DEF OpenReport, Files
<1>8. ASSUME NEW p \in Processes, WriteReport(p) PROVE TypeInv'
  BY <1>8, WrittenType DEF WriteReport
<1>9. ASSUME NEW p \in Processes, Crash(p) PROVE TypeInv'
  BY <1>9 DEF Crash
<1>10. QED
  BY <1>1, <1>2, <1>3, <1>4, <1>5, <1>6, <1>7, <1>8, <1>9 DEF Next

(* A step of the only process at work keeps what it knows and what is      *)
(* settled; a step after which two have overlapped has nothing to keep.    *)
LEMMA StoreStep == StoreInv /\ [Next]_vars => StoreInv'
<1> SUFFICES ASSUME StoreInv, [Next]_vars, ~overlapped'
             PROVE  (Alone /\ Settled /\ \A p \in Processes : Known(p))'
  BY TypeStep DEF StoreInv
<1> USE DEF Goto, Places
<1>t. TypeInv /\ TypeInv'
  BY TypeStep DEF StoreInv
<1>0. Alone /\ Settled /\ \A p \in Processes : Known(p)
  <2>1. ~overlapped
    BY <1>t DEF vars, Next, Begin, Look, Compare, Open, Write, OpenReport, WriteReport, Crash, TypeInv
  <2>2. QED
    BY <2>1 DEF StoreInv
<1>1. CASE UNCHANGED vars
  BY <1>1, <1>0 DEF vars, Alone, Settled, Known
<1>2. ASSUME NEW p \in Processes, NEW a \in Artifacts, Begin(p, a)
      PROVE  (Alone /\ Settled /\ \A q \in Processes : Known(q))'
  <2>1. \A q \in Processes : pc[q] = "idle"
    BY <1>2 DEF Begin
  <2>2. QED
    BY <1>0, <1>2, <1>t, <2>1 DEF Begin, Alone, Settled, Known, TypeInv
<1>3. ASSUME NEW p \in Processes, Look(p)
      PROVE  (Alone /\ Settled /\ \A q \in Processes : Known(q))'
  BY <1>0, <1>3, <1>t DEF Look, Alone, Settled, Known, TypeInv
<1>4. ASSUME NEW p \in Processes, Compare(p)
      PROVE  (Alone /\ Settled /\ \A q \in Processes : Known(q))'
  BY <1>0, <1>4, <1>t DEF Compare, Alone, Settled, Known, TypeInv
<1>5. ASSUME NEW p \in Processes, Open(p)
      PROVE  (Alone /\ Settled /\ \A q \in Processes : Known(q))'
  <2>1. saved \subseteq {mine[p]}
    BY <1>0, <1>5, <1>t, ArtifactsAssumption DEF Open, Settled, Known, TypeInv
  <2>2. \A q \in Processes : q # p => pc[q] = "idle"
    BY <1>0, <1>5 DEF Open, Alone
  <2>3. QED
    BY <1>0, <1>5, <1>t, <2>1, <2>2, ArtifactsAssumption
       DEF Open, Alone, Settled, Known, TypeInv, Missing, Empty
<1>6. ASSUME NEW p \in Processes, Write(p)
      PROVE  (Alone /\ Settled /\ \A q \in Processes : Known(q))'
  <2>1. artifact' = mine[p] /\ saved' = {mine[p]}
    BY <1>0, <1>6, <1>t, WrittenOnEmpty DEF Write, Known, TypeInv
  <2>2. \A q \in Processes : q # p => pc[q] = "idle"
    BY <1>0, <1>6 DEF Write, Alone
  <2>3. mine[p] # Missing
    BY <1>t, ArtifactsAssumption DEF TypeInv
  <2>4. QED
    BY <1>0, <1>6, <1>t, <2>1, <2>2, <2>3 DEF Write, Alone, Settled, Known, TypeInv
<1>7. ASSUME NEW p \in Processes, OpenReport(p)
      PROVE  (Alone /\ Settled /\ \A q \in Processes : Known(q))'
  BY <1>0, <1>7, <1>t DEF OpenReport, Alone, Settled, Known, TypeInv
<1>8. ASSUME NEW p \in Processes, WriteReport(p)
      PROVE  (Alone /\ Settled /\ \A q \in Processes : Known(q))'
  <2>1. report' = mine[p] /\ artifact = mine[p]
    BY <1>0, <1>8, <1>t, WrittenOnEmpty DEF WriteReport, Known, TypeInv
  <2>2. mine[p] \in saved
    BY <1>0, <1>t, <2>1, ArtifactsAssumption DEF Settled, TypeInv
  <2>3. QED
    BY <1>0, <1>8, <1>t, <2>1, <2>2 DEF WriteReport, Alone, Settled, Known, TypeInv
<1>9. ASSUME NEW p \in Processes, Crash(p)
      PROVE  (Alone /\ Settled /\ \A q \in Processes : Known(q))'
  BY <1>0, <1>9, <1>t DEF Crash, Alone, Settled, Known, TypeInv
<1>10. QED
  BY <1>1, <1>2, <1>3, <1>4, <1>5, <1>6, <1>7, <1>8, <1>9 DEF Next

(* StoreInv is an invariant of the specification. *)
LEMMA StoreInvariant == Spec => []StoreInv
BY StoreInit, StoreStep, PTL DEF Spec

(* One after the other, whatever their number and wherever each dies, the  *)
(* processes save one artifact, and a load returns it or raises.           *)
THEOREM OneArtifactPerIdentity == Spec => []FirstSaveWins
<1>1. StoreInv => FirstSaveWins
  BY ArtifactsAssumption DEF StoreInv, Settled, FirstSaveWins, Loads
<1>2. QED
  BY <1>1, StoreInvariant, PTL

(* The report that loads beside an artifact that loads is that artifact's. *)
THEOREM ReportsMatch == Spec => []ReportIsTheArtifacts
<1>1. StoreInv => ReportIsTheArtifacts
  BY ArtifactsAssumption DEF StoreInv, Settled, ReportIsTheArtifacts, Loads
<1>2. QED
  BY <1>1, StoreInvariant, PTL
=============================================================================
