---------------------------- MODULE RunContract ----------------------------
(***************************************************************************)
(* What ReplayEngine.run promises about the world, with no pages, no       *)
(* evidence and no gate (engine.py and result.py): a run does its steps in *)
(* order, each at most once, by automation or by the human; a step the     *)
(* artifact declares IRREVERSIBLE is done by the human or by nobody; a run *)
(* may end at any point, and ends in SUCCESS only with every step done.    *)
(* ReplayEngine implements it.                                             *)
(***************************************************************************)
EXTENDS Naturals

CONSTANTS StepCount,   \* the artifact's steps are 1..StepCount
          Irreversible \* the steps the artifact declares IRREVERSIBLE

VARIABLES doer,    \* who did each step of the current run
          verdict  \* what the last run returned, or "RUNNING"

contractVars == <<doer, verdict>>

StepIds  == 1..StepCount
Verdicts == {"SUCCESS", "BUSINESS_OUTCOME", "FAILURE", "RAISED"}
Untouched == [i \in StepIds |-> "nobody"]

ContractInit == doer = Untouched /\ verdict = "NONE"

Start == /\ verdict # "RUNNING"
         /\ verdict' = "RUNNING"
         /\ doer' = Untouched

(* Step i, and no step before it left out. *)
Do(i, who) == /\ verdict = "RUNNING"
              /\ doer[i] = "nobody"
              /\ \A j \in 1..(i - 1) : doer[j] # "nobody"
              /\ who = "automation" => i \notin Irreversible
              /\ doer' = [doer EXCEPT ![i] = who]
              /\ UNCHANGED verdict

Conclude(v) == /\ verdict = "RUNNING"
               /\ v = "SUCCESS" => \A i \in StepIds : doer[i] # "nobody"
               /\ verdict' = v
               /\ UNCHANGED doer

ContractNext == \/ Start
                \/ \E i \in StepIds, who \in {"automation", "human"} : Do(i, who)
                \/ \E v \in Verdicts : Conclude(v)

(* The contract of a run: each step once, in order, irreversible ones never *)
(* by automation, and SUCCESS only when nothing is left to do.             *)
ContractSpec == ContractInit /\ [][ContractNext]_contractVars
=============================================================================
