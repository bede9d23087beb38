---------------------------- MODULE ControlOwner ----------------------------
(***************************************************************************)
(* Who owns the browser session (src/cua/hitl/control.py).  The owner      *)
(* moves along four edges and no other; asking for an edge from any other  *)
(* state raises IllegalTransition, so an edge is an action whose guard is  *)
(* its source state.  There is no edge from HUMAN back to AUTOMATION: only *)
(* verification, out of RETURNING, restores automation.                    *)
(* ReplayEngine takes these edges inside its larger steps.                 *)
(***************************************************************************)

VARIABLE owner

OwnerStates == {"AUTOMATION", "PENDING_HUMAN", "HUMAN", "RETURNING"}

(* _EDGES: each edge's source and target. *)
Edges == [escalate  |-> [from |-> "AUTOMATION",    to |-> "PENDING_HUMAN"],
          accept    |-> [from |-> "PENDING_HUMAN", to |-> "HUMAN"],
          hand_back |-> [from |-> "HUMAN",         to |-> "RETURNING"],
          restore   |-> [from |-> "RETURNING",     to |-> "AUTOMATION"]]

(* ControlOwner._move: the one place the owner changes. *)
Move(edge) == /\ owner = Edges[edge].from
              /\ owner' = Edges[edge].to

Escalate == Move("escalate")
Accept   == Move("accept")
HandBack == Move("hand_back")
Restore  == Move("restore")

IsAutomation == owner = "AUTOMATION"

OwnerInit == owner = "AUTOMATION"
=============================================================================
