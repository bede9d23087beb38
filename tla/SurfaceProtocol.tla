-------------------------- MODULE SurfaceProtocol --------------------------
(***************************************************************************)
(* PlaywrightSurface (src/cua/surface/playwright_surface.py) under any     *)
(* order of calls, over a live page that moves by itself, with a driver    *)
(* and a listener that may fail in any call.  ReplayEngine and             *)
(* DiscoveryAgent make the calls in their own order; this module shows     *)
(* what a ref and a notification are worth to any caller.                  *)
(*                                                                         *)
(* act() is three steps, and the page may move between them: resolve the   *)
(* ref and announce the attempt; the driver operation, whose locator is    *)
(* evaluated again; the notification of its end.                           *)
(***************************************************************************)
EXTENDS SurfaceElements

CONSTANTS Pages,   \* what the browser can show
          Tree,    \* the accessibility tree of each page
          MaxCalls \* bound on the observations and on the attempts of a session

(* Any node may come without a ref: build_elements leaves it out.          *)
ASSUME TreeAssumption ==
  \A p \in Pages : /\ Tree[p] \in Trees
                   /\ \A i \in DOMAIN Tree[p] : Tree[p][i].parent \in 0..(i - 1)
ASSUME MaxCallsAssumption == MaxCalls \in Nat

VARIABLES
  page,       \* what the browser shows
  session,    \* whether the surface is "new", "open" or "closed"
  stepIndex,  \* _step_index
  refMap,     \* _ref_map
  refsValid,  \* _refs_valid
  dispatched, \* dispatched_actions
  attempt,    \* the act() being performed
  notices,    \* history: what the listener was told, in order
  seen,       \* history: the page refMap was built from
  operations  \* history: of each driver operation its number, the observation
              \* it was decided on, its ref, and the notice that preceded it

refVars     == <<stepIndex, refMap, refsValid>>
historyVars == <<notices, seen, operations>>
vars == <<page, session, refVars, dispatched, attempt, historyVars>>

NoRef     == 0
NoAttempt == [at |-> "none", ref |-> NoRef]

Init ==
  /\ page \in Pages /\ seen = page
  /\ session = "new"
  /\ stepIndex = 0 /\ refMap = <<>> /\ refsValid = FALSE
  /\ dispatched = 0 /\ attempt = NoAttempt
  /\ notices = <<>> /\ operations = <<>>

------------------------------------------------------------------------------
(* The session *)

Idle == attempt = NoAttempt

(* open(): a closed surface is never reopened. *)
Open ==
  /\ session = "new"
  /\ session' = "open"
  /\ UNCHANGED <<page, refVars, dispatched, attempt, historyVars>>

(* close(): whatever the driver says, the refs are gone. *)
Close ==
  /\ session # "closed" /\ Idle
  /\ session' = "closed"
  /\ refMap' = <<>> /\ refsValid' = FALSE
  /\ UNCHANGED <<page, stepIndex, dispatched, attempt, historyVars>>

PageMoves ==
  /\ session = "open"
  /\ page' \in Pages \ {page}
  /\ UNCHANGED <<session, refVars, dispatched, attempt, historyVars>>

(* observe(): every ref is replaced.  A driver failure, in the tree or in  *)
(* the title, changes nothing.                                             *)
Observe ==
  /\ session = "open" /\ Idle /\ stepIndex < MaxCalls
  /\ LET elements == ElementsOf(Tree[page])
     IN  refMap' = [k \in DOMAIN elements |-> RecipeOf(elements, k)]
  /\ refsValid' = TRUE
  /\ stepIndex' = stepIndex + 1
  /\ seen' = page
  /\ UNCHANGED <<page, session, dispatched, attempt, notices, operations>>

------------------------------------------------------------------------------
(* act() *)

Notify(kind, seq) == notices' = Append(notices, [kind |-> kind, seq |-> seq])

(* Where an attempt on `ref` would act now. *)
IsLive(ref) == ref # NoRef => Relocated(Tree[page], refMap[ref]) # {}

(* Seeded fault of Resolvable: the refs of an earlier observation serve.   *)
ResolvableWhenStale == {ref \in DOMAIN refMap : IsLive(ref)}

(* _resolve: refs of the last observation only, and only while no action   *)
(* has been dispatched since.                                              *)
Resolvable == {ref \in DOMAIN refMap : refsValid /\ IsLive(ref)}

(* Seeded fault of Announce: an attempt the listener refuses goes on.      *)
DispatchAnyway ==
  /\ session = "open" /\ Idle /\ dispatched < MaxCalls /\ Len(notices) < 2 * MaxCalls
  /\ \E ref \in {NoRef} \cup Resolvable :
       /\ \E answer \in {"REFUSED", "DISPATCHED"} : Notify(answer, dispatched + 1)
       /\ dispatched' = dispatched + 1 /\ refsValid' = FALSE
       /\ attempt' = [at |-> "operate", ref |-> ref]
  /\ UNCHANGED <<page, session, stepIndex, refMap, seen, operations>>

(* act() up to the driver: NAVIGATE needs no ref (NoRef).  on_dispatched   *)
(* runs before anything changes: a listener that raises there has refused  *)
(* the attempt, and leaves the surface as it was.                          *)
Announce ==
  /\ session = "open" /\ Idle /\ dispatched < MaxCalls /\ Len(notices) < 2 * MaxCalls
  /\ \E ref \in {NoRef} \cup Resolvable :
       \/ /\ Notify("REFUSED", dispatched + 1)
          /\ UNCHANGED <<dispatched, refsValid, attempt>>
       \/ /\ Notify("DISPATCHED", dispatched + 1)
          /\ dispatched' = dispatched + 1 /\ refsValid' = FALSE
          /\ attempt' = [at |-> "operate", ref |-> ref]
  /\ UNCHANGED <<page, session, stepIndex, refMap, seen, operations>>

(* The driver operation: on the node the recipe finds now, or a failure;   *)
(* either may have moved the page.                                         *)
Operate ==
  /\ attempt.at = "operate"
  /\ operations' = Append(operations, [seq |-> dispatched, observation |-> stepIndex,
                                       ref |-> attempt.ref, told |-> Len(notices)])
  /\ \/ IsLive(attempt.ref) /\ attempt' = [attempt EXCEPT !.at = "completed"]
     \/ attempt' = [attempt EXCEPT !.at = "failed"]
  /\ page' \in Pages
  /\ UNCHANGED <<session, refVars, dispatched, notices, seen>>

(* on_completed or on_failed; raising there changes nothing either.        *)
Report ==
  /\ attempt.at \in {"completed", "failed"}
  /\ Notify(IF attempt.at = "completed" THEN "COMPLETED" ELSE "FAILED", dispatched)
  /\ attempt' = NoAttempt
  /\ UNCHANGED <<page, session, refVars, dispatched, seen, operations>>

Next == Open \/ Close \/ PageMoves \/ Observe \/ Announce \/ Operate \/ Report

Spec == Init /\ [][Next]_vars

------------------------------------------------------------------------------
(* The nodes the locator of an element matches before it and the list of   *)
(* elements does not hold.                                                 *)
Uncounted(tree, e) ==
  {j \in 1..(e.at - 1) : ~tree[j].hasRef /\ Alike(e.role, e.name, tree[j])}

(* While the page has not moved, a ref leads to one element: the one it    *)
(* was issued for, or one before it, and that exactly when nodes the       *)
(* driver gave no ref, which _build_ref_map does not count, precede it     *)
(* among those its locator matches.                                        *)
RefIsItsElement ==
  refsValid /\ page = seen =>
    LET elements == ElementsOf(Tree[page])
    IN  \A k \in DOMAIN refMap : \E i \in 1..elements[k].at :
          /\ Relocated(Tree[page], refMap[k]) = {i}
          /\ i = elements[k].at <=> Uncounted(Tree[page], elements[k]) = {}

(* The claim of _build_ref_map: "Ordinals are counted over exactly the set *)
(* the act-time locator will match", so that on a page that has not moved  *)
(* a ref finds the element it was issued for.                              *)
OrdinalsMatchTheLocator ==
  refsValid /\ page = seen =>
    LET elements == ElementsOf(Tree[page])
    IN  \A k \in DOMAIN refMap : Relocated(Tree[page], refMap[k]) = {elements[k].at}

(* A ref is used once: no two operations were made on the same             *)
(* observation, the second being targeted, and none before an observation. *)
RefsAreFresh ==
  \A i \in DOMAIN operations : operations[i].ref # NoRef =>
    /\ operations[i].observation > 0
    /\ i > 1 => operations[i - 1].observation < operations[i].observation

(* The last thing the listener was told before a driver operation was that *)
(* this attempt is dispatched, under the operation's own number; the end   *)
(* of an attempt is told right after that, once the operation was made;    *)
(* and an attempt the listener refused is not counted.                     *)
AttemptsAreAnnounced ==
  /\ \A i \in DOMAIN operations :
       /\ operations[i].seq = i
       /\ operations[i].told \in DOMAIN notices
       /\ notices[operations[i].told] = [kind |-> "DISPATCHED", seq |-> i]
  /\ dispatched = Len(operations) + (IF attempt.at = "operate" THEN 1 ELSE 0)
  /\ \A m \in DOMAIN notices : notices[m].kind \in {"COMPLETED", "FAILED"} =>
       /\ notices[m].seq \in DOMAIN operations
       /\ operations[notices[m].seq].told = m - 1
=============================================================================
