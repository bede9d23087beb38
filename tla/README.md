# Verification of the computer-use agent (`src/src/cua`)

TLA+ models of the program under `src/`, the TLC runs that check them on small
instances, and theorems about them that TLAPS checks for every value of the
constants. Every definition that stands for code is listed with the lines it
stands for under `map` in `PROJECT.json`.

## 1. The system

The program drives a browser through business transactions of a legacy web
application. *Discovery* lets a language model find a path to a goal; the
*compiler* turns the trace into an artifact; *replay* runs the artifact with no
model at all. Both go through one gate, one surface and one evidence recorder.

| Component | State it keeps | Operations | Talks to |
|---|---|---|---|
| `hitl/control.py` control owner | who owns the session: AUTOMATION, PENDING_HUMAN, HUMAN, RETURNING | escalate, accept, hand_back, restore | read by the gate, moved by the engine |
| `hitl/intervention.py`, `cli.py` handler | none | blocks until the person types done or abort, or input ends | called by the engine while the human owns the browser |
| `policy/` gate | none of its own: static policy, the owner | authorize, dispatch | owner (reads), recorder (decision event), surface (act, on ALLOW only) |
| `evidence/recorder.py` | the active run: seq, step, dispatch count, failure, terminal flag | begin_run, events, store_artifact, terminal, end_run | notified by gate, surface, engine; writes to the sink |
| `evidence/writer.py` | the open file and its buffer | write, close, write_artifact, read_events | the file system |
| `replay/engine.py` | steps, outputs, current step, hand-off, result | run | everything above |
| `replay/resolver.py`, `conditions.py`, `matching.py` | none | poll until one match; evaluate conditions | surface (observe), clock |
| `replay/binding.py` | none | bind inputs into the artifact | engine |
| `surface/` | refs of the last observation, whether they are still valid, counters | open, close, observe, act, screenshot | the browser; notifies the recorder around each operation |
| `discovery/agent.py` | steps, model calls, retries, no-progress counter, deadline | run: observe, decide, validate, dispatch | llm, gate, surface, recorder |
| `discovery/validator.py`, `goal.py`, `observation.py`, `templating.py` | none | judge a decision; verify a goal; digest, evidence, identities; put placeholders into a trace | called by the agent and the compiler |
| `artifact/compiler.py`, `schema.py` | none | compile a trace; validate | store |
| `artifact/store.py` | files under a root | save, load, save_compile_report | the file system |
| `llm/` | none | one HTTP call per decision | discovery |
| `legacy_bank/` | members, balances, transfers, counter | search, member page, transfer form, confirm | the browser |

### What makes each part correct, and what is hard about it

* **Ownership.** Never a driver operation while the human has, is about to get or
  is giving back control; only a verified hand-back restores automation. Hard:
  the owner moves *before* the event that says so is written, and either can fail.
* **Gate.** Everything not listed is denied; an IRREVERSIBLE action is never
  dispatched automatically; a declaration can raise a risk and never lower it.
  Hard: the gate judges an observation, and the page moves on its own.
* **Evidence.** The file is a gap-free chronology, a dispatch is on disk before
  the driver is called, one failure ends the writing, the terminal event is the
  last line. Hard: a write can fail before the line, in the flush or in the fsync.
* **Replay.** Each step once, in order; the result tells the truth about every
  step; SUCCESS only with proof on disk; every run that is not waiting for its
  human ends. Hard: every one of some forty calls can fail.
* **Surface.** A ref is an element of the last observation and of no other, is used
  once, and leads back to its element as long as the page has not moved and every node
  of the element's role and name before it has a ref. Hard: the locator is evaluated at
  act time, over nodes the observation did not list.
* **Discovery.** Bounded by steps and deadline, one corrective retry per decision,
  nothing repeated; refusals are final; a goal is the verifier's word and not the
  model's. Hard: deadline against late answers, no-progress counting one observation
  late, a page that moves between what was observed and what is read.
* **Compiler.** What is compiled satisfies the schema, replays for other inputs than
  the traced ones and depends on its inputs. Hard: an input is known by its value
  only, and values can be short, equal or equal to a word of the page; trace and
  artifact are checked separately, over different records.
* **Store.** An identity keeps its content, and a report is only ever beside the
  artifact it describes. Hard: a crash inside a write, a look and a write that are
  two steps.

The hazards, each at its line and with the properties that cover it, are listed
in `PROJECT.json`.

## 2. Modules

Each line is a module and what it builds on.

```
replay      ReplayEngine        ControlOwner, ActionGate, EvidenceRecorder
            ReplayProperties    ReplayEngine; refines RunContract
            ReplayInvariant     ReplayProperties
policy      PolicyLaws          ActionGate
evidence    RecorderProtocol    EvidenceRecorder
surface     SurfaceProtocol     SurfaceElements
discovery   DecisionValidator   SurfaceElements
            DiscoveryAgent      DecisionValidator, ActionGate, EvidenceRecorder
            DiscoveryProperties DiscoveryAgent
artifacts   ArtifactSchema      InputBinding
            ArtifactCompiler    ArtifactSchema
            CompilerProperties  ArtifactCompiler
            ArtifactStore       -
instances   MCPolicyLaws, MCReplayEngine, MCSurface, MCDiscovery, MCCompiler, MCArtifactStore
proofs      ActionGateProofs, PolicyProofs, ReplayProofs, RecorderProofs, SurfaceProofs,
            DiscoveryProofs, CompilerProofs, StoreProofs
```

* **ControlOwner** - the owner and its four edges (`_EDGES`). An edge asked for from
  the wrong state raises in the code and is a disabled action here.
* **ActionGate** - the gate as operators: routes as sequences of segments,
  `ClassifyRisk`, `EffectiveRisk`, `DenyReason`, `Authorize`.
* **PolicyLaws** - a policy, an owner and a request that change one thing at a time
  (a rule is added, the file is put in any other order, the artifact declares a risk, the owner
  changes); the laws compare the gate's answers before and after.
* **EvidenceRecorder** - recorder and sink. Every call is a pair of operators, one
  for the caller's success and one for its `EvidenceError`; the second keeps the
  three places a write can stop apart (redactor, flush, fsync), because they leave
  different files. The line a failed flush leaves in the file object's buffer is
  part of the state.
* **RecorderProtocol** - the recorder alone, called in any order.
* **RunContract** - what a run promises about the world, with no page, gate or file:
  each step at most once and in order, irreversible ones by the human only, SUCCESS
  only when all are done.
* **ReplayEngine** - `ReplayEngine.run` call by call; `pc` is the call it is at.
  The table below gives the correspondence.
* **ReplayProperties** - types and properties of the engine, and `Contract`, the
  refinement mapping onto RunContract.
* **ReplayInvariant** - the inductive invariant, in named parts.
* **SurfaceElements** - what an observation makes of the accessibility tree: the
  elements in order, their context labels and values, the recipe of each ref (role,
  name, ordinal), where a recipe leads on a page, and the semantic target of an
  element. Pure operators, used by the surface and by discovery.
* **SurfaceProtocol** - the surface under any order of calls. `act` is three steps,
  announcing, operating and reporting, and the page may move between any two.
* **DecisionValidator** - what makes an answer of the model a decision, check by check
  in the validator's order, and the verifier of the savings goal, which sees the trace
  templated (`Templated`): a label or a number that is an input's value is a placeholder
  to it.
* **DiscoveryAgent** - `DiscoveryAgent.run` call by call (second table below), with
  the model as any source of answers.
* **DiscoveryProperties** - what a discovery run promises.
* **InputBinding** - texts as sequences of tokens (a word, a placeholder, something
  that looks like a ref, a selector or a model's marker); templating a text for a set
  of inputs and binding it for another.
* **ArtifactSchema** - what the schema accepts of an artifact.
* **ArtifactCompiler** - `compile`: one step that reads a record of a discovery run and
  ends with an artifact or with the set of its error codes.
* **CompilerProperties** - the same seen from replay: a small console on which the run
  was recorded and on which the artifact is replayed for other inputs.
* **ArtifactStore** - one identity and its report, under processes that persist an
  artifact file operation by file operation and may die between any two.
* **ActionGateProofs, PolicyProofs, ReplayProofs, RecorderProofs, SurfaceProofs,
  DiscoveryProofs, CompilerProofs, StoreProofs** - theorems.
* **MC\*** - instances for TLC. RecorderProtocol needs none.

The engine of replay:

| `pc` | Call in the code | Actions |
|---|---|---|
| begin, bind | `_begin_evidence`, `_bind` | BeginEvidence, Bind |
| step | the loop of `run`, top of `_execute` | BeginStep, BeginCheckpoint |
| resolve | `TargetResolver.resolve` | Resolve, ResolveFails |
| gate | `ActionGate.dispatch` up to the observer, then `_dispatch`'s branches | Decide |
| locate, dispatch, operate, completed, failed | `PlaywrightSurface.act`: `_resolve`, `on_dispatched`, the operation, `on_completed`/`on_failed` | Locate, RecordDispatch, Operate, RecordCompleted, RecordFailed |
| output, postcondition, checkpoint | `_record_output`, `_wait_for` | RecordOutput, AwaitPostcondition, AwaitCheckpoint, WaitFails |
| pre, preshot, request, escalate, accept | `_intervene` before the human: everything fails closed | ObservePre, CapturePre, RequestIntervention, EscalateControl, AcceptControl |
| human | blocked in `handler.intervene` | HumanActs, HandsBack, HandlerRaises |
| handback, return, verify, postshot, verified, settle, restore | `_intervene` after the human: failures are noted and the story goes on | RecordHandBack, ReturnControl, Verify, VerifyBlind, CapturePost, RecordVerified, Settle, RestoreControl |
| terminal, closing, ending | `_record_terminal`, `end_run` | SkipTerminal, ReportOutcome, RecordTerminal, Finish |

The discovery agent:

| `pc` | Call in the code | Actions |
|---|---|---|
| begin | `_begin_evidence` | BeginEvidence |
| step | the head of the loop: step budget, deadline | StopAtHead, BeginStep |
| observe | `_observe`, `_check_progress` | Observe, ObserveFails |
| ask | `_decide` up to the provider | Ask |
| reply | the rest of `_decide`: judge, record the call, accept, refuse or retry | Reply, ProviderFails |
| gate | `ActionGate.dispatch` up to the observer | Gate |
| locate, dispatch, operate, completed, failed | `PlaywrightSurface.act`, then the step record | Locate, Dispatch, Operate, Completed, Failed |
| terminal, end, done | `_record_terminal`, the `finally` clause | Terminal, End |

**Abstractions.** A *page* is everything one observation can show; what the page's
elements match and which conditions hold on it is a table (`Site`). `observe` reads
the elements first and the address last, so a snapshot is a pair of pages. Between
any two calls the page may move by itself (`PageDrifts`). Time is the number of
polls that still fit before a deadline: opening a window picks it, each poll may use
up any number. Messages, identifiers, digests, screenshots' bytes and the copies of
the gate's decision kept in the step records are left out. The conditions are
numbered; which of them look at the address is the constant `Routed`. In discovery a
page carries its accessibility tree, its address, title and headings, because the
validator and the verifier look into them; the clock is one bit, whether the deadline
has passed, which may turn wherever the code looks at it next. Discovery's texts are
opaque: templating replaces a text that is a value, not a value inside a longer text. In
the compiler a text
is a sequence of tokens, as far as templating, the shape checks and the routes tell
characters apart; a value shorter than `MIN_TOKEN_LEN` is a member of `Short`, a
value that is no path segment a member of `Unfit`, and what a transform makes of a
text is the table `Denotes`. What the human
does in the open window is one optional operation per step, with the same effects as
the step's own. A result that fails before binding has no step records in the code
and NOT_REACHED ones here.

## 3. Runs

| Run | Question | Bounds | Result |
|---|---|---|---|
| `recorder` | What does the recorder guarantee under every order of calls and every write failure? | 2 steps, 2 ordinary event types, 4 events a run | holds, about 12 thousand states |
| `recorder_close` | Is nothing written after the first failure? | the same | refuted |
| `policy_laws` | What may rules, order, declarations and ownership do to the answer? | 2 rules, 3 routes, literal and wildcard patterns, 2 targets | holds, about 460 thousand states |
| `replay` | Is every run honest, ordered, exclusive, proven and finite? | 4 steps (navigate, click, irreversible click, read), 7 pages, windows of up to 2 polls | holds, about 100 thousand states |
| `replay_retry` | Does every evidence error after a human act forbid the retry? | the same | refuted |
| `surface` | What are a ref and a notification worth to any caller? | 3 pages of 6 to 11 nodes, 3 observations, 3 attempts | holds, about 1.4 million states |
| `surface_refless` | Are ordinals counted over what the locator matches? | the same | refuted |
| `discovery` | Is every discovery run proven, recorded, bounded and finite? | 5 pages, 11 answers with a right or stale observation, 3 steps, no-progress limit 2 | holds, about 660 thousand states |
| `discovery_torn` | Are the savings of a reached goal the requested member's? | the same | refuted |
| `compiler` | What does every compiled artifact do for other inputs? | all runs of up to 3 actions and a READ, 1 or 2 inputs of 2 long values and a short one; one run damaged in each place; 3 inputs once | holds, about 14 thousand states |
| `compiler_guess` | Does compilation refuse whatever it would have to guess? | the same | refuted |
| `store` | Does an identity keep its content and its report? | 2 processes, 3 contents of different length | holds, about 16 thousand states |

*Why the bounds are enough.* Recorder: four events give every pair of calls around
a failure and around a terminal event, in each order. Policy: two rules give every
agreement and disagreement of a pair; the laws about longer rule lists are proved.
Replay: the plan has one step of each treatment (gate without resolving, plain,
with the human, with an output); the pages include a half-loaded form, two matching
elements, another origin and the declared business outcome; runs follow one another,
so an owner left with the human is met by the next run. Windows of one and two polls
show both timing out at once and after another look; nothing depends on more. A
refused page has the buttons outside the group the plan names, so the element a
descriptor finds and the one the locator finds again differ.
Surface: the trees hold unnamed links in two places, two equal balances, a row that
comes and goes and a button that stands twice, once without a ref, so ordinals differ
between pages and from what the locator counts; three attempts give a refused, a
failed and a completed one around an observation. Discovery: three steps are one more
than the no-progress limit, so the counter can reach it, be reset before, or lose to
the step budget; the answers hold one decision for every check of the validator that
a page can fail, and the wrong member's page has the right member's checking balance
as its savings. Compiler: a run of three actions and a READ is what the search needs;
records are damaged because `compile` reads a file, one place at a time because each
check looks at one place. Store: three contents tell a stale file from a conflicting
one; two processes one after the other any number of times are every history without
overlap.

*The properties of `replay`.* `WriteAhead`, `DispatchedIsTrue` and `AssertionHolds`
relate the driver, the file and the result; `ExclusiveOwnership`,
`IrreversibleNeverAutomated`, `IrreversibleOnlyUnseen` and `RestoreOnlyVerified` say who
may do what; `ControlOnRecord` that the file's transfers show who controls the browser,
the owner being one edge ahead of them only after a failed event; `HumanAskedOnRecord` and
`HumanActNotForgotten` are about the hand-off; `SuccessIsProven` and
`FulfilsContract` about the verdict: SUCCESS stands on the file, and a terminal event that
reached the file although the call that wrote it failed goes with an EVIDENCE_ERROR; `StuckOwnerBlocks` about the run after an
abandoned one; `RunsEnd` about termination. `IrreversibleOnlyUnseen` is deliberately
weaker than "automation never does what policy calls irreversible": TLC shows that a
page that changes between the observation and the click gets past the gate, which is
a limit of the design and not of the code.

*The properties of the other runs.* `MatchedRulesOnlyRaise` starts from a request some rule
matches: the first matching rule replaces the default tier and may be below it, as
`tests/policy/test_risk.py:64-67` has it, so "A rule can only ever raise." (`policy/risk.py:62`)
is true of the rules among themselves. Ordinals are counted over the listed elements, while
the locator counts all nodes of the role: `RefIsItsElement` says what this comes to, that
a ref on an unmoved page finds one element, its own exactly when every node like it before
it has a ref, and an earlier one otherwise; that it is always its own, as the code claims,
is `OrdinalsMatchTheLocator` and refuted. `RefsAreFresh` holds for any order of calls and
any failure, and so does `AttemptsAreAnnounced`: the last thing told before a driver
operation is that this attempt is dispatched, and what the listener refused is not counted. `GoalIsProven` relates the reported balance,
the step that read it and the page it was decided on; `CallsOnRecord` and
`TraceIsRecorded` relate the counters, the trace and the file; `LateWorkIsBounded` says
exactly what may still happen after the deadline (one answer heard, one action done);
`StuckIsUnchanged` says what the no-progress rule amounts to, in both directions.
`ReplaysForOthers` is the promise of templating, with the two conditions it has
(`Comparable`: inputs that shared a value still do, short values are the same; without
either TLC refutes it, which is `compiler_guess`). `NothingHardCoded` is its converse:
a replay depends on every required input. `ChecksCoverTheSchema` relates the compiler's
checks of the record to the schema's of the artifact. `FirstSaveWins` and
`ReportIsTheArtifacts` hold as long as no two processes are at work at once
(`~overlapped`): `save` looks and then writes, and TLC refutes both without that
condition. The repository promises a single process, so this is a limit and not a
finding.

*Fairness.* `FairSpec` is weak fairness of the engine's own steps taken together:
`run` is one thread of straight-line code that blocks nowhere but in the handler, and
each window's polls are finite because the clock advances. The human, the caller and
the page get no fairness: a person may never answer, so `RunsEnd` promises that a run
ends *or* reaches the human. Discovery's `Spec` is fair to `Run`, its own steps taken
together, for the same reason and because every call of the provider and of the driver
has a timeout; the page and the clock get no fairness, so `DiscoveryEnds` does not rest
on the deadline passing.

*Deadlock* is checked where the system can always go on (recorder, policy, replay,
store). Three instances may really stop and say CHECK_DEADLOCK FALSE: a closed surface
is never reopened, a discovery run returns once, a compilation ends once.

*Refuted statements.* Five sentences of the code's own documentation do not hold;
`PROJECT.json` quotes them under `findings`: `safe_to_retry` after a human act
(`replay/result.py:108`), nothing written after a failure (`evidence/recorder.py:16`),
the savings cell of the requested member's page
(`discovery/goal.py:176`: elements and address are read two driver calls apart, and a
READ is located again on the live page), ordinals counted over what the locator matches
(`surface/playwright_surface.py:325`: nodes without a ref), nothing is guessed
(`artifact/compiler.py:14`: short and shared values).

Every property of a passing run has a mutant: a definition of the same module that
breaks it the way a plausible mistake in the code would ("Seeded fault of ..."), and
that no specification uses.

## 4. Proofs

The theorems hold for every plan, site, policy, world, model of the answers, window,
vocabulary and set of processes that the named ASSUMEs of the modules admit. These are
types of the tables (`TreesAssumption`: a page has an accessibility tree), a plan that
is not empty, positive limits, events that are not terminal ones, contents that are not
a file's state, a name for the goal's output (`GoalAssumption`), `AnswersAssumption`:
the model may say anything the strict schema of `llm/openai_client.py` lets through; and
`CallsAssumption`: `compile` is given a record and a declaration of the types that the
evidence and the declaration have, whose targets name their role (the evidence's type
allows an empty one, which the parser of the tree never makes). `TreeAssumption` says that
a page is a tree whose nodes come after their parents, any of them with or without a ref,
`TemplateAssumption` that a placeholder is neither a number nor the label of the Savings row,
and `NamesAssumption` that the input names are listed in an order.

Two theorems have a condition of their own, which the instances satisfy (TLC evaluates it
there as an ASSUME, `CellsHoldNames` and `JourneysRan`). `GoalProven` has `CellsAreText`:
the text of a cell is its accessible name, which is what `surface/aria.py:52` takes for
granted ("Roles whose accessible name *is* their content") and a page with labelled cells
would not grant. `ReplaysForTheOthers` has `RanAs`: the record is that of a run on the
console of CompilerProperties, of any length and any decisions the validator permits, and
no input is one of the few words that console shows anyway.

| Module | Theorem | Property of a run |
|---|---|---|
| ReplayProofs | TypeCorrect | TypeOK |
| | NeverAutomated | IrreversibleNeverAutomated |
| | OwnedOperations | ExclusiveOwnership |
| | ReportsTruly | DispatchedIsTrue |
| | AssertionNeverRaises | AssertionHolds |
| | HumanActsReported | HumanActNotForgotten |
| | StuckStaysStuck | StuckOwnerBlocks |
| | OnlyUnseenPages | IrreversibleOnlyUnseen |
| | ImplementsContract | FulfilsContract (refinement) |
| | WritesAhead | WriteAhead |
| | SuccessProven | SuccessIsProven |
| | ControlShown | ControlOnRecord |
| | AskedOnRecord | HumanAskedOnRecord |
| | RestoresVerified | RestoreOnlyVerified |
| PolicyProofs | NeverSilentlyIrreversible | NoSilentIrreversible |
| | DeclarationsRaise | DeclarationOnlyRaises |
| | DenialsStayHard | DenialsAreHard |
| | OrderNeverMatters | OrderIsIrrelevant |
| | MatchedRulesRaise | MatchedRulesOnlyRaise |
| RecorderProofs | RecorderTypes | TypeOK |
| | GapFree | Chronology |
| | NothingAfterTerminal | TerminalIsLast |
| | FailuresLast | FailureIsFinal |
| | DispatchesPersisted | DispatchCountPersisted |
| SurfaceProofs | RefsServeOnce | RefsAreFresh |
| | OperationsAnnounced | AttemptsAreAnnounced |
| | RefsFindTheirElements | RefIsItsElement |
| DiscoveryProofs | LateIsBounded | LateWorkIsBounded |
| | StuckWhenUnchanged | StuckIsUnchanged |
| | CallsRecorded | CallsOnRecord |
| | TraceRecorded | TraceIsRecorded |
| | GoalVerified | the first conjunct of GoalIsProven, with no condition |
| | GoalProven | GoalIsProven |
| | DispatchesAgree | the assertion in `_act`, not checked by a run of its own |
| CompilerProofs | EndsOnce | TypeOK |
| | ChecksCover | ChecksCoverTheSchema |
| | NothingIsHardCoded | NothingHardCoded |
| | ReplaysForTheOthers | ReplaysForOthers |
| StoreProofs | OneArtifactPerIdentity | FirstSaveWins |
| | ReportsMatch | ReportIsTheArtifacts |

*Replay: who acts.* `Invariant == TypeOK /\ Control`. The properties alone are not
inductive: that the driver operates an allowed action only is known at the gate and used
four calls later. `Control` carries it along: at each call it says where the step counter
is (`StepPlace`), who owns the browser and what the gate had answered (`Ownership`). At the
gate the answer is related to ownership and declaration by
`ActionGateProofs!AuthorizeFacts`: an ALLOW is given to the owner only, and not to a
declared IRREVERSIBLE step, because a declaration can only raise the tier. Each group
of calls has a lemma for the types and one for `Control`, with one step per action.

*Replay: what is reported.* `ReportInv` adds what is known of the steps. `Progress` and
the marks of `Truth` (together `Standing`): the steps behind are done once, those ahead
not at all, and the current one is as far as `pc` says, with `dispatched` lagging behind
the driver for exactly as long as the call is out. `Counts`: the recorder's count is the
recorder's count at the start of the step plus at most one, and is the number of marked
steps plus the one in the driver (`Tally`, over the cardinality of a finite set), which is
the engine's own assertion. `Conduct`: who may still act after an abandoned run, where a
human's act is known, what was judged before the driver is called, and which outputs
exist.

*Replay: the refinement.* `Contract` maps a step to "the human", "automation" or
"nobody" by its mark and its number of attempts. StartRun is the contract's start,
Operate and Settle are a step done, Finish is the verdict, and every other action leaves
the mapped state alone; `Progress` says that the step done is the next one, and
`VerdictPlace` that SUCCESS is past the last.

*Replay: what is on disk.* `EvidenceInv == ReportInv /\ Evidence`. `Recording` says at each
call which step the recorder stamps and that a failed recorder under way is one the
engine has noted; `Filed` which line the current call rests on and which every step
behind left (`Backed`); `Framed` is about the first and the last line, `Asked` counts
the transfers of control of the current step. Lines are only ever appended, so what was
in the file stays; each emitting call has a lemma saying which single line it adds.

*Replay: what the file says.* `DiskInv == EvidenceInv /\ OnDisk`. `Sinking` says when a line
may wait in the buffer, `LastWord` that a file has no terminal event before the end and
then none the result contradicts, the waiting line included, and `OwnerShown` that the owner
is where the transfers in the file lead to (`Abreast`) or one edge ahead (`Ahead`), the
latter only with failed evidence and no terminal event. A failed flush makes an edge
ahead of the file and its line may follow at the release, so both are cases of one lemma
(`TransferDisk`); no other call writes a transfer or moves the owner.

*Policy.* The laws rest on `MostSevereIsMax` (the chosen tier dominates the matched
ones) and on the set of matched tiers not depending on the rules' order.

*Recorder.* The numbers of the file's lines are not inductive: a line whose flush
failed is in neither the file nor the past, and the close adds it later.
`RecorderInv` therefore says that `seq` numbers the last line while evidence is healthy
(`Numbered`), that a waiting line exists only in a failed run and carries the next
number (`Waiting`), and that wherever a line may still be added the file has no
terminal event (`NotEnded`). `FailedWrite` covers the three places a write can stop.
Lines of a type are counted as the cardinality of a set of positions, so that a write
changes the count by what it appends and no induction over the file is needed.

*Surface.* `SurfaceInv` adds `Unspent` (no operation is younger than the last
observation; while its refs serve, none is as young, and refs never serve while an
attempt is under way) and `Announced` (an attempt under way is the last thing the listener
was told). That refs find their elements needs little of the behaviour (`Built`: while refs
serve, they are the recipes of the page seen) and much of the data. `ElementsOf` takes the
listed nodes by how many are before them, and `NthMember` says that this is a bijection onto
1..n that keeps the order. The elements before the k-th that are like it are then as many as the nodes with a ref
before its node that are like it (`SameCount`), which are no more than all such nodes and
fewer if one of them has no ref (`CountedShort`); exactly one node has that many before it,
and it is not after the element's own (`RecipeFinds`).

*Discovery.* `DiscoveryInv` is a conjunction of what each property needs at every call.
`Ledger` is the lemma the ones about the file rest on: every action of the agent writes
its one event, or none, or ends the run's evidence. `Late` lists what may have been done
since the deadline. `Streak` relates the counter to the history: the last `unchanged + 1`
observations are alike *and the one before them is not* (`AlikeSince`); the maximality is
what makes "stuck" an equivalence. `Spent` and `Called` relate calls, retries and
steps to the file. `Trace` says that the steps with a dispatch, with a completion and in
the trace are the same set, with the step in the driver or lost to a driver error apart.
`Verified` keeps, for every step of the trace, what the snapshot it was decided on
showed; a FINISH that passes the validator (`VerdictSays`: a verdict is the code of a
check that fails) satisfies the goal's verifier, and its unique match on that snapshot is
the Savings cell. `TextInv` adds what was read. The ref of a READ leads, on whatever page is
live when the driver is called, to a node of the role and the name of the cell it was given
for; with `CellsAreText` both show that name, so the text that comes back is the value of
the cell on the snapshot (`CellShowsName`), and stays so in the completed step, in the trace
and in the result. `discovery_torn` does not contradict it: the number is the snapshot's,
but the snapshot's address may be of another page.

*Compiler.* Texts are compared position by position, which needs no induction. `CompilerInv` says of an ended call which checks were passed.
`CheckedIsValid` goes through the schema rule by rule and names the check that covers it:
the shape of a step (`ShapeFacts`), its references (`ReferencesAreScanned`: every text
that refers to an input is scanned), required inputs that are used (`ActedOnIsReferred`),
one READ for each output (`OneProducer`, by the cardinality of the producers). For
`NothingIsHardCoded` a required input is a placeholder at some position of a text that is
acted on, and of the route of the checkpoint; binding goes position by position, so
different values differ there (`BoundDiffers`).

*Compiler: other inputs.* `ReplaysForTheOthers` compares two runs of the console, the
recorded one with the traced inputs and the replay with new ones. What a token becomes when
it is templated with the one and bound with the other is `Again`: the value of an input
becomes the new value of that input, whichever of the inputs of that value the templater
picked (here `Comparable` is used), and a word that is no value stays. A short value left in a
text makes no difference, because the new one is the same (`TextAgain`). What a decision
says, bound with the new inputs, is what it said with the old ones, token by token again
(`BoundAgain`). So after every step the page of the replay is the recorded page again
(`PagesAgain`), and targets, postconditions and checkpoint, all read off the recorded pages,
are found and hold on it (`IdentityAgain`, `RouteHolds`, `ValueHolds`).

*Induction.* A run of any length calls for one, and the library's induction theorems cannot
be instantiated here. Where one is needed it is an argument about a set: the indices at
which a fact fails have a least one if there is any (`LeastOf`, from the well-foundedness
of < on Nat), and there the fact holds because it holds before. `SomeJourney` proves in this
way that the recursive definition of `Journey` has a solution, and `PagesAgain` that the
pages of the two runs correspond.

*Store.* `StoreInv` adds, while no two processes have overlapped, that at most one is
at work (`Alone`), what the files hold between processes (`Settled`) and what the
process at work knows of them (`Known`); a text written over an empty file is that
text whatever its length (`WrittenOnEmpty`), so mixed files need an overlap.

*Model-checked only.* `RunsEnd` and `DiscoveryEnds`: liveness under fairness is out of the
prover's reach. Every other property of a passing run is a theorem. What the violation runs
refute is shown by the behaviours TLC finds.

## 5. Not modelled

* **The legacy bank** is the application the agent is pointed at, "a synthetic target".
  For the agent its pages are the environment, and they enter the models as pages that
  move by themselves. It promises nothing about its request threads or about repeated
  confirmations that a property could state; both hazards are listed with that note.
* **Redaction** works on the characters of texts, which no model here looks into. That
  it can refuse an event is one of the three places a write stops. The event schema is
  data without behaviour.
* **Replay resolution** is modelled by its loop and the order of its answers; what a
  strategy or a condition looks at is a table per page. **Transforms** are a table of
  the texts that convert.
* Parsing the driver's text into an accessibility tree, the outline shown to the model,
  screenshots, HTTP, prompts and wording, the reading back of evidence files, the
  compile report's contents (derived from what is modelled), and the empty runner, CLI
  and console packages.
