# A TLA+ model of ai-code-constructor

The repository builds a small Rust program from a description. Its first
generation is a fixed cycle (`src/main.rs`: plan, build, compile, validate,
repair). Its second, `src/harness/`, is an autonomous construction system: an
agent proposes actions, a harness executes them on a working artifact, the
evidence is evaluated against acceptance criteria, and a loop decides whether to
go on, recover, change models or stop. A third part, the model compatibility
probe, measures in a resumable suite of gates whether a provider's model can
drive that loop.

The modules here model the parts whose correctness depends on the order of
things: what survives a crash, which budget decides first, what a counter
remembers, which of two collections a verdict is read from. Paths below are
relative to the repository (`src/...`).

## 1. Inventory

| Component | Source | State it keeps | Operations |
|---|---|---|---|
| Probe scheduler | `harness/model_compatibility_scheduler.rs` | checkpoint file per target and profile: cursor, confirmed gates, budgets, deadline, last pause | load/validate, resume, dispatch, pause, block, confirm, pace, persist, report |
| Probe executor | `harness/model_compatibility_probe.rs` | call budget with clock, pause and rejection flags, samples, circuit | charge, send, classify, aggregate; a unit, or the suite |
| Agent loop | `harness/agent_loop.rs` | iterations, history, recovery progress | one iteration; handling of a classified failure |
| Failure classification, adaptive recovery | `harness/failure_classification.rs`, `harness/adaptive_recovery.rs` | budget of attempts, waits, switches | classify, plan, consume |
| Model routing | `harness/model_routing.rs`, `harness/ai_agent.rs` | active model, visited models, switches | plan, apply |
| Goal progress, goal-driven loop | `harness/goal_driven.rs` | fingerprints, actions, stale count | record, gaps, recommendation, escalation, status |
| Harness runtime | `harness/runtime.rs`, `context.rs`, `action*.rs`, `tool*.rs`, `constraint.rs` | context: observations, evidence, working artifact | execute one action |
| Working artifact | `harness/artifact*.rs`, `correction*.rs` | files, revision | file operations, corrections, commit, materialization |
| Tools | `harness/tools/*` | none | validate, compile, test, clippy, fmt, diagnose, correct |
| Evaluation | `harness/evaluation*.rs`, `observation.rs`, `criterion.rs` | none | judge a criterion from evidence |
| Specification, units | `harness/specification*.rs`, `unit_completion.rs` | the record of a unit: flags, phase, status | validate, plan; mark, verify, report, acknowledge |
| Autonomous construction | `harness/autonomous_construction.rs` | none of its own | validate, plan, first artifact, session, report |
| Live session, bridge | `harness/live_session.rs`, `bridge.rs`, `agent.rs` | trace; what the scripted agents remember | wiring, iteration budget, retries told; planting and repairing defects |
| Model protocol | `harness/model.rs`, `harness/ai_agent.rs` | last error of a proposal | serialize, scan, convert; correct a decision |
| Model clients | `openai_compatible_client.rs`, `retrying_model_client.rs` | record of the last call, retry metrics | call, classify, retry |
| Constructor cycle | `main.rs`, `planner.rs`, `builder.rs`, `compiler.rs`, `validator.rs`, `repairer.rs`, `state.rs` | one `CodeState`: code, errors, feedback, iteration | plan, build, compile, validate, repair |
| Export | `harness/export*.rs`, `feature_flags.rs` | none | write the final artifact |

How they interact. The scheduler calls the executor once per unit, synchronously,
and is the only writer of the checkpoint; a process ends at every pause and the
next one starts from the file. The executor runs direct calls or a whole
AgentLoop. A construction validates and plans, and runs one AgentLoop or
GoalDrivenLoop; the loop calls the agent, the harness and the evaluator in one
thread; the agent calls a model client, which may retry below the loop. The
bridge takes the constructor's code into the same loop, with agents that are
scripts. So the hard behaviour is not threads but *time and order*: kills between
a change and its persist, a clock read twice, budgets charged in one place and
enforced in another, counters and errors that outlive what they counted, and
evidence that is collected at two places and judged at a third. What must be
right, by component:

- scheduler: a restart is always accepted; no confirmed result, charge or final
  state is lost or rewritten; waits are entered only when a retry is possible;
  the suite ends.
- executor: no call outside the budget or past an open circuit; a gate passes only
  on complete samples; nothing untested is confirmed.
- loop, recovery, routing, clients: budgets hold under any mix of failures, the two
  retry budgets together as well; no return to a model left behind; no stop while
  something is left to try; a stall is real; the trace tells what happened.
- harness, artifact: a batch commits as a whole, once, as it was validated, or
  leaves the artifact as it was; what the policy permits does not fail later.
- evaluation: the places that collect evidence and the places that judge it agree;
  what may finish is satisfied, what is satisfied may finish.
- guidance: a failing build is diagnosed, corrected and built, in that order,
  whatever the model answers; the pipeline of criteria is kept.
- construction: what is reported at the end is what the session did.
- protocol: a decision that is read is the one that was written; an error is that
  of this proposal.
- units: a unit is closed exactly when the protocol was followed.
- bridge and constructor: planted defects are repaired, cycles end and tell why.

`PROJECT.json` lists every place in the code exposed to such a hazard, with the
properties about it or the reason there is none.

## 2. Modules

| Module | What it is |
|---|---|
| `ProbeUnits` | the units of the suite and their gates; shared by the next two |
| `ProbeScheduler` | the durable scheduler: processes, disk, clock, faults |
| `ResumableSuite` | abstract: what the scheduler promises, one evaluation without processes |
| `ProbeExecutor` | samples under a call and time budget, a unit or the whole suite |
| `RecoveryPlan` | pure: what to do about a failure: retry, route, stop |
| `AgentLoop` | iterations of a session, applying `RecoveryPlan` |
| `ModelErrors` | pure: how an answer of a provider becomes an error and a class |
| `LiveSession` | `AgentLoop` composed with the retrying clients below it, and its trace |
| `ModelProtocol` | one proposal after the other: call, answer, scanners, action |
| `WorkingArtifact` | pure: the tree of files, batches of operations and corrections, commits |
| `Evaluation` | pure: what evidence says of criteria |
| `HarnessSession` | a session: policy, actions, tools, evidence, evaluation, finish; uses both |
| `VersionedArtifact` | abstract: what a session promises of its artifact, whole numbered versions |
| `AutonomousConstruction` | `HarnessSession` composed with validation, plan and report around it |
| `GuidedSession` | gaps, recommendation, guidance, deterministic agents, goal-driven report |
| `RepairCycle` | abstract: what the guidance promises about a failing build |
| `UnitCompletion` | the record of a unit of work |
| `RepairSession` | the bridge, its scripted agents and the deterministic corrections |
| `ConstructorCycle` | plan, build, compile, validate, repair |
| `MC...` | the small instances TLC checks |
| `...Proofs` | theorems about the module of that name and those composed with it (`LiveSession` with `AgentLoop`, `AutonomousConstruction` with `HarnessSession`), section 4 |
| `CompletionProofs` | theorems about `UnitCompletion` and `ConstructorCycle` |

Operators named after a mistake (`ResumeKeepingDeadline`, `PlanUnbudgeted`, ...)
and commented "Mutant" are variants of the definition that follows them, used to
see that each property depends on that definition. No behaviour uses them.

### ProbeScheduler

`disk` is the checkpoint file, `mem` the checkpoint of the running process, `pc`
its place in `run_with_executor`, `now` the wall clock. `realCalls` is what the
provider has seen; the program does not know it. Each persist is one step,
because the file is written aside, synced and renamed; between two steps the
process may be killed (`Crash`), which also stands for a failed write: the run
then ends with an error and the old file in place.

| Action | Code (`model_compatibility_scheduler.rs`) |
|---|---|
| `CreateCheckpoint`, `RejectCheckpoint`, `ReturnUnchanged`, `ResumeWaiting`, `ResumeReady` | head of `run_with_executor`, `validate_checkpoint` |
| `BlockBeforeUnit`, `Dispatch`, `CompleteSuite` | the loop up to the executor |
| `PauseUnit` | `pause_for_transient` |
| `ExhaustUnit` | a gate of the Budget layer |
| `ConfirmUnit` | confirmation, failed prerequisite included |
| `RejectExecution` | the two executor errors |
| `PaceBegins`, `PaceEnds`, `PaceWakesEarly` | `apply_pacing` |

`ConfirmUnit` leads to `pacing` or back to `loop`; what the executor reports is
any result it may report for that unit. A local unit cannot pause or be paced.
The report and its overall verdict are operators (`Report`, `OverallVerdict`).

### ProbeExecutor

One behaviour is one call of `execute_unit`, or one `run_live` over a suite
(`live`). The steps are those of one model call, with a clock tick possible
between any two: `Charge` (`CallBudget::consume`), `Refuse`,
`TimesOutBeforeSending`, `Send`, then one of the answers. In the repair bundle
the AgentLoop's turns are `NextTurn` and `FinishRepair`; it has no recovery
budget there, so the first failed call ends the sample. `Aggregate` is
`aggregate_samples`, `Decision` what the scheduler then does, `Report` what
`run_live` does with the result: confirm, stop for a prerequisite, or open the
circuit for the units that are left.

### RecoveryPlan, AgentLoop and LiveSession

One step of `AgentLoop` is one iteration of `run`. `ProposalFails`, `UnknownTool`
and `Finish` are its early branches; `RunTool` and `RunNothing` go on to the
evaluation of the goal (`Assess`): a satisfied goal, or a record in the progress
tracker and, at the stale limit, a stall. All failures meet in `HandleFailure`,
which plans with `PlanRouting` and `PlanAdaptive` and charges what was planned.
The goal is a verdict per criterion; a tool may change any of them. A model is
the index of its candidate: the code finds it by provider and id, and the model
assumes what that needs, that no two candidates share both. `last` is a history
variable: the last failure and what was done. Waiting is not a step: nothing else
runs in that thread.

`LiveSession` refines one proposal of that loop into requests: `ClientRetry` is a
request the wrapped client repeats, `CallFails` and `CallAnswered` the last one of
a call and with it the iteration of `AgentLoop`. Some candidates are wrapped, and
one of those is the client whose `ModelRetryObservability` the session was given.
`StepRetries` and `TotalRetries` are what the trace tells. `repeats`, `sent` and
`failing` are histories of what was really asked. `EffectiveIterations` is the
cast of the token budget to iterations.

### ModelErrors and ModelProtocol

A step of `ModelProtocol` is one `AiAgent::propose`: without a key, with a call
that fails, or with an answer. Of an answer the model keeps transport, status,
hint, what arrives of the body, and the content, in which a batch of corrections
or file operations was *written* as JSON and is *read* by the scanners of
`model.rs`. A text is a sequence of tokens, one for each kind of character a
scanner tells apart (quote, backslash, braces, brackets, a wide character, any
other; `lbrace` is the token of an opening brace); keys and operation names are
tokens. `IsBatchItem` says what an item of a batch is: the fields of its operation
and no others. `Closes` is the scan for the end of an array or object, `Scanned`
one character of the reading of a string with its escapes and `ReadString` the
whole of it, `ReadBatch` and `ItemIsValid` what becomes of the result.

### WorkingArtifact, Evaluation, HarnessSession and AutonomousConstruction

One step of `HarnessSession` is one iteration of `AgentLoop::run` seen from the
other side: what `Harness::execute_step` does with the proposed action and what
the loop makes of the evidence. `AgentLoop` has the failures and the recovery,
`HarnessSession` the artifact and the evidence; each leaves to choice what the
other determines. Every kind of `AgentAction` is an action of the module:

| Action | Code (`runtime.rs`, with the constraint of `action_policy.rs`) |
|---|---|
| `Compile`, `Validate` | `ArtifactStateConstraint`; the source of the primary is replaced first |
| `RunCargo` | tests, clippy, format: permission only |
| `RepairDiagnostic` | `RepairDiagnosticConstraint` |
| `ApplyCorrections`, `ApplyFileOperations` | their constraints, `commit_mutation_tool` |
| `InvokeTool`, `NoOp`, `Finish` | by name; nothing; `FinishConstraint` |
| `ProposalFails`, `IterationsExhausted`, `Returned` | the loop around it |

`evidence` is `LoopHistory::evidence`, `context` what `collect_evidence_from_context`
gathers from the observations, where an evaluated run is found twice; `observed`
is the last `CriterionEvaluated` of each criterion. `applied` and `compiled` are
history variables. Evidence is abstracted to the items a verdict reads. A text is
a value; `Effect` says what an edit makes of it, `TrimEnd` what trimming does. The
harness hands a batch to its tool as text: of these encodings only the one of file
operations changes what it carries (`ReceivedFileOperations`). The others are left
out under the assumption that no text holds a separator. A session always has an
artifact and a specification, as `autonomous_construction.rs` starts it.

`AutonomousConstruction` adds what is before and after: a draft specification may
be rejected (`RejectSpecification`), its words choose the kind of plan and the
builder's first files (`PlanKind`, `FirstContents`), `RunSession` is a step of
`HarnessSession`, `Conclude` the result. `run` has no stale limit; sessions that
stop for one (`DetectsStall`) are kept, so the model has more behaviours than
`run` here. The goal-driven variant is in `GuidedSession`.

### GuidedSession and RepairCycle

Here the proposals are not arbitrary. `Recommended` is the action for the primary
gap, `Directed` what a request with its recent diagnostics makes of it, `Guided`
what `validate_model_decision_against_recommendation` turns a decision of the model
into, and a model may decide anything. `MockDecisions` and `GapDecision` are the
two deterministic agents. Instead of the evidence the module keeps a verdict per
kind of criterion, once by all that is known (`known`, what was there before
included) and once by the history of this loop (`earned`); that both collections
give the verdicts of the evidence is `ViewsAgree` of `HarnessSession`. `recent` is
the window of observations a request quotes. The five statuses of
`resolve_goal_status` and the three of the plain construction are `Report`.
`RepairCycle` is the abstract machine of a failing build; `Phase` maps to it.

### UnitCompletion, RepairSession, ConstructorCycle

`UnitCompletion` has one action per operation of `UnitCompletionRecord`; a refused
call changes nothing and is no step. `log`, the calls that were accepted, is a
history the flags are compared with.

`RepairSession` has one step per iteration of the loop over one of the three
scripted agents. A text is the set of words that validator, policy and compiler
look for. `IntroduceValidationDefect` is `for_api`'s planted defect,
`InferCorrections` the rules of `DeterministicCorrectionPolicy`. The harness only
restricts tools, as the bridge builds it, and there is no specification.

`ConstructorCycle` has one step per phase of `main`. A code is the template it was
made from and the statements put into its `main`; a request is the words of it the
planner looks for, how it fits into the line that prints it, and what a compiler's
message that quotes that line would be taken for.

## 3. Runs

| Run | Shows |
|---|---|
| `scheduler_safety` | one fault anywhere, two policies, one unit of each kind: `RunsFromDisk`, `RestartIsAccepted`, `WaitingIsRetryable`, `LostCallsBounded`, `DurableProgress`, `DecidedIsFinal` |
| `scheduler_promise` | two faults, three units: the refinement `RefinesSuite` and the liveness property `Settles` |
| `scheduler_terminal_window` | **violation**: a kill after the last confirmation leaves a file every later run rejects |
| `executor_samples` | certify profile, a direct unit, the bundle and a suite under one budget: `ChargesAreTight`, `PassIsEarned`, `NothingUntestedIsConfirmed`, `TransientNeedsTheBell`, `CallsOnlyWhenAllowed` |
| `loop_recovery` | every mix of failures, evaluations and answers, over clients that retry themselves: `LedgerHolds`, `StopsOnlyWhenSpent`, `StallIsEarned`, `RestoredIsTrue`, `RoutesForward`, and for both budgets together `RetriesMultiply` and `RetriesAreTold` |
| `session_gate` | any proposals in a construction: `ImplementsVersions` about the artifact, `PolicyForesees` about what is permitted and then fails, `ViewsAgree` and `OnlyKnownGaps` about evidence and verdicts, `BlankIsForever`, and `ReportedAsItEnded` about the result |
| `guided_session` | any answers of a guided model, and the two deterministic agents: the refinement `FollowsRepairCycle`, `PipelineInOrder`, and about what is reported `UnhappyEndsHadMetTheGoal` and `FinishIsBelieved` |
| `model_protocol` | written and read back: `HarmlessArrives`; whatever the provider sends, `BlameIsOfThisCall` |
| `protocol_path` | **violation**: a brace in one correction's text lends it the path of the next |
| `constructor_cycle` | every shape of request and compiler: `PlantedDefectIsRepaired`, `BlamedLineReturns`, and that the cycle `Ends` |
| `unit_completion` | every sequence of six calls: `ClosesByProtocol`, `PhaseAgreesWithFlags` |
| `repair_session` | the scripted agents: `CompletionIsOfTheArtifact`, `PlantedDefectIsUndone`, `OnlyLoginsRunOut` |

The two violations are recorded as findings with the sentence of the documentation
they contradict. Each property of a passing run was also seen to fail on a variant
of the code it is about.

Bounds.
- Scheduler: suites of five units (one of each kind the scheduler tells apart:
  local before the prerequisites, prerequisite, action, bundle with three gates,
  final local) or three. The scheduler looks at a unit only through `IsExternal`,
  `IsPrerequisite` and its gates. Three calls, two units of active time, two
  recoveries, a single wait of at most two and a cumulative wait of at most three,
  so every reason to block is reached, and in both orders where two apply. A
  `Retry-After` of 2 fits, one of 3 does not. `MaxFaults` bounds kills, failed
  writes, faulty executors and clock steps; one is enough for each window, two for
  a fault while recovering from one.
- Executor: three samples, two ticks, two turns, seventeen calls: one unit by itself
  runs out of time in the middle of any sample; the suite of five units, with two of
  the nine actions, runs out of calls in its bundle.
- Loop: four iterations with a stale window of two give a baseline, a stall, a
  route and a second stall; two attempts, two switches and three units of waiting
  can each be exhausted, and the agent's own limit of three switches is wider than
  the common one. Two criteria suffice for gains, regressions, lateral moves and
  returns. One wrapped client with one retry of its own, so that the agent meets
  both kinds when it changes models.
- Session: three iterations are a run, a change and a finish, or two runs of which
  the second overtakes the first; specifications with no criterion, one, two tools
  that share a label, two criteria of one kind, and a kind that is never evaluated;
  one tool that is not registered and one that is not permitted. Batches that
  overwrite, move the primary, fail half way, cancel out or do nothing. Drafts of
  every kind of plan; five that are not valid.
- Guided session: four iterations are diagnosis, correction, build and the next
  criterion; windows of two and three observations (five and eight in the code) are
  shorter than a session, so what a request quotes does fall out of them.
- Protocol: batches of up to two items, texts of up to two of the characters the
  scanners trip over, two proposals (an error and what the next makes of it).
- Constructor: limits on both sides of `MAX_ITERATIONS`. Unit: six calls hold two
  whole protocols with a termination between. Bridge: limits of less than a round,
  one round, and more.

Deadlock is checked everywhere: an ended session (`Returned`, `Done`, `Concluded`)
stutters, the scheduler can always be invoked again.

Fairness. In `ProbeScheduler`: a running process takes its next step (`RunStep`;
`execute` is a synchronous call that returns, bounded by the active time it was
given), time passes while a deadline is pending, and whoever runs the probe runs
it again with the policy of the checkpoint. Faults are never fair. In
`ConstructorCycle`: the phases of the one thread follow each other, which assumes
that `rustc` returns. The sessions and the executor have no liveness property:
their steps are bounded by counters.

## 4. Proofs

Every theorem is for all values of the constants its module assumes: suites are
non-empty sequences of units, policies have the zeros
`ProbeSchedulerConfig::validate` refuses excluded, hints and limits are natural
numbers, a catalogue is any sequence of candidates. `BudgetAssumption` says of the
executor's suite what `run_live` makes of it (`model_compatibility_probe.rs:1450`): no
unit comes twice, and nothing comes after the repair bundle. `SessionAssumption` of
`HarnessSession` says that batches are finite sequences of the corrections and file
operations there are, of any length. `ProtocolAssumption` of `ModelProtocol` says the
same of the batches a model may want, whose texts are of any length as well: each item
has the fields of its operation, and a number is written without quotes, as one token.

Of the properties the passing runs check, all but two are stated by a theorem.
A property is seldom inductive: what each theorem rests on is an invariant that says
how the memories it compares are tied, and every `...Inv` below is one.

`ProbeSchedulerProofs`, from the inductive invariant `IInv`:

- `TypeCorrect`, `ActsOnDisk` (`RunsFromDisk`), `RestartAccepted`
  (`RestartIsAccepted`). `RestartIsAccepted` alone is not inductive: that a
  confirmation keeps the file acceptable needs that the process works on what is on
  disk, in a state that fits its place, and that the cursor is inside the suite;
  `Sound` spells out, field by field, what `validate_checkpoint` tests. There is one
  lemma per operation on checkpoints (`SpendIsSound`, `WaitIsSound`,
  `ConfirmIsSound`, ...) and one per group of actions.
- `LostCalls` (`LostCallsBounded`): each step either charges what it sent or is a
  fault that loses at most one grant.
- `WaitsAreRetryable` (`WaitingIsRetryable`): only a pause and a pacing step write a
  wait, each after the checks that leave budget to use it.
- `ProgressIsDurable` (`DurableProgress`): each kind of write to the checkpoint spends,
  waits, confirms or settles, and none of them goes back.
- `DecisionIsFinal` (`DecidedIsFinal`): only a confirmed unit can have failed, and no
  write takes one back; a suite that passed has nothing left that counts.
- `Refinement` (`RefinesSuite`): every step maps to a step of `ResumableSuite` or
  leaves the disk alone. Fairness is not needed for it.

`ProbeExecutorProofs`, all from `ExecutorInv`. Each property reads a total or an
aggregate; the invariant says what they stand for: the two counts of calls differ by
the one that is charged and not sent (`ChargeInv`), a gate that passes so far took a
call in every sample (`CallInv`), a refusal is final and shows in the newest sample
(`RejectInv`), a transient sample was recorded as a pause or is the bundle's that
ran out of time (`BellInv`), a pause ends the unit (`PauseInv`), and what let the
units before this one pass (`SuiteInv`).

- `ChargesStayTight`, `PassStaysEarned`, `NothingUntestedStaysConfirmed`,
  `TransientStaysWithTheBell` and `CallsStayAllowed` prove the five properties of
  `executor_samples` for any number of samples, calls, ticks and units; `TypeCorrect`.
  The lemma `Aggregates` says what each aggregate shows of the samples: a failure or a
  block that one of them had, a pass that all of them had, a budget only when nothing
  else spoke.

`AgentLoopProofs`:

- `LedgerKept` (`LedgerHolds`). The invariant adds the types of the counters; the
  essential lemma is `ChangeHasEscalation`, that a plan which changes the model was
  made with a switch left in the agent's own budget, which is why two separate
  counts cannot drift.
- `RestoredIsEarned` (`RestoredIsTrue`), on top of the ledger: a pending recovery
  was charged, and only it can be restored.
- `ModelsGoForward` (`RoutesForward`). The chosen model is a least one by a key;
  that there is a least one among those that are eligible (`LeastBy`,
  `WeakestChoice`) comes from the well-foundedness of the natural numbers.
- `StallsAreEarned` (`StallIsEarned`). The invariant `StallInv` ties the stale count
  to the history of evaluations: there is a last gain, no evaluation after it gained,
  and the count is at most the number of those evaluations (`RecordKeepsWindow`).
- `StopsAreSpent` (`StopsOnlyWhenSpent`). A plan keeps the model after progress, and
  the progress it reads is a remembered bit. `RecentInv` says that this bit, when it
  is set, is about the last evaluation, so it cannot turn a stall into a stop.
- `RetriesBounded` (`RetriesMultiply`), of `LiveSession`: while a session runs its
  failing requests are within the attempts already charged; only the call that ends
  it may add those of one more.
- `StepsToldTrue` (`StepsAreTold`, one half of `RetriesAreTold`) holds whichever
  clients are wrapped: two lists of the same length have an entry of every call
  (`ListsInv`). `RetriesToldTrue` (`RetriesAreTold`) adds the total, under the
  hypothesis `Wrapped = {Handle}`: the session reads one
  `ModelRetryObservability`, and what another client with retries of its own repeats is
  not in it. The run `loop_recovery` is such an instance.
- `SessionIsLoop`: a step of the live session is a step of `AgentLoop` or leaves its
  variables alone; `SessionKeepsLoop` draws the consequences.

`HarnessSessionProofs`:

- `FinishedIsSatisfied` (`CompletedIsPass`). `Finish` reads last verdicts, the
  property all of the evidence, so the invariant `EvidenceInv` ties the two: a
  criterion last observed to pass still passes on everything. Four lemmas say what
  more evidence does to a verdict: the start of a run and the run of another tool
  leave it, a success decides it, a run passes alone only by success.
- `ViewsStayEqual` (`ViewsAgree`), with `ViewsInv`: what a run adds to one collection
  once and to the other twice moves both verdicts alike.
- `GapsStayKnown` (`OnlyKnownGaps`), the other direction of `FinishedIsSatisfied`:
  `GapsInv` says that what passes was observed to pass, but for the two gaps.
- `VersionsAreWhole` (`ImplementsVersions`). A batch is tried operation by operation
  on a copy, by a recursive function over its length. That a trial which succeeds
  keeps the primary file, and the source of it unless an operation is about it, is
  proved for every batch by looking at the shortest prefix where it would not hold.
- `PolicyIsForeseeing` (`PolicyForesees`), by the same argument: corrections are
  allowed one by one, so a single one that is allowed succeeds; file operations are
  allowed as a batch, and the text of it is the batch unless it ends with a blank file.
- `BlankStays` (`BlankIsForever`).
- `ConstructionReports` (`ReportedAsItEnded`) needs `EvidenceInv` of the session
  inside, and that none ends before its first iteration or starts for a refused
  draft; `ConstructionKeepsSession` carries the theorems above over to it.

`GuidedSessionProofs`, from `GuidedInv`. The guidance reads the newest observations and
the newest outcome, two memories that are written apart: `RecentInv` says that the
newest outcome still quoted is the newest of all. A finish reads the observed verdicts,
the report the history: `EarnedInv` ties those, and `EndInv` how a session ended to
what it had satisfied.

- `SuccessIsBelieved` (`FinishIsBelieved`), `UnhappyEndsMet`
  (`UnhappyEndsHadMetTheGoal`), `PipelineKept` (`PipelineInOrder`): for every
  specification, size of the windows and number of iterations, whatever a model decides.
- `CycleIsFollowed` (`FollowsRepairCycle`): one lemma per kind of step says which
  step of `RepairCycle` it is.

`ModelProtocolProofs`:

- `HarmlessIsRead` (`HarmlessArrives`), for batches of any number of items and texts of
  any length. Nothing is remembered from one proposal to the next that it depends on;
  the whole of it is that the scanners undo what was written, in five steps. A written
  item is compared with its texts by depth alone (`Shadows`): what is written around a
  text, and the escapes in it, add no bracket, so an item nests where its texts do
  (`ItemShadows`). A text that nests makes a block between brackets, and the search for
  the end of a block finds its last character wherever the block stands
  (`EnclosedIsBlock`, `BlockCloses`). So the array is taken out whole (`ArrayBodyIs`) and
  split into the objects it was joined from (`ObjectsAre`). In an object the first place
  with a key is its field, because no text holds a key token (`ExtractIs`). And a string
  is read back one character at a time (`ReadBack`): after the first *i* characters
  the reader holds these, and looks at the first character of what is written of the
  next. Lengths and numbers of items are gone through by `Upward`, induction on a set of
  numbers, which is drawn from the well-foundedness of the natural numbers.
- `BlameIsTimely` (`BlameIsOfThisCall`): each answer that may come back is followed
  through the client, the classification and the agent to what is reported.

`CompletionProofs`:

- `ClosedByProtocol` (`ClosesByProtocol`), from an invariant that says of each flag
  which accepted calls it stands for, and `PhaseIsTrue` (`PhaseAgreesWithFlags`).
- `BlameStays` (`BlamedLineReturns`) and `PlantedIsRepaired`
  (`PlantedDefectIsRepaired`); the invariant `PathInv` is the one path from the
  planted defect to its repair, `BlamedInv` what a kept error does to every version.

`RepairSessionProofs`:

- `CompletedIsOfTheArtifact` (`CompletionIsOfTheArtifact`): the agent proposes what it
  remembers and the tools act on the artifact; `RepairInv` says that these are the same
  text whenever the one is used for the other.
- `PlantedIsUndone` (`PlantedDefectIsUndone`) and `LoginsRunOut`
  (`OnlyLoginsRunOut`): `SessionInv` adds where a session is in its round, which its
  iterations tell, and what text it then has: of a planted defect (`PlantedInv`), of a
  login without messages (`HopelessInv`), of any other text (`RoundInv`, by which
  nothing is left to correct after one correction).

Forms that were chosen so that they can be reasoned about: what the code gathers
from evidence or from a batch is a recursive function of the length here (`Quoted`,
`TriedFileOperations`, `TriedCorrections`), so is what a reader has read up to a
character (`ReadString`), and a case distinction whose conditions overlap is an IF
chain in the order of the code. Brackets are words, since the provers' language has no
braces in strings.

Out of the prover's reach, and checked by TLC only: `Settles` and `Ends`, which rest
on fairness. `PathIsOfItsEdit` and `EveryRestartIsAccepted` do not hold (section 5).

## 5. Disagreements met while modelling

Two are checked as violations (section 3). These were read in the code and are
either part of what a passing property says or left as notes:

- A call that runs out of time between charge and send returns a timeout without
  opening the pause (`model_compatibility_probe.rs:854`), and a transient outcome is
  confirmed; `TransientNeedsTheBell` says exactly when.
- A pause is looked at before the gates (`model_compatibility_scheduler.rs:458`), so
  a decisive failure of an earlier sample is thrown away by a later transient one;
  ADR-001:54 has confirmed failures advance.
- A kill forgets the calls of the unit in flight (`model_compatibility_scheduler.rs:427`):
  `LostCallsBounded` says how many the provider may see beyond `calls_limit`.
- `docs/model-compatibility-smoke-2026-09-01.md:39` describes the circuit wider than
  `run_live` closes it (`model_compatibility_probe.rs:1024`, 1496): after a decisive
  sample the direct units that follow are each asked once (`CallsOnlyWhenAllowed`).
- The stale count survives a change of model (`goal_driven.rs:583`), so a stall may
  be called at the new model's first step, although the comment at 573-577 gives a
  new step room. `StallIsEarned` holds of the evaluations since the last gain.
- The text that carries a batch of file operations is trimmed
  (`tools/file_operations_tool.rs:42`) after it was validated
  (`artifact_mutation.rs:5`): white space at the end of the last source is lost, and
  a blank last file makes the batch unreadable. One of the two ways in which
  `PolicyForesees` allows a permitted batch to fail.
- A satisfied session that corrects its artifact may finish without building it again
  (`model.rs:1080`, against 1100-1102).
- The loop reads in the words of its last summary how a session ended
  (`agent_loop.rs:246`): a compiler failure that says neither "error" nor "fail"
  ends the bridge's session as completed, a met goal whose summary mentions an error
  as failed (`CompletionIsOfTheArtifact`, `UnhappyEndsHadMetTheGoal`).
- The rule for a login without messages inserts a comment the validator does not look
  for, and its session repeats itself to the limit (`OnlyLoginsRunOut`).
- A unit that is closed may be marked again (`unit_completion.rs:161`): its phase and
  its status change, its closure does not; a termination that goes unreported counts
  as a verification, so that a report and its delivery close the unit.
- The constructor keeps the errors of every failed compilation (`repairer.rs:16`), so
  later versions are built for causes that are gone (`BlamedLineReturns`).
- `live_session.rs:610` caps iterations by the token budget; the comment at 52-54
  speaks of tokens.
- The metadata of the last call is not reset by an HTTP error; wide characters are
  read back as two; `classify_plan_kind` finds "api" inside other words;
  `Specification::validate` looks neither at the version nor for criteria; the
  planner's `InvalidSpecification` and `RecoveryAttemptsExhausted` are never reached.

## 6. Not modelled

Text: prompts, redaction, reports, traces, file names, the steps of a plan. I/O:
sockets, `cargo`, materialization, export (`export.rs`, `export_cli.rs`,
`artifact_materialization.rs` write files and decide nothing). `Harness::run`, the
loop before `AgentLoop`, and the mocks of tests. The inference of corrections from
compiler diagnostics in `model.rs`. Clock overflow: the code saturates `u64`
milliseconds. Two processes on one checkpoint: ADR-001 excludes them. A correction
whose byte offset falls inside a character: the process ends. In the sessions, texts
are values or sets of words, so what a keyword inside another word does is not told
apart. In `GuidedSession`: a stale limit of one (every caller gives three), the
empty specification, sessions without the registered tools; a session without
guidance is `HarnessSession`. In `ConstructorCycle`: a request that closes the
string of its line itself. In `RepairSession`: the delimiter rule, which no error of
the validator reaches.

## 7. Plan

What would come next, in this order.

1. The composition of `GuidedSession` with `AgentLoop`: recovery in the middle of a
   repair cycle.
2. The inference of corrections from diagnostics, between `ModelProtocol` and
   `GuidedSession`.
