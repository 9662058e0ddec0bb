----------------------------- MODULE AgentLoop -----------------------------
(***************************************************************************)
(* AgentLoop::run (src/src/harness/agent_loop.rs): the iterations of one   *)
(* autonomous session, with the goal's progress tracker (goal_driven.rs)   *)
(* and the recovery and routing of classified failures.                    *)
(*                                                                         *)
(* One step is one iteration: the agent proposes, the harness executes,    *)
(* and what came out is classified.  The model answers as it likes.        *)
(***************************************************************************)
EXTENDS RecoveryPlan

CONSTANTS
    MaxIterations,
    MaxStale,     \* max_stale_iterations; 0 when detection is off
    Criteria,     \* the criteria of the specification
    Tools,        \* labels of the tools the model may ask for
    Hints         \* Retry-After hints a provider may send

ASSUME LoopAssumption ==
    /\ MaxIterations \in Nat
    /\ MaxStale \in Nat
    /\ Hints \subseteq Nat
    /\ IsFiniteSet(Criteria)
    /\ {"noop", "finish"} \cap Tools = {}

Verdicts == {"pass", "fail", "insufficient_evidence"}

\* A fingerprint of the goal: the verdict of every criterion.
Evaluations == [Criteria -> Verdicts]

Passed(state) == {c \in Criteria : state[c] = "pass"}

\* Without criteria nothing can satisfy the goal.
Satisfied(state) == Criteria # {} /\ Passed(state) = Criteria

VARIABLES
    iterations,
    status,     \* LoopStatus
    ledger,     \* AdaptiveRecoveryBudget: attempts, switches, waited
    routing,    \* ModelRoutingState: active model, escalations, visited
    progress,   \* RecoveryProgressState
    tracker,    \* GoalProgressTracker: states and labels seen, stale count
    goal,       \* what the evidence of the session says of each criterion
    executed,   \* for every iteration, whether a tool ran
    last        \* the last classified failure and what was done about it

vars == <<iterations, status, ledger, routing, progress, tracker, goal, executed, last>>

\* loop_status_for_strategy; a retry that cannot wait any longer is blocked.
StatusOf(strategy) ==
    CASE strategy \in RetryStrategies \cup {"stop_external_blocked"} ->
            "external_service_blocked"
      [] strategy = "stop_configuration_blocked" -> "external_configuration_blocked"
      [] strategy = "stop_model_capability" -> "model_capability_failure"
      [] strategy = "stop_convergence_stalled" -> "non_progress"
      [] strategy = "stop_system_failure" -> "system_failure"

Statuses == {"running", "completed", "failed", "max_iterations"} \cup
            {StatusOf(strategy) : strategy \in Strategies}

Labels == Tools \cup {"noop", "finish"}

\* FailureReport, as far as anything is said of it.
Reports ==
    [failure : [class : Classes \cup {"none"}, retryable : BOOLEAN,
                hint : Hints \cup {NoHint}],
     source : {"none", "proposal", "tool", "stall"},
     action : Actions \cup {"none"},
     at : 0..MaxIterations]

Report(failure, source, action, at) ==
    [failure |-> failure, source |-> source, action |-> action, at |-> at]

TypeOK ==
    /\ iterations \in 0..MaxIterations
    /\ status \in Statuses
    /\ ledger \in [attempts : Nat, switches : Nat, waited : Nat]
    /\ routing \in [active : Nat, escalations : Nat, visited : SUBSET DOMAIN Candidates]
    /\ progress \in [meaningful : BOOLEAN, recent : BOOLEAN,
                     pending : BOOLEAN, restored : BOOLEAN]
    /\ tracker \in [states : Seq(Evaluations), labels : Seq(Labels), stale : Nat]
    /\ goal \in Evaluations
    /\ executed \in Seq(BOOLEAN)
    /\ Len(executed) = iterations
    /\ last \in Reports

-----------------------------------------------------------------------------
NewTracker == [states |-> <<>>, labels |-> <<>>, stale |-> 0]

Init ==
    /\ iterations = 0
    /\ status = "running"
    /\ ledger = NewLedger
    /\ routing = NewRouting
    /\ progress = [meaningful |-> FALSE, recent |-> FALSE,
                   pending |-> FALSE, restored |-> FALSE]
    /\ tracker = NewTracker
    /\ goal = [c \in Criteria |-> "insufficient_evidence"]
    /\ executed = <<>>
    /\ last = Report(Failure("none", FALSE, NoHint), "none", "none", 0)

Iteration(tool) ==
    /\ status = "running"
    /\ iterations < MaxIterations
    /\ iterations' = iterations + 1
    /\ executed' = Append(executed, tool)

(***************************************************************************)
(* RecoveryProgressState.                                                  *)
(***************************************************************************)
\* Mutant: whether a recovery was pending is not asked.
ProgressedUnasked(p) ==
    [meaningful |-> TRUE, recent |-> TRUE, pending |-> FALSE, restored |-> TRUE]

Progressed(p) ==
    [meaningful |-> TRUE, recent |-> TRUE, pending |-> FALSE,
     restored |-> p.restored \/ p.pending]

\* Mutant: old progress is not forgotten.
AssessedForgetting(p, improved) == IF improved THEN Progressed(p) ELSE p

Assessed(p, improved) == IF improved THEN Progressed(p) ELSE [p EXCEPT !.recent = FALSE]

RecoveryPending(p) == [p EXCEPT !.pending = TRUE, !.recent = FALSE]

(***************************************************************************)
(* handle_classified_failure, with the progress p known at the call.       *)
(***************************************************************************)
HandleFailure(failure, source, p) ==
    LET route == PlanRouting(failure, routing, p.recent)
        action == PlanAdaptive(failure, ledger, route)
    IN /\ last' = Report(failure, source, action, iterations')
       /\ \/ /\ action = "retry_same_model"
             /\ ledger' = ConsumeRecovery(RetryWait(failure), ledger)
             /\ progress' = RecoveryPending(p)
             /\ UNCHANGED <<status, routing>>
          \/ /\ action = "route_model"
             /\ ledger' = ConsumeSwitch(ledger)
             /\ routing' = ApplyRoute(route, routing)
             /\ progress' = RecoveryPending(p)
             /\ UNCHANGED status
          \/ /\ action = "stop"
             /\ status' = StatusOf(Strategy(failure, ledger))
             /\ progress' = p
             /\ UNCHANGED <<ledger, routing>>

(***************************************************************************)
(* GoalProgressTracker::record_iteration.                                  *)
(***************************************************************************)
LastOf(seq) == seq[Len(seq)]

\* ProgressSignal, against the evaluations so far.
Signal(t, state) ==
    IF t.states = <<>> THEN "unchanged"
    ELSE LET previous == LastOf(t.states)
         IN IF Cardinality(Passed(state)) > Cardinality(Passed(previous)) THEN "improved"
            ELSE IF state = previous THEN "unchanged"
            ELSE IF \E i \in DOMAIN t.states : t.states[i] = state THEN "repeated_state"
            ELSE IF Cardinality(Passed(state)) < Cardinality(Passed(previous))
            THEN "regressed"
            ELSE "unchanged"

Improves(t, state) == Signal(t, state) = "improved"

\* The pair was tried before, or the criteria moved without a net gain.
WastesWindow(t, state, label) ==
    /\ t.states # <<>>
    /\ \/ \E i \in DOMAIN t.states : t.states[i] = state /\ t.labels[i] = label
       \/ LastOf(t.states) # state
       \/ Signal(t, state) \in {"repeated_state", "regressed"}

\* Mutant: progress does not open a new window.
RecordNeverReset(t, state, label) ==
    [states |-> Append(t.states, state), labels |-> Append(t.labels, label),
     stale |-> IF ~Improves(t, state) /\ WastesWindow(t, state, label)
               THEN t.stale + 1 ELSE t.stale]

Record(t, state, label) ==
    [states |-> Append(t.states, state), labels |-> Append(t.labels, label),
     stale |-> IF Improves(t, state) THEN 0
               ELSE IF WastesWindow(t, state, label) THEN t.stale + 1
               ELSE t.stale]

\* classify_progress_stall: did the model have its opportunity?
StallFailure(label) ==
    LET window == {i \in DOMAIN executed' : i > iterations' - MaxStale}
    IN Failure(IF (\E i \in window : executed'[i]) \/ label \in Tools
               THEN "model_capability" ELSE "convergence_stalled", FALSE, NoHint)

\* The end of an iteration that neither failed nor finished.
Assess(state, label) ==
    /\ goal' = state
    /\ \/ /\ MaxStale = 0
          /\ UNCHANGED <<status, ledger, routing, progress, tracker, last>>
       \/ /\ MaxStale > 0
          /\ Satisfied(state)
          /\ progress' = Progressed(progress)
          /\ UNCHANGED <<status, ledger, routing, tracker, last>>
       \/ /\ MaxStale > 0
          /\ ~Satisfied(state)
          /\ tracker' = Record(tracker, state, label)
          /\ LET p == Assessed(progress, Improves(tracker, state))
             IN IF tracker'.stale >= MaxStale
                THEN HandleFailure(StallFailure(label), "stall", p)
                ELSE /\ progress' = p
                     /\ UNCHANGED <<status, ledger, routing, last>>

-----------------------------------------------------------------------------
(***************************************************************************)
(* The iterations.                                                         *)
(***************************************************************************)

\* The model call or its answer failed; the goal is not evaluated.
ProposalFails ==
    /\ Iteration(FALSE)
    /\ \E failure \in ProposalFailures(Hints) : HandleFailure(failure, "proposal", progress)
    /\ UNCHANGED <<tracker, goal>>

UnknownTool ==
    /\ Iteration(FALSE)
    /\ HandleFailure(SystemFailure, "tool", progress)
    /\ UNCHANGED <<tracker, goal>>

\* The model finishes, whatever the goal says.
Finish ==
    /\ Iteration(FALSE)
    /\ status' \in {"completed", "failed"}
    /\ UNCHANGED <<ledger, routing, progress, tracker, goal, last>>

\* A tool may change what the evidence says of any criterion.
RunTool ==
    /\ Iteration(TRUE)
    /\ \E state \in Evaluations, label \in Tools : Assess(state, label)

\* A constraint refuses the action, or it is a no-op.
RunNothing ==
    /\ Iteration(FALSE)
    /\ \E label \in Labels : Assess(goal, label)

IterationsExhausted ==
    /\ status = "running"
    /\ iterations = MaxIterations
    /\ status' = "max_iterations"
    /\ UNCHANGED <<iterations, ledger, routing, progress, tracker, goal, executed, last>>

Returned == status # "running" /\ UNCHANGED vars

Next ==
    \/ ProposalFails \/ UnknownTool \/ Finish \/ RunTool \/ RunNothing
    \/ IterationsExhausted \/ Returned

Spec == Init /\ [][Next]_vars

-----------------------------------------------------------------------------
(***************************************************************************)
(* Properties.                                                             *)
(***************************************************************************)

\* The common ledger holds whatever mix of failures comes, and the agent never
\* changes models without it: its own budget has seen exactly the same switches.
LedgerHolds ==
    /\ ledger.attempts <= MaxAttempts
    /\ ledger.waited <= MaxWait
    /\ ledger.switches <= MaxSwitches
    /\ routing.escalations = ledger.switches
    /\ routing.escalations <= MaxEscalations

\* No oscillation: a model that was left is never taken up again, and a change
\* that is not forced by a permanent external failure goes to a stronger model.
RoutesForward ==
    [][ routing'.active # routing.active =>
          /\ routing'.active \notin routing.visited
          /\ last'.failure.class # "external_permanent" =>
                Candidates[routing'.active].capability >
                    Candidates[routing.active].capability ]_vars

\* The last evaluation of the goal satisfied it or was a gain.
JustImproved ==
    \/ Satisfied(goal)
    \/ /\ Len(tracker.states) > 1
       /\ Cardinality(Passed(LastOf(tracker.states))) >
              Cardinality(Passed(tracker.states[Len(tracker.states) - 1]))

\* When the session is given up, there was nothing left to try: a retryable
\* failure had no attempts or no waiting time left; any other failure but one of
\* the system had no model to go to, or a gain had just been seen.
StopsOnlyWhenSpent ==
    /\ status = "external_service_blocked" /\ last.failure.retryable =>
          \/ ledger.attempts = MaxAttempts
          \/ ~CanWait(RetryWait(last.failure), ledger)
    /\ status \in {"model_capability_failure", "non_progress",
                  "external_configuration_blocked"} =>
          \/ JustImproved
          \/ ledger.switches = MaxSwitches
          \/ routing.escalations = MaxEscalations
          \/ Candidates = <<>>
          \/ Escalations(routing) = {} /\ last.failure.class # "external_permanent"
          \/ Alternatives(routing) = {}

\* When the loop calls a stall, at least MaxStale evaluations of the goal have
\* followed the last gain in passed criteria; failures of the provider in
\* between, however many, do not count.
StallIsEarned ==
    last.source = "stall" /\ last.at = iterations =>
        \E gain \in 1..Len(tracker.states) :
            /\ Len(tracker.states) - gain >= MaxStale
            /\ \A i \in (gain + 1)..Len(tracker.states) :
                  Cardinality(Passed(tracker.states[i])) <=
                      Cardinality(Passed(tracker.states[i - 1]))

\* "Restored" is only claimed after a retry or a change of model was followed by
\* progress, and progress made before a recovery never counts as recent after it.
RestoredIsTrue ==
    /\ progress.restored => progress.meaningful /\ ledger.attempts + ledger.switches > 0
    /\ progress.pending => ~progress.recent /\ ledger.attempts + ledger.switches > 0
=============================================================================
