---------------------------- MODULE RecoveryPlan ----------------------------
(***************************************************************************)
(* What is decided about a classified failure of the agent: retry the same *)
(* model, route to another one, or stop (failure_classification.rs,        *)
(* model_routing.rs and adaptive_recovery.rs).  The plans are pure; the    *)
(* AgentLoop applies them.                                                 *)
(***************************************************************************)
EXTENDS Integers, Sequences, FiniteSets

CONSTANTS
    Candidates,      \* the models of the agent; <<>> when it has no routing
    MaxAttempts,     \* RecoveryBudget.max_attempts
    Backoff,         \* RecoveryBudget.backoff
    MaxSwitches,     \* AdaptiveRecoveryBudget.max_model_switches
    MaxWait,         \* AdaptiveRecoveryBudget.max_cumulative_wait
    MaxEscalations   \* EscalationBudget.max_switches, the agent's own

\* A candidate is known by its index.  The code knows it by provider and model
\* id, so no two candidates may share both; `id' is the rank of its model id.
Candidate == [id : Nat, capability : Nat, cost : Nat, available : BOOLEAN]

ASSUME CandidatesAssumption == Candidates \in Seq(Candidate)

ASSUME LimitsAssumption ==
    /\ MaxAttempts \in Nat
    /\ Backoff \in Nat
    /\ MaxSwitches \in Nat
    /\ MaxWait \in Nat
    /\ MaxEscalations \in Nat \ {0}

Classes == {"external_transient", "external_permanent", "model_capability",
            "convergence_stalled", "system_failure"}

NoHint == -1  \* no Retry-After

Failure(class, retryable, hint) == [class |-> class, retryable |-> retryable, hint |-> hint]

\* What the harness could not execute is nobody else's fault.
SystemFailure == Failure("system_failure", FALSE, NoHint)

\* What the agent reports of a proposal it could not make.  A transport failure
\* is transient and not retryable; an unusable answer is the model's.
ProposalFailures(hints) ==
    {Failure("external_transient", TRUE, hint) : hint \in hints \cup {NoHint}} \cup
    {Failure(class, FALSE, NoHint) :
        class \in {"external_transient", "external_permanent",
                   "model_capability", "system_failure"}}

-----------------------------------------------------------------------------
(***************************************************************************)
(* The common budget of one run: attempts, switches and waited time.       *)
(***************************************************************************)
NewLedger == [attempts |-> 0, switches |-> 0, waited |-> 0]

AttemptsRemain(ledger) == ledger.attempts < MaxAttempts

CanSwitch(ledger) == ledger.switches < MaxSwitches

ConsumeSwitch(ledger) == [ledger EXCEPT !.switches = @ + 1]

RetryWait(failure) == IF failure.hint > 0 THEN failure.hint ELSE Backoff

PlansRetry(failure, ledger) ==
    /\ failure.class = "external_transient"
    /\ failure.retryable
    /\ AttemptsRemain(ledger)

\* RecoveryStrategy::is_recover holds of these.
RetryStrategies == {"wait_then_retry", "retry_with_backoff"}

StopStrategy(class) ==
    CASE class = "external_transient" -> "stop_external_blocked"
      [] class = "external_permanent" -> "stop_configuration_blocked"
      [] class = "model_capability" -> "stop_model_capability"
      [] class = "system_failure" -> "stop_system_failure"
      [] class = "convergence_stalled" -> "stop_convergence_stalled"

Strategies == RetryStrategies \cup {StopStrategy(class) : class \in Classes}

\* The strategy of plan_recovery, which knows nothing of the waiting time left.
Strategy(failure, ledger) ==
    IF ~PlansRetry(failure, ledger) THEN StopStrategy(failure.class)
    ELSE IF failure.hint > 0 THEN "wait_then_retry"
    ELSE "retry_with_backoff"

CanWait(wait, ledger) == wait = 0 \/ ledger.waited + wait <= MaxWait

\* Mutant: attempts are not counted.
ConsumeWaitOnly(wait, ledger) == [ledger EXCEPT !.waited = @ + wait]

ConsumeRecovery(wait, ledger) ==
    [ledger EXCEPT !.attempts = @ + 1, !.waited = @ + wait]

-----------------------------------------------------------------------------
(***************************************************************************)
(* Routing.  The agent remembers every model it has used.                  *)
(***************************************************************************)
\* The first candidate is active; without candidates there is nothing to route.
NewRouting ==
    [active |-> IF Candidates = <<>> THEN 0 ELSE 1, escalations |-> 0,
     visited |-> IF Candidates = <<>> THEN {} ELSE {1}]

EscalationsRemain(routing) == routing.escalations < MaxEscalations

HasVisited(routing, i) == i \in routing.visited

\* Mutant: models already used may be chosen again.
AlternativesEver(routing) ==
    {i \in DOMAIN Candidates : Candidates[i].available /\ i # routing.active}

Alternatives(routing) ==
    {i \in DOMAIN Candidates :
        Candidates[i].available /\ i # routing.active /\ ~HasVisited(routing, i)}

Escalations(routing) ==
    {i \in Alternatives(routing) :
        Candidates[i].capability > Candidates[routing.active].capability}

\* The order of min_by_key: the weakest, then cheapest, that will do.
Before(i, j) ==
    LET a == Candidates[i]
        b == Candidates[j]
        tie == a.capability = b.capability /\ a.cost = b.cost
    IN \/ a.capability < b.capability
       \/ a.capability = b.capability /\ a.cost < b.cost
       \/ tie /\ a.id < b.id
       \/ tie /\ a.id = b.id /\ i <= j

Route(action, to) == [action |-> action, to |-> to]

ChangesModel(route) == route.action \in {"switch_alternative", "escalate_capability"}

\* plan_routing.  What is not a transient or a system failure stays with the
\* model right after progress.
PlanRouting(failure, routing, recent) ==
    IF Candidates = <<>> THEN Route("none", 0)
    ELSE IF failure.class = "system_failure" THEN Route("stop", 0)
    ELSE IF failure.class = "external_transient" THEN Route("wait_same_model", 0)
    ELSE IF recent THEN Route("stay", 0)
    ELSE IF ~EscalationsRemain(routing) THEN Route("stop", 0)
    ELSE LET choices == IF failure.class = "external_permanent"
                        THEN Alternatives(routing) ELSE Escalations(routing)
         IN IF choices = {} THEN Route("stop", 0)
            ELSE IF failure.class = "external_permanent"
            THEN Route("switch_alternative",
                       CHOOSE i \in choices : \A j \in choices : i <= j)
            ELSE Route("escalate_capability",
                       CHOOSE i \in choices : \A j \in choices : Before(i, j))

\* apply_routing_decision.  It cannot fail: it sees what the plan saw.
ApplyRoute(route, routing) ==
    [active |-> route.to,
     escalations |-> routing.escalations + 1,
     visited |-> routing.visited \cup {route.to, routing.active}]

\* Mutant: the common budget is not asked.
PlanUnbudgeted(failure, ledger, route) ==
    IF PlansRetry(failure, ledger)
    THEN IF CanWait(RetryWait(failure), ledger) THEN "retry_same_model" ELSE "stop"
    ELSE IF ChangesModel(route) THEN "route_model" ELSE "stop"

Actions == {"retry_same_model", "route_model", "stop"}

\* plan_adaptive_recovery.
PlanAdaptive(failure, ledger, route) ==
    IF PlansRetry(failure, ledger)
    THEN IF CanWait(RetryWait(failure), ledger) THEN "retry_same_model" ELSE "stop"
    ELSE IF ChangesModel(route) /\ CanSwitch(ledger)
    THEN "route_model" ELSE "stop"
=============================================================================
