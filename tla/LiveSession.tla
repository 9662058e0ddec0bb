---------------------------- MODULE LiveSession ----------------------------
(***************************************************************************)
(* A live session (src/src/harness/live_session.rs): AgentLoop over model  *)
(* clients, some of them wrapped by RetryingModelClient                    *)
(* (retrying_model_client.rs), which retries by itself below a loop that   *)
(* retries as well; and the trace that is made of the session.             *)
(*                                                                         *)
(* One step is one HTTP request that the wrapper repeats, or one iteration *)
(* of the loop, whose proposal is the last request of its call.            *)
(***************************************************************************)
EXTENDS AgentLoop, ModelErrors

CONSTANTS
    Wrapped,        \* the candidates whose client retries; 0 without routing
    Handle,         \* the one whose ModelRetryObservability the session was given
    ClientRetries,  \* RetryConfig.max_retries
    Budget,         \* token_budget of the configuration, or NoBudget
    Configured,     \* max_iterations of the configuration
    LiveLimit       \* LIVE_AGENT_MAX_ITERATIONS

NoBudget == -1

Min2(a, b) == IF a < b THEN a ELSE b

\* The budget counts tokens in the configuration and iterations here; it is cast to
\* 32 bits.
EffectiveIterations ==
    IF Budget = NoBudget THEN Min2(Configured, LiveLimit)
    ELSE Min2(Budget % 2^32, Min2(Configured, LiveLimit))

ASSUME SessionAssumption ==
    /\ Wrapped \subseteq 0..Len(Candidates)
    /\ Handle \in Wrapped
    /\ ClientRetries \in Nat
    /\ Budget \in Nat \cup {NoBudget} /\ Configured \in Nat /\ LiveLimit \in Nat
    /\ MaxIterations = EffectiveIterations

VARIABLES
    attempt,   \* retries of the call that is being made
    metrics,   \* RetryMetricsState of the handle: total, per_call
    sent,      \* history: requests of every iteration
    failing,   \* history: requests of iterations that ended in a retryable failure
    repeats    \* history: requests that repeated one that had failed

clientVars == <<attempt, metrics, sent, failing, repeats>>

sessionVars == <<vars, clientVars>>

-----------------------------------------------------------------------------
SessionInit ==
    /\ Init
    /\ attempt = 0
    /\ metrics = [total |-> 0, perCall |-> <<>>]
    /\ sent = <<>>
    /\ failing = 0
    /\ repeats = 0

Errors ==
    {PlainError(kind) : kind \in {"configuration", "authentication", "timeout",
                                  "transport", "invalid_response"}} \cup
    {Error("rate_limited", 0, hint) : hint \in Hints \cup {NoHint}} \cup
    {Error("http", code, NoHint) : code \in {404, 503}}

\* classify_model_error; the hint is only read of what is retried.
Classified(error) ==
    Failure(ClassOf(error), Retryable(error), IF Retryable(error) THEN error.hint ELSE NoHint)

\* The loop goes on to repeat the last proposal on the same model.
LoopRepeats == last.at = iterations /\ last.action = "retry_same_model"

Request == repeats' = IF attempt > 0 \/ LoopRepeats THEN repeats + 1 ELSE repeats

(***************************************************************************)
(* RetryingModelClient::complete.                                          *)
(***************************************************************************)
\* It waits for the hint or its own back-off, neither of which the loop's budget sees.
ClientRetry ==
    /\ status = "running" /\ iterations < MaxIterations
    /\ routing.active \in Wrapped
    /\ attempt < ClientRetries
    /\ \E error \in Errors : Retryable(error)
    /\ attempt' = attempt + 1
    /\ Request
    /\ UNCHANGED <<vars, metrics, sent, failing>>

\* Mutant: only a call that was answered is recorded.
RecordedAnswered ==
    IF routing.active = Handle /\ ~(last'.at = iterations' /\ last'.source = "proposal")
    THEN [total |-> metrics.total + attempt, perCall |-> Append(metrics.perCall, attempt)]
    ELSE metrics

\* record_finished_complete.
Recorded ==
    IF routing.active = Handle
    THEN [total |-> metrics.total + attempt, perCall |-> Append(metrics.perCall, attempt)]
    ELSE metrics

CallEnds ==
    /\ metrics' = Recorded
    /\ attempt' = 0
    /\ sent' = Append(sent, attempt + 1)
    /\ Request

\* The error the wrapper gives up with, or that it is not there to retry.
CallFails ==
    /\ \E error \in Errors :
          /\ Retryable(error) /\ routing.active \in Wrapped => attempt = ClientRetries
          /\ ProposalFails
          /\ last'.failure = Classified(error)
    /\ CallEnds
    /\ failing' = IF last'.failure.retryable THEN failing + attempt + 1 ELSE failing

\* The model answers; its answer may be of no use.
CallAnswered ==
    /\ \/ Finish \/ RunTool \/ RunNothing \/ UnknownTool
       \/ /\ ProposalFails
          /\ last'.failure.class \in {"model_capability", "system_failure"}
    /\ CallEnds
    /\ UNCHANGED failing

SessionEnds == IterationsExhausted /\ UNCHANGED clientVars

SessionReturned == Returned /\ UNCHANGED clientVars

SessionNext == ClientRetry \/ CallFails \/ CallAnswered \/ SessionEnds \/ SessionReturned

SessionSpec == SessionInit /\ [][SessionNext]_sessionVars

-----------------------------------------------------------------------------
(***************************************************************************)
(* build_session_trace.                                                    *)
(***************************************************************************)
\* Every retry the loop decided on consumed an attempt.
TotalRetries == metrics.total + ledger.attempts

NoCount == -1

\* retry_count of the steps: known when there is one finished call for each.
StepRetries ==
    [i \in 1..iterations |->
        IF Len(metrics.perCall) = iterations THEN metrics.perCall[i] ELSE NoCount]

-----------------------------------------------------------------------------
(***************************************************************************)
(* Properties.                                                             *)
(***************************************************************************)
\* Two retry budgets, one below the other: a provider that keeps failing is asked no
\* more often than their product, whatever answers come in between, and no answer or
\* change of model gives the loop its attempts back.
RetriesMultiply == failing <= (MaxAttempts + 1) * (ClientRetries + 1)

\* The total of the trace counts every repeated request once, whichever of the two
\* repeated it, and besides them only a retry that was decided and not made: the one
\* the iterations had no room for.  (With no client wrapped but the handle's.)
TotalIsTold ==
    TotalRetries + attempt = repeats + (IF attempt > 0 \/ LoopRepeats THEN 1 ELSE 0)

\* A count is told of a step only if it is that of its own call, although the two lists
\* are only compared by their lengths and models change in between.
StepsAreTold ==
    \A i \in 1..iterations : StepRetries[i] # NoCount => StepRetries[i] = sent[i] - 1

\* The retries the trace tells of, in all and of every step, are those that were made.
RetriesAreTold == TotalIsTold /\ StepsAreTold
=============================================================================
