--------------------------- MODULE ProbeScheduler ---------------------------
(***************************************************************************)
(* The durable scheduler of the model compatibility probe                  *)
(* (src/src/harness/model_compatibility_scheduler.rs).                     *)
(*                                                                         *)
(* One invocation of the CLI is one process: it loads or creates the       *)
(* checkpoint of its target, runs the pending units of the suite in order, *)
(* and persists the checkpoint (temporary file, fsync, rename) after every *)
(* change.  The process can be killed between any two of these steps; what *)
(* the next invocation finds is `disk' and nothing else.  One process runs *)
(* at a time: ADR-001 states a single writer per checkpoint.               *)
(*                                                                         *)
(* Time is counted in units of the shortest wait.  The clock is only ever  *)
(* compared with a deadline it was added to, so it advances only while a   *)
(* deadline is pending; any other passage of time is unobservable.         *)
(***************************************************************************)
EXTENDS Integers, Sequences, ProbeUnits

CONSTANTS
    Ordered,      \* the units of the suite, in execution order
    Policies,     \* the policies an invocation may be given
    Elapses,      \* active time one unit may take
    RetryAfters,  \* Retry-After hints a provider may send
    Verdicts,     \* verdicts a gate of an external unit may end with
    FaultyExecutor, \* may the executor report wrong gates or too many calls
    MaxFaults,    \* bound: crashes, failed writes, bad executors, clock steps
    NoFile        \* no checkpoint

Total == Len(Ordered)

\* ProbeSchedulerConfig::validate refuses zeros in all but the first three.
Policy == [calls_limit : Nat, active_limit : Nat, pacing : Nat,
           max_recoveries : Nat \ {0}, max_single_wait : Nat \ {0},
           max_cumulative_wait : Nat \ {0}, fallback_wait : Nat \ {0}]

ASSUME OrderedAssumption == Ordered \in Seq(Units) /\ Ordered # <<>>

ASSUME PoliciesAssumption == Policies \subseteq Policy

ASSUME ExecutorAssumption ==
    /\ Elapses \subseteq Nat
    /\ RetryAfters \subseteq Nat
    /\ Verdicts \subseteq AllVerdicts

ASSUME FaultsAssumption == FaultyExecutor \in BOOLEAN /\ MaxFaults \in Nat

NoDeadline == -1  \* not_before_unix_ms = None
NoHint == -1      \* retry_after = None

BlockReasons == {"call_limit_reached", "active_elapsed_limit_reached",
                 "retry_after_exceeds_single_wait_cap",
                 "recovery_attempts_exhausted", "cumulative_wait_exhausted"}

Pauses == BlockReasons \cup {"transient", "inter_gate_pacing", "none"}

States == {"ready", "waiting", "completed", "blocked"}

\* What one unit reports: a verdict for each of its gates.  completed_gates is
\* kept unit by unit; the code's vector is the concatenation.
GateResults == UNION {[GatesForUnit(u) -> AllVerdicts] : u \in Units}

Checkpoint == [policy : Policy, state : States, next : Nat,
               completed : Seq(GateResults), calls : Nat, elapsed : Nat,
               recoveries : Nat, waited : Nat,
               not_before : Nat \cup {NoDeadline}, last_pause : Pauses]

ASSUME NoFileAssumption == NoFile \notin Checkpoint

VARIABLES
    disk,       \* the checkpoint file, or NoFile
    mem,        \* the checkpoint of the running process, or NoFile
    pc,         \* where the process is; "down" when none runs
    now,        \* the wall clock
    outcome,    \* how the last invocation ended
    realCalls,  \* provider calls ever made, counted outside the program
    faults      \* faults so far

vars == <<disk, mem, pc, now, outcome, realCalls, faults>>

Locations == {"down", "loop", "executing", "pacing", "sleeping"}

TypeOK ==
    /\ disk \in Checkpoint \cup {NoFile}
    /\ mem \in Checkpoint \cup {NoFile}
    /\ pc \in Locations
    /\ now \in Nat
    /\ outcome \in States \cup {"none", "error", "killed"}
    /\ realCalls \in Nat
    /\ faults \in 0..MaxFaults

-----------------------------------------------------------------------------
NewCheckpoint(p) ==
    [policy |-> p, state |-> "ready", next |-> 0, completed |-> <<>>,
     calls |-> 0, elapsed |-> 0, recoveries |-> 0, waited |-> 0,
     not_before |-> NoDeadline, last_pause |-> "none"]

UnitAt(cp) == Ordered[cp.next + 1]

\* completed_gates holds exactly the gates of the units before the cursor.
CompletedMatchesCursor(cp) ==
    /\ Len(cp.completed) = cp.next
    /\ \A i \in 1..cp.next : DOMAIN cp.completed[i] = GatesForUnit(Ordered[i])

ValidateCheckpoint(cp, p) ==
    /\ cp.policy = p
    /\ cp.next <= Total
    /\ cp.state = "completed" <=> cp.next = Total
    /\ cp.state = "waiting" => cp.last_pause # "none"
    /\ cp.state = "waiting" <=> cp.not_before # NoDeadline
    /\ cp.state = "blocked" => cp.last_pause # "none"
    /\ cp.calls <= cp.policy.calls_limit
    /\ cp.recoveries <= cp.policy.max_recoveries
    /\ cp.waited <= cp.policy.max_cumulative_wait
    /\ CompletedMatchesCursor(cp)

\* Mutant: the process goes on without having written.
GoOnUnpersisted(cp, where) == UNCHANGED disk /\ mem' = cp /\ pc' = where

\* persist_checkpoint: the rename makes the new contents visible at once.
PersistAndGoOn(cp, where) == disk' = cp /\ mem' = cp /\ pc' = where

Exit(how) == mem' = NoFile /\ pc' = "down" /\ outcome' = how

PersistAndExit(cp) == disk' = cp /\ Exit(cp.state)

Blocked(cp, reason) ==
    [cp EXCEPT !.state = "blocked", !.not_before = NoDeadline, !.last_pause = reason]

-----------------------------------------------------------------------------
Init ==
    /\ disk = NoFile
    /\ mem = NoFile
    /\ pc = "down"
    /\ now = 0
    /\ outcome = "none"
    /\ realCalls = 0
    /\ faults = 0

(***************************************************************************)
(* The head of run_with_executor: what an invocation under policy p does   *)
(* with the checkpoint it finds.                                           *)
(***************************************************************************)
CreateCheckpoint(p) ==
    /\ pc = "down"
    /\ disk = NoFile
    /\ PersistAndGoOn(NewCheckpoint(p), "loop")
    /\ UNCHANGED <<now, outcome, realCalls, faults>>

RejectCheckpoint(p) ==
    /\ pc = "down"
    /\ disk # NoFile
    /\ ~ValidateCheckpoint(disk, p)
    /\ Exit("error")
    /\ UNCHANGED <<disk, now, realCalls, faults>>

Loads(p) == pc = "down" /\ disk # NoFile /\ ValidateCheckpoint(disk, p)

\* Completed and blocked checkpoints are final; a wait is not cut short.
ReturnUnchanged(p) ==
    /\ Loads(p)
    /\ \/ disk.state \in {"completed", "blocked"}
       \/ disk.state = "waiting" /\ now < disk.not_before
    /\ Exit(disk.state)
    /\ UNCHANGED <<disk, now, realCalls, faults>>

\* Mutant: the deadline is left in place.
ResumeKeepingDeadline(p) ==
    /\ Loads(p)
    /\ disk.state = "waiting"
    /\ now >= disk.not_before
    /\ PersistAndGoOn([disk EXCEPT !.state = "ready"], "loop")
    /\ UNCHANGED <<now, outcome, realCalls, faults>>

\* Mutant: every resumption starts with a fresh recovery budget.
ResumeWithFreshBudget(p) ==
    /\ Loads(p)
    /\ disk.state = "waiting"
    /\ now >= disk.not_before
    /\ PersistAndGoOn([disk EXCEPT !.state = "ready", !.not_before = NoDeadline,
                                   !.recoveries = 0], "loop")
    /\ UNCHANGED <<now, outcome, realCalls, faults>>

ResumeWaiting(p) ==
    /\ Loads(p)
    /\ disk.state = "waiting"
    /\ now >= disk.not_before
    /\ PersistAndGoOn([disk EXCEPT !.state = "ready", !.not_before = NoDeadline], "loop")
    /\ UNCHANGED <<now, outcome, realCalls, faults>>

ResumeReady(p) ==
    /\ Loads(p)
    /\ disk.state = "ready"
    /\ mem' = disk
    /\ pc' = "loop"
    /\ UNCHANGED <<disk, now, outcome, realCalls, faults>>

(***************************************************************************)
(* One turn of the loop, up to the call of the executor.                   *)
(***************************************************************************)
CompleteSuite ==
    /\ pc = "loop"
    /\ mem.next >= Total
    /\ PersistAndExit([mem EXCEPT !.state = "completed", !.not_before = NoDeadline])
    /\ UNCHANGED <<now, realCalls, faults>>

CallsExhausted(cp) == cp.calls >= cp.policy.calls_limit

ActiveTimeExhausted(cp) == cp.elapsed >= cp.policy.active_limit

BlockBeforeUnit ==
    /\ pc = "loop"
    /\ mem.next < Total
    /\ IsExternal(UnitAt(mem))
    /\ \/ /\ CallsExhausted(mem)
          /\ PersistAndExit(Blocked(mem, "call_limit_reached"))
       \/ /\ ~CallsExhausted(mem)
          /\ ActiveTimeExhausted(mem)
          /\ PersistAndExit(Blocked(mem, "active_elapsed_limit_reached"))
    /\ UNCHANGED <<now, realCalls, faults>>

Dispatch ==
    /\ pc = "loop"
    /\ mem.next < Total
    /\ IsExternal(UnitAt(mem)) => ~CallsExhausted(mem) /\ ~ActiveTimeExhausted(mem)
    /\ pc' = "executing"
    /\ UNCHANGED <<disk, mem, now, outcome, realCalls, faults>>
(***************************************************************************)
(* The executor returns.  It made between 0 and RemainingCalls calls; a    *)
(* local unit makes none and cannot be paused or run out of budget.        *)
(***************************************************************************)
RemainingCalls(cp) == cp.policy.calls_limit - cp.calls

CallsOf(cp) == IF IsExternal(UnitAt(cp)) THEN 0..RemainingCalls(cp) ELSE {0}

\* Mutant: a unit's calls are not charged.
SpendTimeOnly(cp, calls, elapsed) == [cp EXCEPT !.elapsed = @ + elapsed]

Spend(cp, calls, elapsed) ==
    [cp EXCEPT !.calls = @ + calls, !.elapsed = @ + elapsed]

\* Does the recovery budget allow the wait?
RecoveryVerdict(cp, wait) ==
    IF wait > cp.policy.max_single_wait THEN "retry_after_exceeds_single_wait_cap"
    ELSE IF cp.recoveries >= cp.policy.max_recoveries THEN "recovery_attempts_exhausted"
    ELSE IF cp.waited + wait > cp.policy.max_cumulative_wait THEN "cumulative_wait_exhausted"
    ELSE "transient"

\* Mutant: a wait may end past the cumulative cap.
PauseUncapped(cp, wait) ==
    IF CallsExhausted(cp) THEN "call_limit_reached"
    ELSE IF ActiveTimeExhausted(cp) THEN "active_elapsed_limit_reached"
    ELSE RecoveryVerdict(cp, 0)

\* pause_for_transient, in the order of its checks; cp already carries what
\* the interrupted unit spent.  RecoveryVerdict alone is the mutant that waits
\* without looking at calls and active time.
PauseVerdict(cp, wait) ==
    IF CallsExhausted(cp) THEN "call_limit_reached"
    ELSE IF ActiveTimeExhausted(cp) THEN "active_elapsed_limit_reached"
    ELSE RecoveryVerdict(cp, wait)

WaitAfter(cp, wait) ==
    [cp EXCEPT !.recoveries = @ + 1, !.waited = @ + wait, !.state = "waiting",
               !.not_before = now + wait, !.last_pause = "transient"]

PauseUnit ==
    /\ pc = "executing"
    /\ IsExternal(UnitAt(mem))
    /\ \E calls \in CallsOf(mem), elapsed \in Elapses, hint \in RetryAfters \cup {NoHint} :
          LET cp == Spend(mem, calls, elapsed)
              wait == IF hint = NoHint THEN cp.policy.fallback_wait ELSE hint
              verdict == PauseVerdict(cp, wait)
          IN /\ PersistAndExit(IF verdict = "transient" THEN WaitAfter(cp, wait)
                                                        ELSE Blocked(cp, verdict))
             /\ realCalls' = realCalls + calls
    /\ UNCHANGED <<now, faults>>

\* A gate of the Budget layer: the unit ran out of calls or of active time.
ExhaustUnit ==
    /\ pc = "executing"
    /\ IsExternal(UnitAt(mem))
    /\ \E calls \in CallsOf(mem), elapsed \in Elapses,
          reason \in {"call_limit_reached", "active_elapsed_limit_reached"} :
          /\ PersistAndExit(Blocked(Spend(mem, calls, elapsed), reason))
          /\ realCalls' = realCalls + calls
    /\ UNCHANGED <<now, faults>>

\* The synthetic unit is computed, native tool calling is never exercised.
VerdictsOf(u) ==
    CASE u = "retry_after_synthetic" -> {"pass", "fail"}
      [] u = "native_tool_calling" -> {"not_tested"}
      [] OTHER -> Verdicts

NotTested(u) == [g \in GatesForUnit(u) |-> "not_tested"]

Confirm(cp, gates) ==
    [cp EXCEPT !.completed = Append(@, gates), !.next = @ + 1,
               !.state = "ready", !.not_before = NoDeadline]

\* append_prerequisite_results: every later unit is recorded as not tested.
CloseSuite(cp) ==
    [cp EXCEPT !.completed = [i \in 1..Total |-> IF i <= cp.next THEN @[i]
                                                 ELSE NotTested(Ordered[i])],
               !.next = Total, !.state = "completed"]

PrerequisiteFailed(u, gates) == IsPrerequisite(u) /\ gates[u] # "pass"

NeedsPacing(before, after) ==
    /\ after.policy.pacing # 0
    /\ IsExternal(UnitAt(before))
    /\ after.next < Total
    /\ IsExternal(UnitAt(after))

ConfirmUnit ==
    /\ pc = "executing"
    /\ \E calls \in CallsOf(mem), elapsed \in Elapses,
          gates \in [GatesForUnit(UnitAt(mem)) -> VerdictsOf(UnitAt(mem))] :
          LET cp == Confirm(Spend(mem, calls, elapsed), gates)
          IN /\ IF PrerequisiteFailed(UnitAt(mem), gates)
                THEN PersistAndExit(CloseSuite(cp))
                ELSE /\ PersistAndGoOn(cp, IF NeedsPacing(mem, cp) THEN "pacing" ELSE "loop")
                     /\ UNCHANGED outcome
             /\ realCalls' = realCalls + calls
    /\ UNCHANGED <<now, faults>>

\* ExecutorGateMismatch, ExecutorCallBudgetExceeded: the run ends with an
\* error before anything the unit spent is added to the checkpoint.
\* ModelCompatibilityProbe::execute_unit gives no cause for either.
RejectExecution ==
    /\ pc = "executing"
    /\ FaultyExecutor
    /\ faults < MaxFaults
    /\ Exit("error")
    /\ \E calls \in CallsOf(mem) : realCalls' = realCalls + calls
    /\ faults' = faults + 1
    /\ UNCHANGED <<disk, now>>

(***************************************************************************)
(* apply_pacing: a persisted wait between two external units, slept        *)
(* through by the same process.                                            *)
(***************************************************************************)
PaceBegins ==
    /\ pc = "pacing"
    /\ PersistAndGoOn([mem EXCEPT !.state = "waiting", !.last_pause = "inter_gate_pacing",
                                  !.not_before = now + mem.policy.pacing], "sleeping")
    /\ UNCHANGED <<now, outcome, realCalls, faults>>

PaceEnds ==
    /\ pc = "sleeping"
    /\ now >= mem.not_before
    /\ PersistAndGoOn([mem EXCEPT !.state = "ready", !.not_before = NoDeadline], "loop")
    /\ UNCHANGED <<now, outcome, realCalls, faults>>

\* The sleep is over but the wall clock was set back meanwhile.
PaceWakesEarly ==
    /\ pc = "sleeping"
    /\ now < mem.not_before
    /\ faults < MaxFaults
    /\ faults' = faults + 1
    /\ Exit("waiting")
    /\ UNCHANGED <<disk, now, realCalls>>

(***************************************************************************)
(* The environment.                                                        *)
(***************************************************************************)
WaitPending == disk # NoFile /\ disk.state = "waiting" /\ now < disk.not_before

Tick ==
    /\ WaitPending
    /\ now' = now + 1
    /\ UNCHANGED <<disk, mem, pc, outcome, realCalls, faults>>

ClockSetBack ==
    /\ faults < MaxFaults
    /\ now' \in 0..(now - 1)
    /\ faults' = faults + 1
    /\ UNCHANGED <<disk, mem, pc, outcome, realCalls>>

\* The process is killed, or persist_checkpoint fails and the run ends with
\* an I/O error: either way the next invocation finds the old checkpoint.  The
\* calls of the unit in flight have reached the provider.
Crash ==
    /\ pc # "down"
    /\ faults < MaxFaults
    /\ faults' = faults + 1
    /\ Exit("killed")
    /\ IF pc = "executing"
       THEN \E calls \in CallsOf(mem) : realCalls' = realCalls + calls
       ELSE UNCHANGED realCalls
    /\ UNCHANGED <<disk, now>>

Invoke(p) ==
    \/ CreateCheckpoint(p)
    \/ RejectCheckpoint(p)
    \/ ReturnUnchanged(p)
    \/ ResumeWaiting(p)
    \/ ResumeReady(p)

RunStep ==
    \/ CompleteSuite \/ BlockBeforeUnit \/ Dispatch
    \/ PauseUnit \/ ExhaustUnit \/ ConfirmUnit
    \/ PaceBegins \/ PaceEnds

Fault == RejectExecution \/ PaceWakesEarly \/ ClockSetBack \/ Crash

Next ==
    \/ \E p \in Policies : Invoke(p)
    \/ RunStep
    \/ Tick
    \/ Fault

SafetySpec == Init /\ [][Next]_vars

\* A running process keeps running, time passes, and whoever started the probe
\* starts it again under the policy its checkpoint records.
Fairness ==
    /\ WF_vars(RunStep)
    /\ WF_vars(Tick)
    /\ WF_vars(\E p \in Policies : CreateCheckpoint(p) \/ ResumeWaiting(p) \/ ResumeReady(p))

Spec == SafetySpec /\ Fairness
-----------------------------------------------------------------------------
(***************************************************************************)
(* The report an invocation prints, and its overall verdict.               *)
(***************************************************************************)
PrimaryVerdict(cp) ==
    CASE cp.state = "blocked" -> "blocked"
      [] cp.state = "waiting" /\ cp.last_pause # "inter_gate_pacing" -> "inconclusive"
      [] OTHER -> "not_tested"

Report(cp) ==
    [i \in 1..Total |->
        IF i <= cp.next THEN cp.completed[i]
        ELSE [g \in GatesForUnit(Ordered[i]) |->
                 IF i = cp.next + 1 THEN PrimaryVerdict(cp) ELSE "not_tested"]]

\* The verdicts that count: native tool calling is reported but never does.
Relevant(report) ==
    UNION {{report[i][g] : g \in DOMAIN report[i] \ {"native_tool_calling"}} : i \in 1..Total}

\* Mutant: a block hides what has already failed.
VerdictBlockedFirst(cp) ==
    LET found == Relevant(Report(cp))
    IN IF "blocked" \in found THEN "blocked"
       ELSE IF "fail" \in found THEN "fail"
       ELSE IF found = {"pass"} THEN "pass" ELSE "inconclusive"

OverallVerdict(cp) ==
    LET found == Relevant(Report(cp))
    IN IF "fail" \in found THEN "fail"
       ELSE IF "blocked" \in found THEN "blocked"
       ELSE IF found \cap {"inconclusive", "not_tested"} # {} THEN "inconclusive"
       ELSE IF found = {"pass"} THEN "pass" ELSE "not_tested"

-----------------------------------------------------------------------------
(***************************************************************************)
(* Properties.                                                             *)
(***************************************************************************)

\* A running process acts on exactly what a restart would find: in each place
\* of the loop its checkpoint is the one on disk, in the state that place needs.
RunsFromDisk ==
    /\ pc = "down" => mem = NoFile
    /\ pc # "down" => mem # NoFile /\ disk = mem
    /\ pc \in {"loop", "executing", "pacing"} => mem.state = "ready"
    /\ pc \in {"executing", "pacing", "sleeping"} => mem.next < Total
    /\ pc = "sleeping" => mem.state = "waiting"

\* The last unit is confirmed as "ready" and only the next persist writes
\* "completed".  Between the two the file is one no invocation accepts.
InTerminalWindow(cp) == cp.state = "ready" /\ cp.next = Total

\* Whatever a crash leaves behind, the next invocation under the same policy
\* accepts it, the window before the final persist excepted.
RestartIsAccepted ==
    disk # NoFile =>
        ValidateCheckpoint(IF InTerminalWindow(disk) THEN [disk EXCEPT !.state = "completed"]
                                                     ELSE disk, disk.policy)

\* What ADR-001 asks for: a restart at any point continues.  The code breaks it
\* in the window.
EveryRestartIsAccepted ==
    pc = "down" /\ disk # NoFile => ValidateCheckpoint(disk, disk.policy)

\* A wait for the provider is only entered when the unit may be tried again:
\* calls and active time are left, and the unit is an external one.
WaitingIsRetryable ==
    disk # NoFile /\ disk.state = "waiting" /\ disk.last_pause # "inter_gate_pacing" =>
        /\ disk.last_pause = "transient"
        /\ IsExternal(UnitAt(disk))
        /\ ~CallsExhausted(disk)
        /\ ~ActiveTimeExhausted(disk)

\* Each crash loses at most the calls of the unit in flight, so the provider
\* sees at most one calls_limit more per fault.
LostCallsBounded ==
    IF disk = NoFile THEN realCalls = 0
    ELSE realCalls <= disk.calls + faults * disk.policy.calls_limit

\* No write of a checkpoint rewrites a confirmed result, gives back budget, or
\* leaves a final state.
DurableProgress ==
    [][ disk # NoFile =>
          /\ disk'.policy = disk.policy
          /\ disk'.next >= disk.next
          /\ \A i \in 1..disk.next : disk'.completed[i] = disk.completed[i]
          /\ disk'.calls >= disk.calls
          /\ disk'.elapsed >= disk.elapsed
          /\ disk'.recoveries >= disk.recoveries
          /\ disk'.waited >= disk.waited
          /\ disk.state \notin {"completed", "blocked"} ]_disk

\* Pauses, pacing, restarts and blocks never turn a decided suite: once the
\* overall verdict is pass or fail it stays what it is.
DecidedIsFinal ==
    [][ disk # NoFile /\ OverallVerdict(disk) \in {"pass", "fail"} =>
          OverallVerdict(disk') = OverallVerdict(disk) ]_disk

\* If it is run again after every wait and crash, the suite reaches an end:
\* completed, blocked, or the window above, which it never leaves.
Settles ==
    <>(/\ disk # NoFile
       /\ \/ disk.state \in {"completed", "blocked"}
          \/ InTerminalWindow(disk) /\ pc = "down")
(***************************************************************************)
(* Refinement: what is on disk behaves as one evaluation.  Processes, the  *)
(* clock and faults are steps in which nothing happens to it.              *)
(***************************************************************************)
Exists == disk # NoFile

SkippedUnit(i) == NotTested(Ordered[i])

Suite == INSTANCE ResumableSuite WITH
    Length <- Total,
    AllLimits <- Policies,
    Results <- GateResults,
    Skipped <- SkippedUnit,
    NoLimits <- NoFile,
    status <- IF Exists THEN disk.state ELSE "unopened",
    limits <- IF Exists THEN disk.policy ELSE NoFile,
    confirmed <- IF Exists THEN disk.completed ELSE <<>>,
    calls <- IF Exists THEN disk.calls ELSE 0,
    recoveries <- IF Exists THEN disk.recoveries ELSE 0,
    waited <- IF Exists THEN disk.waited ELSE 0

\* The scheduler implements the evaluation the SSD describes.
RefinesSuite == Suite!Spec
=============================================================================
