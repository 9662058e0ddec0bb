------------------------ MODULE ProbeSchedulerProofs ------------------------
(***************************************************************************)
(* Proofs about ProbeScheduler, for every suite, every set of policies and *)
(* any number of faults.                                                   *)
(***************************************************************************)
EXTENDS ProbeScheduler, TLAPS

\* RestartIsAccepted of one checkpoint, spelled out field by field.
Sound(cp) ==
    /\ cp \in Checkpoint
    /\ cp.next <= Total
    /\ cp.state = "completed" => cp.next = Total
    /\ cp.state \in {"waiting", "blocked"} => cp.next < Total /\ cp.last_pause # "none"
    /\ cp.state = "waiting" <=> cp.not_before # NoDeadline
    /\ cp.calls <= cp.policy.calls_limit
    /\ cp.recoveries <= cp.policy.max_recoveries
    /\ cp.waited <= cp.policy.max_cumulative_wait
    /\ CompletedMatchesCursor(cp)

\* The inductive invariant.
IInv ==
    /\ TypeOK
    /\ RunsFromDisk
    /\ disk # NoFile => Sound(disk)

-----------------------------------------------------------------------------
(***************************************************************************)
(* What the operators on checkpoints preserve.                             *)
(***************************************************************************)

\* A checkpoint has the fields of a checkpoint.
LEMMA CheckpointFields ==
    ASSUME NEW cp \in Checkpoint
    PROVE  /\ cp.policy \in Policy
           /\ cp.state \in States
           /\ cp.next \in Nat
           /\ cp.completed \in Seq(GateResults)
           /\ cp.calls \in Nat
           /\ cp.elapsed \in Nat
           /\ cp.recoveries \in Nat
           /\ cp.waited \in Nat
           /\ cp.not_before \in Nat \cup {NoDeadline}
           /\ cp.last_pause \in Pauses
           /\ cp.policy.calls_limit \in Nat
           /\ cp.policy.active_limit \in Nat
           /\ cp.policy.pacing \in Nat
           /\ cp.policy.max_recoveries \in Nat
           /\ cp.policy.max_single_wait \in Nat
           /\ cp.policy.max_cumulative_wait \in Nat
           /\ cp.policy.fallback_wait \in Nat
BY DEF Checkpoint, Policy

LEMMA TotalPositive == Total \in Nat \ {0} /\ DOMAIN Ordered = 1..Total
BY OrderedAssumption DEF Total

\* The unit at the cursor is a unit of the suite.
LEMMA UnitAtCursor ==
    ASSUME NEW cp \in Checkpoint, cp.next < Total
    PROVE  UnitAt(cp) \in Units
BY OrderedAssumption, TotalPositive, CheckpointFields DEF UnitAt, Total

\* What Init of a suite writes is acceptable.
LEMMA NewIsSound ==
    ASSUME NEW p \in Policies
    PROVE  Sound(NewCheckpoint(p)) /\ NewCheckpoint(p).state = "ready"
BY PoliciesAssumption, TotalPositive
   DEF Sound, NewCheckpoint, Checkpoint, States, Pauses, NoDeadline,
       CompletedMatchesCursor, Policy

\* Blocking an unfinished checkpoint keeps it acceptable.
LEMMA BlockedIsSound ==
    ASSUME NEW cp, Sound(cp), cp.next < Total, NEW reason \in BlockReasons
    PROVE  Sound(Blocked(cp, reason)) /\ Blocked(cp, reason).state = "blocked"
BY DEF Sound, Blocked, Checkpoint, States, Pauses, BlockReasons, NoDeadline,
       CompletedMatchesCursor

\* Charging a unit within the remaining calls keeps it acceptable.
LEMMA SpendIsSound ==
    ASSUME NEW cp, Sound(cp), NEW elapsed \in Nat, NEW calls \in 0..RemainingCalls(cp)
    PROVE  /\ Sound(Spend(cp, calls, elapsed))
           /\ Spend(cp, calls, elapsed).state = cp.state
           /\ Spend(cp, calls, elapsed).next = cp.next
           /\ Spend(cp, calls, elapsed).policy = cp.policy
           /\ Spend(cp, calls, elapsed).calls = cp.calls + calls
<1> DEFINE new == Spend(cp, calls, elapsed)
<1>1. cp \in Checkpoint
  BY DEF Sound
<1>2. /\ cp.calls \in Nat /\ cp.elapsed \in Nat /\ cp.policy.calls_limit \in Nat
      /\ cp.calls <= cp.policy.calls_limit
  BY <1>1, CheckpointFields DEF Sound
<1>3. /\ cp.calls + calls \in Nat
      /\ cp.elapsed + elapsed \in Nat
      /\ cp.calls + calls <= cp.policy.calls_limit
  BY <1>2 DEF RemainingCalls
<1>4. /\ new.policy = cp.policy
      /\ new.state = cp.state
      /\ new.next = cp.next
      /\ new.completed = cp.completed
      /\ new.calls = cp.calls + calls
      /\ new.recoveries = cp.recoveries
      /\ new.waited = cp.waited
      /\ new.not_before = cp.not_before
      /\ new.last_pause = cp.last_pause
  BY <1>1 DEF Spend, Checkpoint
<1>5. new \in Checkpoint
  BY <1>1, <1>3 DEF Spend, Checkpoint
<1>6. QED
  BY <1>3, <1>4, <1>5 DEF Sound, CompletedMatchesCursor

\* A wait the recovery budget allows keeps the checkpoint acceptable.
LEMMA WaitIsSound ==
    ASSUME NEW cp, Sound(cp), cp.next < Total, NEW wait \in Nat, now \in Nat,
           RecoveryVerdict(cp, wait) = "transient"
    PROVE  Sound(WaitAfter(cp, wait)) /\ WaitAfter(cp, wait).state = "waiting"
<1>1. /\ cp.recoveries < cp.policy.max_recoveries
      /\ cp.waited + wait <= cp.policy.max_cumulative_wait
  BY CheckpointFields DEF RecoveryVerdict, Sound
<1> DEFINE new == WaitAfter(cp, wait)
<1>2. cp \in Checkpoint /\ cp.recoveries \in Nat /\ cp.waited \in Nat
      /\ cp.policy.max_recoveries \in Nat
  BY CheckpointFields DEF Sound
<1>3. /\ cp.recoveries + 1 \in Nat
      /\ cp.recoveries + 1 <= cp.policy.max_recoveries
      /\ cp.waited + wait \in Nat
      /\ now + wait \in Nat
  BY <1>1, <1>2
<1>4. /\ new.policy = cp.policy
      /\ new.state = "waiting"
      /\ new.next = cp.next
      /\ new.completed = cp.completed
      /\ new.calls = cp.calls
      /\ new.recoveries = cp.recoveries + 1
      /\ new.waited = cp.waited + wait
      /\ new.not_before = now + wait
      /\ new.last_pause = "transient"
  BY <1>2 DEF WaitAfter, Checkpoint
<1>5. new \in Checkpoint
  BY <1>2, <1>3 DEF WaitAfter, Checkpoint, States, Pauses
<1>6. now + wait # NoDeadline
  BY <1>3 DEF NoDeadline
<1>7. QED
  BY <1>1, <1>3, <1>4, <1>5, <1>6 DEF Sound, CompletedMatchesCursor

\* Confirming the unit at the cursor with its own gates keeps the checkpoint
\* acceptable; it is ready, one unit further.
LEMMA ConfirmIsSound ==
    ASSUME NEW cp, Sound(cp), cp.next < Total,
           NEW gates \in [GatesForUnit(UnitAt(cp)) -> AllVerdicts]
    PROVE  /\ Sound(Confirm(cp, gates))
           /\ Confirm(cp, gates).state = "ready"
           /\ Confirm(cp, gates).next = cp.next + 1
           /\ Confirm(cp, gates).completed = Append(cp.completed, gates)
           /\ Confirm(cp, gates).policy = cp.policy
           /\ Confirm(cp, gates).calls = cp.calls
<1> DEFINE new == Confirm(cp, gates)
<1>1. /\ cp \in Checkpoint
      /\ cp.next \in Nat
      /\ cp.completed \in Seq(GateResults)
      /\ Len(cp.completed) = cp.next
  BY CheckpointFields DEF Sound, CompletedMatchesCursor
<1>2. gates \in GateResults
  BY <1>1, UnitAtCursor DEF GateResults
<1>3. /\ Append(cp.completed, gates) \in Seq(GateResults)
      /\ Len(Append(cp.completed, gates)) = cp.next + 1
      /\ \A i \in 1..cp.next : Append(cp.completed, gates)[i] = cp.completed[i]
      /\ Append(cp.completed, gates)[cp.next + 1] = gates
      /\ cp.next + 1 \in Nat
  BY <1>1, <1>2
<1>4. /\ new.policy = cp.policy
      /\ new.state = "ready"
      /\ new.next = cp.next + 1
      /\ new.completed = Append(cp.completed, gates)
      /\ new.calls = cp.calls
      /\ new.recoveries = cp.recoveries
      /\ new.waited = cp.waited
      /\ new.not_before = NoDeadline
      /\ new.last_pause = cp.last_pause
  BY <1>1 DEF Confirm, Checkpoint
<1>5. new \in Checkpoint
  BY <1>1, <1>3 DEF Confirm, Checkpoint, States
<1>6. CompletedMatchesCursor(new)
  <2>1. \A i \in 1..cp.next : DOMAIN cp.completed[i] = GatesForUnit(Ordered[i])
    BY DEF Sound, CompletedMatchesCursor
  <2>2. DOMAIN gates = GatesForUnit(Ordered[cp.next + 1])
    BY DEF UnitAt
  <2>3. 1..(cp.next + 1) = (1..cp.next) \cup {cp.next + 1}
    BY <1>1
  <2>4. QED
    BY <1>3, <1>4, <2>1, <2>2, <2>3 DEF CompletedMatchesCursor
<1>7. cp.next + 1 <= Total
  BY <1>1, TotalPositive
<1>8. QED
  BY <1>4, <1>5, <1>6, <1>7 DEF Sound

\* Closing the suite off keeps the results so far and is acceptable.
LEMMA CloseIsSound ==
    ASSUME NEW cp, Sound(cp), cp.state = "ready"
    PROVE  /\ Sound(CloseSuite(cp))
           /\ CloseSuite(cp).state = "completed"
           /\ CloseSuite(cp).policy = cp.policy
           /\ CloseSuite(cp).calls = cp.calls
<1> DEFINE new == CloseSuite(cp)
           log == [i \in 1..Total |-> IF i <= cp.next THEN cp.completed[i]
                                      ELSE NotTested(Ordered[i])]
<1>1. /\ cp \in Checkpoint
      /\ cp.next \in Nat
      /\ cp.next <= Total
      /\ cp.completed \in Seq(GateResults)
      /\ Len(cp.completed) = cp.next
      /\ cp.not_before = NoDeadline
      /\ \A i \in 1..cp.next : DOMAIN cp.completed[i] = GatesForUnit(Ordered[i])
  BY CheckpointFields DEF Sound, CompletedMatchesCursor
<1>2. \A u \in Units : NotTested(u) \in GateResults
  BY DEF NotTested, GateResults, AllVerdicts
<1>3. \A i \in 1..Total : log[i] \in GateResults /\ DOMAIN log[i] = GatesForUnit(Ordered[i])
  <2>1. TAKE i \in 1..Total
  <2>2. CASE i <= cp.next
    BY <1>1, <2>2, TotalPositive
  <2>3. CASE ~(i <= cp.next)
    <3>1. Ordered[i] \in Units
      BY OrderedAssumption, TotalPositive
    <3>2. log[i] = NotTested(Ordered[i])
      BY <2>3
    <3>3. DOMAIN NotTested(Ordered[i]) = GatesForUnit(Ordered[i])
      BY DEF NotTested
    <3>4. QED
      BY <1>2, <3>1, <3>2, <3>3
  <2>4. QED
    BY <2>2, <2>3
<1>4. log \in Seq(GateResults) /\ Len(log) = Total
  BY <1>3, TotalPositive
<1>5. /\ new.policy = cp.policy
      /\ new.state = "completed"
      /\ new.next = Total
      /\ new.completed = log
      /\ new.calls = cp.calls
      /\ new.recoveries = cp.recoveries
      /\ new.waited = cp.waited
      /\ new.not_before = cp.not_before
  BY <1>1 DEF CloseSuite, Checkpoint
<1>6. new \in Checkpoint
  BY <1>1, <1>4, TotalPositive DEF CloseSuite, Checkpoint, States
<1>7. CompletedMatchesCursor(new)
  BY <1>3, <1>4, <1>5 DEF CompletedMatchesCursor
<1>8. QED
  BY <1>1, <1>5, <1>6, <1>7, TotalPositive DEF Sound

\* Clearing a deadline on the way back to ready keeps it acceptable.
LEMMA ResumeIsSound ==
    ASSUME NEW cp, Sound(cp)
    PROVE  LET new == [cp EXCEPT !.state = "ready", !.not_before = NoDeadline]
           IN Sound(new) /\ new.state = "ready" /\ new.next = cp.next
<1> DEFINE new == [cp EXCEPT !.state = "ready", !.not_before = NoDeadline]
<1>1. cp \in Checkpoint
  BY DEF Sound
<1>2. new \in Checkpoint
  BY <1>1 DEF Checkpoint, States
<1>3. /\ new.policy = cp.policy
      /\ new.state = "ready"
      /\ new.next = cp.next
      /\ new.completed = cp.completed
      /\ new.calls = cp.calls
      /\ new.recoveries = cp.recoveries
      /\ new.waited = cp.waited
      /\ new.not_before = NoDeadline
  BY <1>1 DEF Checkpoint
<1>4. QED
  BY <1>2, <1>3 DEF Sound, CompletedMatchesCursor
-----------------------------------------------------------------------------
(***************************************************************************)
(* The inductive invariant.                                                *)
(***************************************************************************)

\* A process that writes a sound checkpoint and exits preserves the invariant.
LEMMA ExitPreserves ==
    ASSUME IInv, NEW cp, Sound(cp), PersistAndExit(cp),
           now' \in Nat, realCalls' \in Nat, faults' \in 0..MaxFaults
    PROVE  IInv' /\ disk' # NoFile
BY NoFileAssumption
   DEF IInv, TypeOK, RunsFromDisk, PersistAndExit, Exit, Sound, Checkpoint, Locations, States

\* So does one that writes a sound checkpoint fit for the place it goes on to.
LEMMA GoOnPreserves ==
    ASSUME IInv, NEW cp, Sound(cp), NEW where \in {"loop", "pacing", "sleeping"},
           PersistAndGoOn(cp, where),
           where \in {"loop", "pacing"} => cp.state = "ready",
           where \in {"pacing", "sleeping"} => cp.next < Total,
           where = "sleeping" => cp.state = "waiting",
           UNCHANGED outcome, now' \in Nat, realCalls' \in Nat, faults' \in 0..MaxFaults
    PROVE  IInv' /\ disk' # NoFile
BY NoFileAssumption
   DEF IInv, TypeOK, RunsFromDisk, PersistAndGoOn, Sound, Locations

\* And one that exits, or is killed, without writing.
LEMMA QuitPreserves ==
    ASSUME IInv, NEW how \in States \cup {"error", "killed"}, Exit(how), UNCHANGED disk,
           now' \in Nat, realCalls' \in Nat, faults' \in 0..MaxFaults
    PROVE  IInv'
BY DEF IInv, TypeOK, RunsFromDisk, Exit, Locations

\* What a process holds while it runs, and what a unit in flight may spend.
LEMMA Running ==
    ASSUME IInv, pc # "down"
    PROVE  /\ mem = disk /\ mem # NoFile /\ disk # NoFile /\ Sound(mem)
           /\ mem \in Checkpoint
           /\ pc \in {"loop", "executing", "pacing"} => mem.state = "ready"
           /\ pc \in {"executing", "pacing", "sleeping"} => mem.next < Total
           /\ pc = "sleeping" => mem.state = "waiting"
           /\ CallsOf(mem) \subseteq 0..RemainingCalls(mem)
           /\ CallsOf(mem) \subseteq Nat
<1>1. /\ mem = disk /\ mem # NoFile /\ disk # NoFile /\ Sound(mem)
      /\ pc \in {"loop", "executing", "pacing"} => mem.state = "ready"
      /\ pc \in {"executing", "pacing", "sleeping"} => mem.next < Total
      /\ pc = "sleeping" => mem.state = "waiting"
  BY DEF IInv, RunsFromDisk
<1>2. mem \in Checkpoint /\ mem.calls <= mem.policy.calls_limit
  BY <1>1 DEF Sound
<1>3. RemainingCalls(mem) \in Nat
  BY <1>2, CheckpointFields DEF RemainingCalls
<1>4. QED
  BY <1>1, <1>2, <1>3 DEF CallsOf
LEMMA InitEstablishes == Init => IInv
BY FaultsAssumption DEF Init, IInv, TypeOK, RunsFromDisk, Locations

LEMMA InvokePreserves ==
    ASSUME IInv, NEW p \in Policies, Invoke(p)
    PROVE  IInv'
<1>0. now \in Nat /\ realCalls \in Nat /\ faults \in 0..MaxFaults
  BY DEF IInv, TypeOK
<1>1. CASE CreateCheckpoint(p)
  BY <1>0, <1>1, NewIsSound, GoOnPreserves DEF CreateCheckpoint
<1>2. CASE RejectCheckpoint(p)
  BY <1>0, <1>2, QuitPreserves DEF RejectCheckpoint
<1>3. CASE ReturnUnchanged(p)
  <2>1. disk.state \in States
    BY <1>3, CheckpointFields DEF ReturnUnchanged, Loads, IInv, TypeOK
  <2>2. QED
    BY <1>0, <1>3, <2>1, QuitPreserves DEF ReturnUnchanged
<1>4. CASE ResumeWaiting(p)
  <2>1. Sound(disk)
    BY <1>4 DEF ResumeWaiting, Loads, IInv
  <2>2. QED
    BY <1>0, <1>4, <2>1, ResumeIsSound, GoOnPreserves DEF ResumeWaiting
<1>5. CASE ResumeReady(p)
  BY <1>5 DEF ResumeReady, Loads, IInv, TypeOK, RunsFromDisk, Locations
<1>6. QED
  BY <1>1, <1>2, <1>3, <1>4, <1>5 DEF Invoke

LEMMA PausePreserves == IInv /\ PauseUnit => IInv' /\ disk' # NoFile
<1> SUFFICES ASSUME IInv, PauseUnit PROVE IInv' /\ disk' # NoFile
  OBVIOUS
<1>1. /\ now \in Nat /\ realCalls \in Nat /\ faults \in 0..MaxFaults
      /\ pc = "executing" /\ now' = now /\ faults' = faults
  BY DEF IInv, TypeOK, PauseUnit
<1>2. PICK calls \in CallsOf(mem), elapsed \in Elapses, hint \in RetryAfters \cup {NoHint} :
        LET cp == Spend(mem, calls, elapsed)
            wait == IF hint = NoHint THEN cp.policy.fallback_wait ELSE hint
            verdict == PauseVerdict(cp, wait)
        IN /\ PersistAndExit(IF verdict = "transient" THEN WaitAfter(cp, wait)
                                                      ELSE Blocked(cp, verdict))
           /\ realCalls' = realCalls + calls
  BY DEF PauseUnit
<1> DEFINE cp == Spend(mem, calls, elapsed)
           wait == IF hint = NoHint THEN cp.policy.fallback_wait ELSE hint
           verdict == PauseVerdict(cp, wait)
<1>3. calls \in Nat /\ calls \in 0..RemainingCalls(mem) /\ elapsed \in Nat
  BY <1>1, Running, ExecutorAssumption
<1>4. Sound(cp) /\ cp.next < Total
  BY <1>1, <1>3, Running, SpendIsSound
<1>5. wait \in Nat
  <2>1. cp.policy.fallback_wait \in Nat
    BY <1>4, CheckpointFields DEF Sound
  <2>2. QED
    BY <2>1, ExecutorAssumption
<1>6. realCalls' \in Nat
  BY <1>1, <1>2, <1>3
<1> HIDE DEF cp, wait
<1>7. CASE verdict = "transient"
  <2>1. RecoveryVerdict(cp, wait) = "transient"
    BY <1>7 DEF PauseVerdict
  <2>2. Sound(WaitAfter(cp, wait))
    BY <1>1, <1>4, <1>5, <2>1, WaitIsSound
  <2>3. PersistAndExit(WaitAfter(cp, wait))
    BY <1>2, <1>7 DEF cp, wait
  <2>4. QED
    BY <1>1, <1>6, <2>2, <2>3, ExitPreserves
<1>8. CASE verdict # "transient"
  <2>1. verdict \in BlockReasons
    BY <1>8 DEF PauseVerdict, RecoveryVerdict, BlockReasons
  <2>2. Sound(Blocked(cp, verdict))
    BY <1>4, <2>1, BlockedIsSound
  <2>3. PersistAndExit(Blocked(cp, verdict))
    BY <1>2, <1>8 DEF cp, wait
  <2>4. QED
    BY <1>1, <1>6, <2>2, <2>3, ExitPreserves
<1>9. QED
  BY <1>7, <1>8

LEMMA ExhaustPreserves == IInv /\ ExhaustUnit => IInv' /\ disk' # NoFile
<1> SUFFICES ASSUME IInv, ExhaustUnit PROVE IInv' /\ disk' # NoFile
  OBVIOUS
<1>1. /\ now \in Nat /\ realCalls \in Nat /\ faults \in 0..MaxFaults
      /\ pc = "executing" /\ now' = now /\ faults' = faults
  BY DEF IInv, TypeOK, ExhaustUnit
<1>2. PICK calls \in CallsOf(mem), elapsed \in Elapses,
           reason \in {"call_limit_reached", "active_elapsed_limit_reached"} :
        /\ PersistAndExit(Blocked(Spend(mem, calls, elapsed), reason))
        /\ realCalls' = realCalls + calls
  BY DEF ExhaustUnit
<1>3. calls \in Nat /\ calls \in 0..RemainingCalls(mem) /\ elapsed \in Nat
  BY <1>1, Running, ExecutorAssumption
<1>4. Sound(Spend(mem, calls, elapsed)) /\ Spend(mem, calls, elapsed).next < Total
  BY <1>1, <1>3, Running, SpendIsSound
<1>5. Sound(Blocked(Spend(mem, calls, elapsed), reason))
  BY <1>4, BlockedIsSound DEF BlockReasons
<1>6. QED
  BY <1>1, <1>2, <1>3, <1>5, ExitPreserves

LEMMA VerdictsAreVerdicts == \A u : VerdictsOf(u) \subseteq AllVerdicts
BY ExecutorAssumption DEF VerdictsOf, AllVerdicts

LEMMA ConfirmPreserves == IInv /\ ConfirmUnit => IInv' /\ disk' # NoFile
<1> SUFFICES ASSUME IInv, ConfirmUnit PROVE IInv' /\ disk' # NoFile
  OBVIOUS
<1>1. /\ now \in Nat /\ realCalls \in Nat /\ faults \in 0..MaxFaults
      /\ pc = "executing" /\ now' = now /\ faults' = faults
  BY DEF IInv, TypeOK, ConfirmUnit
<1>2. PICK calls \in CallsOf(mem), elapsed \in Elapses,
           gates \in [GatesForUnit(UnitAt(mem)) -> VerdictsOf(UnitAt(mem))] :
        LET cp == Confirm(Spend(mem, calls, elapsed), gates)
        IN /\ IF PrerequisiteFailed(UnitAt(mem), gates)
              THEN PersistAndExit(CloseSuite(cp))
              ELSE /\ PersistAndGoOn(cp, IF NeedsPacing(mem, cp) THEN "pacing" ELSE "loop")
                   /\ UNCHANGED outcome
           /\ realCalls' = realCalls + calls
  BY DEF ConfirmUnit
<1> DEFINE spent == Spend(mem, calls, elapsed)
           cp == Confirm(spent, gates)
<1>3. calls \in Nat /\ calls \in 0..RemainingCalls(mem) /\ elapsed \in Nat
  BY <1>1, Running, ExecutorAssumption
<1>4. Sound(spent) /\ spent.next = mem.next /\ spent.next < Total
  BY <1>1, <1>3, Running, SpendIsSound
<1>5. gates \in [GatesForUnit(UnitAt(spent)) -> AllVerdicts]
  BY <1>4, VerdictsAreVerdicts DEF UnitAt
<1>6. Sound(cp) /\ cp.state = "ready"
  BY <1>4, <1>5, ConfirmIsSound
<1>7. realCalls' \in Nat
  BY <1>1, <1>2, <1>3
<1>8. CASE PrerequisiteFailed(UnitAt(mem), gates)
  BY <1>1, <1>2, <1>6, <1>7, <1>8, CloseIsSound, ExitPreserves
<1>9. CASE ~PrerequisiteFailed(UnitAt(mem), gates)
  <2>1. NeedsPacing(mem, cp) => cp.next < Total
    BY DEF NeedsPacing
  <2>2. PersistAndGoOn(cp, IF NeedsPacing(mem, cp) THEN "pacing" ELSE "loop")
        /\ UNCHANGED outcome
    BY <1>2, <1>9
  <2> HIDE DEF cp
  <2>3. QED
    BY <1>1, <1>6, <1>7, <2>1, <2>2, GoOnPreserves
<1>10. QED
  BY <1>8, <1>9
LEMMA LoopPreserves ==
    IInv /\ (CompleteSuite \/ BlockBeforeUnit \/ Dispatch) => IInv' /\ disk' # NoFile
<1> SUFFICES ASSUME IInv, CompleteSuite \/ BlockBeforeUnit \/ Dispatch
             PROVE  IInv' /\ disk' # NoFile
  OBVIOUS
<1>1. /\ now \in Nat /\ realCalls \in Nat /\ faults \in 0..MaxFaults
      /\ pc = "loop" /\ now' = now /\ faults' = faults /\ realCalls' = realCalls
  BY DEF IInv, TypeOK, CompleteSuite, BlockBeforeUnit, Dispatch
<1>2. Sound(mem) /\ mem \in Checkpoint /\ mem.state = "ready"
  BY <1>1, Running
<1>3. CASE CompleteSuite
  <2> DEFINE new == [mem EXCEPT !.state = "completed", !.not_before = NoDeadline]
  <2>1. mem.next = Total /\ mem.next \in Nat
    BY <1>2, <1>3, TotalPositive, CheckpointFields DEF CompleteSuite, Sound
  <2>2. new \in Checkpoint
    BY <1>2 DEF Checkpoint, States
  <2>3. /\ new.policy = mem.policy
        /\ new.state = "completed"
        /\ new.next = mem.next
        /\ new.completed = mem.completed
        /\ new.calls = mem.calls
        /\ new.recoveries = mem.recoveries
        /\ new.waited = mem.waited
        /\ new.not_before = NoDeadline
    BY <1>2 DEF Checkpoint
  <2>4. Sound(new)
    BY <1>2, <2>1, <2>2, <2>3 DEF Sound, CompletedMatchesCursor
  <2>5. QED
    BY <1>1, <1>3, <2>4, ExitPreserves DEF CompleteSuite
<1>4. CASE BlockBeforeUnit
  <2>1. \A reason \in BlockReasons : Sound(Blocked(mem, reason))
    BY <1>2, <1>4, BlockedIsSound DEF BlockBeforeUnit
  <2>2. PICK reason \in BlockReasons : PersistAndExit(Blocked(mem, reason))
    BY <1>4 DEF BlockBeforeUnit, BlockReasons
  <2>3. QED
    BY <1>1, <2>1, <2>2, ExitPreserves
<1>5. CASE Dispatch
  BY <1>1, <1>5, Running DEF Dispatch, IInv, TypeOK, RunsFromDisk, Locations
<1>6. QED
  BY <1>3, <1>4, <1>5

LEMMA PacePreserves == IInv /\ (PaceBegins \/ PaceEnds) => IInv' /\ disk' # NoFile
<1> SUFFICES ASSUME IInv, PaceBegins \/ PaceEnds PROVE IInv' /\ disk' # NoFile
  OBVIOUS
<1>1. /\ now \in Nat /\ realCalls \in Nat /\ faults \in 0..MaxFaults
      /\ pc \in {"pacing", "sleeping"} /\ now' = now /\ faults' = faults
      /\ realCalls' = realCalls /\ outcome' = outcome
  BY DEF IInv, TypeOK, PaceBegins, PaceEnds
<1>2. Sound(mem) /\ mem \in Checkpoint /\ mem.next < Total
  BY <1>1, Running
<1>3. CASE PaceBegins
  <2> DEFINE new == [mem EXCEPT !.state = "waiting", !.last_pause = "inter_gate_pacing",
                                !.not_before = now + mem.policy.pacing]
  <2>1. now + mem.policy.pacing \in Nat /\ now + mem.policy.pacing # NoDeadline
    BY <1>1, <1>2, CheckpointFields DEF NoDeadline
  <2>2. new \in Checkpoint
    BY <1>2, <2>1 DEF Checkpoint, States, Pauses
  <2>3. /\ new.policy = mem.policy
        /\ new.state = "waiting"
        /\ new.next = mem.next
        /\ new.completed = mem.completed
        /\ new.calls = mem.calls
        /\ new.recoveries = mem.recoveries
        /\ new.waited = mem.waited
        /\ new.not_before = now + mem.policy.pacing
        /\ new.last_pause = "inter_gate_pacing"
    BY <1>2 DEF Checkpoint
  <2>4. Sound(new)
    BY <1>2, <2>1, <2>2, <2>3 DEF Sound, CompletedMatchesCursor
  <2>5. PersistAndGoOn(new, "sleeping")
    BY <1>3 DEF PaceBegins
  <2> HIDE DEF new
  <2>6. QED
    BY <1>1, <1>2, <2>3, <2>4, <2>5, GoOnPreserves
<1>4. CASE PaceEnds
  BY <1>1, <1>2, <1>4, ResumeIsSound, GoOnPreserves DEF PaceEnds
<1>5. QED
  BY <1>3, <1>4

LEMMA EnvironmentPreserves == IInv /\ (Fault \/ Tick) => IInv'
<1> SUFFICES ASSUME IInv, Fault \/ Tick PROVE IInv'
  OBVIOUS
<1>1. /\ now \in Nat /\ realCalls \in Nat /\ faults \in 0..MaxFaults /\ MaxFaults \in Nat
  BY FaultsAssumption DEF IInv, TypeOK
<1>2. CASE RejectExecution
  BY <1>1, <1>2, Running, QuitPreserves DEF RejectExecution
<1>3. CASE PaceWakesEarly
  BY <1>1, <1>3, QuitPreserves DEF PaceWakesEarly, States
<1>4. CASE ClockSetBack
  BY <1>1, <1>4 DEF ClockSetBack, IInv, TypeOK, RunsFromDisk
<1>5. CASE Crash
  BY <1>1, <1>5, Running, QuitPreserves DEF Crash
<1>6. CASE Tick
  BY <1>1, <1>6 DEF Tick, IInv, TypeOK, RunsFromDisk
<1>7. QED
  BY <1>2, <1>3, <1>4, <1>5, <1>6 DEF Fault

LEMMA NextPreserves == IInv /\ [Next]_vars => IInv'
<1> SUFFICES ASSUME IInv, [Next]_vars PROVE IInv'
  OBVIOUS
<1>1. CASE \E p \in Policies : Invoke(p)
  BY <1>1, InvokePreserves
<1>2. CASE RunStep
  BY <1>2, PausePreserves, ExhaustPreserves, ConfirmPreserves, LoopPreserves, PacePreserves
     DEF RunStep
<1>3. CASE Tick \/ Fault
  BY <1>3, EnvironmentPreserves
<1>4. CASE UNCHANGED vars
  BY <1>4 DEF vars, IInv, TypeOK, RunsFromDisk
<1>5. QED
  BY <1>1, <1>2, <1>3, <1>4 DEF Next

\* The invariant holds in every behaviour of the scheduler.
THEOREM Invariance == SafetySpec => []IInv
BY InitEstablishes, NextPreserves, PTL DEF SafetySpec

\* Every variable keeps its type (persisted counters, cursor, clock, log).
THEOREM TypeCorrect == SafetySpec => []TypeOK
BY Invariance, PTL DEF IInv

\* A running process acts on what a restart would find (run_with_executor
\* persists before every step that leaves the loop body).
THEOREM ActsOnDisk == SafetySpec => []RunsFromDisk
BY Invariance, PTL DEF IInv

\* A checkpoint that is sound is accepted, the terminal window aside.
LEMMA SoundIsAccepted ==
    ASSUME disk \in Checkpoint \cup {NoFile}, disk # NoFile => Sound(disk)
    PROVE  RestartIsAccepted
<1> SUFFICES ASSUME disk # NoFile
             PROVE  ValidateCheckpoint(IF InTerminalWindow(disk)
                                       THEN [disk EXCEPT !.state = "completed"]
                                       ELSE disk, disk.policy)
  BY DEF RestartIsAccepted
<1>1. /\ Sound(disk) /\ disk \in Checkpoint /\ disk.next \in Nat /\ disk.state \in States
  BY CheckpointFields
<1>2. CASE InTerminalWindow(disk)
  <2> DEFINE new == [disk EXCEPT !.state = "completed"]
  <2>1. /\ new.policy = disk.policy
        /\ new.state = "completed"
        /\ new.next = disk.next
        /\ new.completed = disk.completed
        /\ new.calls = disk.calls
        /\ new.recoveries = disk.recoveries
        /\ new.waited = disk.waited
        /\ new.not_before = disk.not_before
    BY <1>1 DEF Checkpoint
  <2>2. ValidateCheckpoint(new, disk.policy)
    BY <1>1, <1>2, <2>1
       DEF Sound, ValidateCheckpoint, InTerminalWindow, CompletedMatchesCursor
  <2>3. QED
    BY <1>2, <2>2
<1>3. CASE ~InTerminalWindow(disk)
  BY <1>1, <1>3 DEF Sound, ValidateCheckpoint, InTerminalWindow, States
<1>4. QED
  BY <1>2, <1>3

\* A crash, a failed write or a clock set back at any point never leaves a
\* checkpoint that validate_checkpoint rejects, the terminal window aside.
THEOREM RestartAccepted == SafetySpec => []RestartIsAccepted
BY Invariance, SoundIsAccepted, PTL DEF IInv, TypeOK
-----------------------------------------------------------------------------
(***************************************************************************)
(* Calls: what the provider has seen against what the checkpoint knows.    *)
(***************************************************************************)

\* Every unit charges what it spent in the same write that confirms, pauses
\* or blocks it.
LEMMA SpentIsCharged ==
    ASSUME NEW cp \in Checkpoint, NEW calls \in Nat, NEW elapsed, NEW gates, NEW wait, NEW reason
    PROVE  LET spent == Spend(cp, calls, elapsed)
           IN /\ spent.calls = cp.calls + calls /\ spent.policy = cp.policy
              /\ Blocked(spent, reason).calls = cp.calls + calls
              /\ Blocked(spent, reason).policy = cp.policy
              /\ WaitAfter(spent, wait).calls = cp.calls + calls
              /\ WaitAfter(spent, wait).policy = cp.policy
              /\ Confirm(spent, gates).calls = cp.calls + calls
              /\ Confirm(spent, gates).policy = cp.policy
              /\ CloseSuite(Confirm(spent, gates)).calls = cp.calls + calls
              /\ CloseSuite(Confirm(spent, gates)).policy = cp.policy
BY DEF Spend, Blocked, WaitAfter, Confirm, CloseSuite, Checkpoint

\* One more fault makes room for one more unit in flight.
LEMMA FaultRoom ==
    ASSUME NEW n \in Nat, NEW limit \in Nat
    PROVE  (n + 1) * limit = n * limit + limit /\ n * limit \in Nat
OBVIOUS
\* The bound of LostCallsBounded survives a write that charges what was spent.
LEMMA ChargedStep ==
    ASSUME IInv, LostCallsBounded, disk # NoFile, disk' # NoFile,
           disk'.policy = disk.policy, NEW calls \in Nat,
           realCalls' = realCalls + calls, disk'.calls = disk.calls + calls,
           faults' \in {faults, faults + 1}
    PROVE  LostCallsBounded'
<1>1. /\ disk \in Checkpoint /\ realCalls \in Nat /\ faults \in Nat
      /\ disk.calls \in Nat /\ disk.policy.calls_limit \in Nat
  BY FaultsAssumption, CheckpointFields DEF IInv, TypeOK
<1> DEFINE room == faults * disk.policy.calls_limit
<1>2. /\ room \in Nat
      /\ (faults + 1) * disk.policy.calls_limit = room + disk.policy.calls_limit
  BY <1>1, FaultRoom
<1>3. faults' * disk'.policy.calls_limit >= room
  BY <1>1, <1>2
<1>4. realCalls <= disk.calls + room
  BY DEF LostCallsBounded
<1>5. faults' * disk'.policy.calls_limit \in Int
  BY <1>1, <1>2
<1> HIDE DEF room
<1>6. realCalls' <= disk'.calls + faults' * disk'.policy.calls_limit
  BY <1>1, <1>2, <1>3, <1>4, <1>5
<1>7. QED
  BY <1>6 DEF LostCallsBounded

\* ... and a fault that loses the unit in flight.
LEMMA LostStep ==
    ASSUME IInv, LostCallsBounded, disk # NoFile, UNCHANGED disk,
           NEW calls \in 0..disk.policy.calls_limit,
           realCalls' = realCalls + calls, faults' = faults + 1
    PROVE  LostCallsBounded'
<1>1. /\ disk \in Checkpoint /\ realCalls \in Nat /\ faults \in Nat
      /\ disk.calls \in Nat /\ disk.policy.calls_limit \in Nat
  BY FaultsAssumption, CheckpointFields DEF IInv, TypeOK
<1> DEFINE room == faults * disk.policy.calls_limit
<1>2. /\ room \in Nat
      /\ (faults + 1) * disk.policy.calls_limit = room + disk.policy.calls_limit
  BY <1>1, FaultRoom
<1>3. realCalls <= disk.calls + room
  BY DEF LostCallsBounded
<1>4. faults' * disk'.policy.calls_limit = room + disk.policy.calls_limit
  BY <1>2
<1> HIDE DEF room
<1>5. realCalls' <= disk'.calls + (room + disk'.policy.calls_limit)
  BY <1>1, <1>2, <1>3
<1>6. QED
  BY <1>4, <1>5 DEF LostCallsBounded

LEMMA UnitStepsCharge ==
    ASSUME IInv, LostCallsBounded, PauseUnit \/ ExhaustUnit \/ ConfirmUnit
    PROVE  LostCallsBounded'
<1>1. /\ pc = "executing" /\ faults' = faults
  BY DEF PauseUnit, ExhaustUnit, ConfirmUnit
<1>2. /\ mem = disk /\ disk # NoFile /\ disk \in Checkpoint /\ mem \in Checkpoint
      /\ CallsOf(mem) \subseteq Nat
  BY <1>1, Running
<1>3. \A c : PersistAndExit(c) => disk' = c
  BY DEF PersistAndExit
<1>4. \E calls \in Nat : /\ realCalls' = realCalls + calls
                         /\ disk'.calls = disk.calls + calls
                         /\ disk'.policy = disk.policy
  <2>1. CASE PauseUnit
    <3>1. PICK calls \in CallsOf(mem), elapsed \in Elapses, hint \in RetryAfters \cup {NoHint} :
            LET cp == Spend(mem, calls, elapsed)
                wait == IF hint = NoHint THEN cp.policy.fallback_wait ELSE hint
                verdict == PauseVerdict(cp, wait)
            IN /\ PersistAndExit(IF verdict = "transient" THEN WaitAfter(cp, wait)
                                                          ELSE Blocked(cp, verdict))
               /\ realCalls' = realCalls + calls
      BY <2>1 DEF PauseUnit
    <3> DEFINE cp == Spend(mem, calls, elapsed)
               wait == IF hint = NoHint THEN cp.policy.fallback_wait ELSE hint
               verdict == PauseVerdict(cp, wait)
    <3>2. disk' = (IF verdict = "transient" THEN WaitAfter(cp, wait) ELSE Blocked(cp, verdict))
      BY <3>1 DEF PersistAndExit
    <3>3. calls \in Nat
      BY <1>2
    <3>4. /\ WaitAfter(cp, wait).calls = mem.calls + calls
          /\ WaitAfter(cp, wait).policy = mem.policy
          /\ Blocked(cp, verdict).calls = mem.calls + calls
          /\ Blocked(cp, verdict).policy = mem.policy
      BY <1>2, <3>3, SpentIsCharged
    <3>5. QED
      BY <1>2, <3>1, <3>2, <3>3, <3>4
  <2>2. CASE ExhaustUnit
    <3>1. PICK calls \in CallsOf(mem), elapsed \in Elapses,
               reason \in {"call_limit_reached", "active_elapsed_limit_reached"} :
            /\ PersistAndExit(Blocked(Spend(mem, calls, elapsed), reason))
            /\ realCalls' = realCalls + calls
      BY <2>2 DEF ExhaustUnit
    <3>2. QED
      BY <1>2, <3>1, SpentIsCharged DEF PersistAndExit
  <2>3. CASE ConfirmUnit
    <3>1. PICK calls \in CallsOf(mem), elapsed \in Elapses,
               gates \in [GatesForUnit(UnitAt(mem)) -> VerdictsOf(UnitAt(mem))] :
            LET cp == Confirm(Spend(mem, calls, elapsed), gates)
            IN /\ disk' \in {cp, CloseSuite(cp)}
               /\ realCalls' = realCalls + calls
      BY <2>3 DEF ConfirmUnit, PersistAndExit, PersistAndGoOn
    <3>2. QED
      BY <1>2, <3>1, SpentIsCharged
  <2>4. QED
    BY <2>1, <2>2, <2>3
<1>5. disk' # NoFile
  BY PausePreserves, ExhaustPreserves, ConfirmPreserves
<1>6. QED
  BY <1>1, <1>2, <1>4, <1>5, ChargedStep
\* The other steps leave both sides alone.
LEMMA QuietStep ==
    ASSUME IInv, LostCallsBounded, UNCHANGED realCalls, faults' \in {faults, faults + 1},
           \/ UNCHANGED disk
           \/ /\ disk # NoFile /\ disk' # NoFile
              /\ disk'.calls = disk.calls /\ disk'.policy = disk.policy
    PROVE  LostCallsBounded'
<1>1. CASE disk = NoFile
  BY <1>1 DEF LostCallsBounded
<1>2. CASE disk # NoFile
  <2>1. realCalls \in Nat /\ disk.calls \in Nat
    BY <1>2, CheckpointFields DEF IInv, TypeOK
  <2>2. QED
    BY <1>2, <2>1, ChargedStep
<1>3. QED
  BY <1>1, <1>2

LEMMA NextBoundsLostCalls ==
    ASSUME IInv, LostCallsBounded, [Next]_vars
    PROVE  LostCallsBounded'
<1>1. CASE PauseUnit \/ ExhaustUnit \/ ConfirmUnit
  BY <1>1, UnitStepsCharge
<1>2. CASE \E p \in Policies : CreateCheckpoint(p)
  <2>1. PICK p \in Policies : CreateCheckpoint(p)
    BY <1>2
  <2>2. realCalls' = 0 /\ disk' = NewCheckpoint(p) /\ faults' \in Nat
    BY <2>1, FaultsAssumption
       DEF CreateCheckpoint, PersistAndGoOn, LostCallsBounded, IInv, TypeOK
  <2>3. disk'.calls = 0 /\ disk'.policy.calls_limit \in Nat
    BY <2>2, PoliciesAssumption DEF NewCheckpoint, Policy
  <2>4. faults' * disk'.policy.calls_limit \in Nat
    BY <2>2, <2>3, FaultRoom
  <2>5. QED
    BY <2>2, <2>3, <2>4 DEF LostCallsBounded
<1>3. CASE \E p \in Policies : RejectCheckpoint(p) \/ ReturnUnchanged(p) \/ ResumeReady(p)
  BY <1>3, QuietStep DEF RejectCheckpoint, ReturnUnchanged, ResumeReady
<1>4. CASE \E p \in Policies : ResumeWaiting(p)
  <2>1. /\ disk # NoFile /\ disk \in Checkpoint
        /\ disk' = [disk EXCEPT !.state = "ready", !.not_before = NoDeadline]
        /\ realCalls' = realCalls /\ faults' = faults
    BY <1>4 DEF ResumeWaiting, Loads, PersistAndGoOn, IInv, TypeOK
  <2>2. disk' \in Checkpoint /\ disk'.calls = disk.calls /\ disk'.policy = disk.policy
    BY <2>1 DEF Checkpoint, States
  <2>3. QED
    BY <2>1, <2>2, QuietStep, NoFileAssumption
<1>5. CASE CompleteSuite \/ BlockBeforeUnit \/ PaceBegins \/ PaceEnds
  <2>1. pc # "down"
    BY <1>5 DEF CompleteSuite, BlockBeforeUnit, PaceBegins, PaceEnds
  <2>2. /\ disk # NoFile /\ disk \in Checkpoint /\ mem = disk /\ now \in Nat
    BY <2>1, Running DEF IInv, TypeOK
  <2>3. disk'.calls = disk.calls /\ disk'.policy = disk.policy
    <3>1. CASE CompleteSuite
      BY <2>2, <3>1 DEF CompleteSuite, PersistAndExit, Checkpoint
    <3>2. CASE BlockBeforeUnit
      BY <2>2, <3>2 DEF BlockBeforeUnit, PersistAndExit, Blocked, Checkpoint
    <3>3. CASE PaceBegins
      BY <2>2, <3>3 DEF PaceBegins, PersistAndGoOn, Checkpoint
    <3>4. CASE PaceEnds
      BY <2>2, <3>4 DEF PaceEnds, PersistAndGoOn, Checkpoint
    <3>5. QED
      BY <1>5, <3>1, <3>2, <3>3, <3>4
  <2>4. realCalls' = realCalls /\ faults' = faults
    BY <1>5 DEF CompleteSuite, BlockBeforeUnit, PaceBegins, PaceEnds
  <2>5. disk' # NoFile
    BY <1>5, LoopPreserves, PacePreserves
  <2>6. QED
    BY <2>2, <2>3, <2>4, <2>5, QuietStep
<1>6. CASE Dispatch \/ Tick \/ PaceWakesEarly \/ ClockSetBack
  BY <1>6, QuietStep DEF Dispatch, Tick, PaceWakesEarly, ClockSetBack
<1>7. CASE RejectExecution \/ Crash
  <2>1. /\ pc # "down" /\ disk' = disk /\ faults' = faults + 1
    BY <1>7 DEF RejectExecution, Crash
  <2>2. /\ mem = disk /\ disk # NoFile /\ disk \in Checkpoint
        /\ CallsOf(mem) \subseteq 0..RemainingCalls(mem) /\ realCalls \in Nat
    BY <2>1, Running DEF IInv, TypeOK
  <2>3. 0..RemainingCalls(mem) \subseteq 0..disk.policy.calls_limit
    BY <2>2, CheckpointFields DEF RemainingCalls
  <2>4. \E calls \in 0..disk.policy.calls_limit : realCalls' = realCalls + calls
    <3>1. CASE pc = "executing"
      BY <1>7, <2>2, <2>3, <3>1 DEF RejectExecution, Crash
    <3>2. CASE pc # "executing"
      <4>1. realCalls' = realCalls + 0
        BY <1>7, <2>2, <3>2 DEF RejectExecution, Crash
      <4>2. 0 \in 0..disk.policy.calls_limit
        BY <2>2, CheckpointFields
      <4>3. QED
        BY <4>1, <4>2
    <3>3. QED
      BY <3>1, <3>2
  <2>5. QED
    BY <2>1, <2>2, <2>4, LostStep
<1>8. CASE UNCHANGED vars
  BY <1>8, QuietStep DEF vars
<1>9. QED
  BY <1>1, <1>2, <1>3, <1>4, <1>5, <1>6, <1>7, <1>8
     DEF Next, Invoke, RunStep, Fault

\* Each kill, failed write or refused execution loses at most one unit's calls:
\* run_with_executor charges a unit in the same write that records its result.
THEOREM LostCalls == SafetySpec => []LostCallsBounded
<1>1. Init => LostCallsBounded
  BY DEF Init, LostCallsBounded
<1>2. QED
  BY <1>1, Invariance, NextBoundsLostCalls, PTL DEF SafetySpec
-----------------------------------------------------------------------------
(***************************************************************************)
(* Refinement: every step is a step of ResumableSuite or changes nothing   *)
(* of it.                                                                  *)
(***************************************************************************)

LEMMA QuietMaps == UNCHANGED disk => UNCHANGED Suite!vars
BY DEF Exists, Suite!vars

LEMMA InitMaps == Init => Suite!Init
BY DEF Init, Exists, Suite!Init

LEMMA CreateMaps ==
    ASSUME NEW p \in Policies, CreateCheckpoint(p)
    PROVE  Suite!Open
<1>1. disk = NoFile /\ disk' = NewCheckpoint(p)
  BY DEF CreateCheckpoint, PersistAndGoOn
<1>2. Sound(NewCheckpoint(p))
  BY NewIsSound
<1>3. NewCheckpoint(p) # NoFile
  BY <1>2, NoFileAssumption DEF Sound
<1>4. QED
  BY <1>1, <1>3 DEF NewCheckpoint, Exists, Suite!Open

\* Both ways out of a wait.
LEMMA ResumeMaps ==
    ASSUME IInv, disk # NoFile, disk.state = "waiting",
           disk' = [disk EXCEPT !.state = "ready", !.not_before = NoDeadline]
    PROVE  Suite!Resume
<1>1. disk \in Checkpoint
  BY DEF IInv, TypeOK
<1>2. disk' \in Checkpoint
  BY <1>1 DEF Checkpoint, States
<1>3. disk' # NoFile
  BY <1>2, NoFileAssumption
<1>4. /\ disk'.state = "ready" /\ disk'.policy = disk.policy
      /\ disk'.completed = disk.completed /\ disk'.calls = disk.calls
      /\ disk'.recoveries = disk.recoveries /\ disk'.waited = disk.waited
  BY <1>1 DEF Checkpoint
<1>5. QED
  BY <1>3, <1>4 DEF Exists, Suite!Resume

LEMMA PaceMaps ==
    ASSUME IInv, PaceBegins
    PROVE  Suite!Pace
<1>1. /\ mem = disk /\ disk # NoFile /\ disk \in Checkpoint /\ disk.state = "ready"
      /\ disk.next < Total /\ Sound(disk)
  BY Running DEF PaceBegins
<1>2. disk' # NoFile
  BY PacePreserves
<1>3. disk' = [disk EXCEPT !.state = "waiting", !.last_pause = "inter_gate_pacing",
                           !.not_before = now + mem.policy.pacing]
  BY <1>1 DEF PaceBegins, PersistAndGoOn
<1>4. /\ disk'.state = "waiting" /\ disk'.policy = disk.policy
      /\ disk'.completed = disk.completed /\ disk'.calls = disk.calls
      /\ disk'.recoveries = disk.recoveries /\ disk'.waited = disk.waited
  BY <1>1, <1>3 DEF Checkpoint
<1>5. Len(disk.completed) < Total
  BY <1>1 DEF Sound, CompletedMatchesCursor
<1>6. QED
  BY <1>1, <1>2, <1>4, <1>5 DEF Exists, Suite!Pace

LEMMA CompleteMaps ==
    ASSUME IInv, CompleteSuite
    PROVE  Suite!Complete
<1>1. /\ mem = disk /\ disk # NoFile /\ disk \in Checkpoint /\ disk.state = "ready"
      /\ Sound(disk) /\ disk.next \in Nat
  BY Running, CheckpointFields DEF CompleteSuite
<1>2. disk' # NoFile
  BY LoopPreserves
<1>3. disk' = [disk EXCEPT !.state = "completed", !.not_before = NoDeadline]
  BY <1>1 DEF CompleteSuite, PersistAndExit
<1>4. /\ disk'.state = "completed" /\ disk'.policy = disk.policy
      /\ disk'.completed = disk.completed /\ disk'.calls = disk.calls
      /\ disk'.recoveries = disk.recoveries /\ disk'.waited = disk.waited
  BY <1>1, <1>3 DEF Checkpoint
<1>5. Len(disk.completed) = Total
  BY <1>1, TotalPositive DEF Sound, CompletedMatchesCursor, CompleteSuite
<1>6. QED
  BY <1>1, <1>2, <1>4, <1>5 DEF Exists, Suite!Complete

\* A block charges what the unit spent, if one ran, and keeps the rest.
LEMMA BlockMaps ==
    ASSUME IInv, disk # NoFile, disk.state = "ready", disk.next < Total,
           NEW calls \in 0..RemainingCalls(disk), disk' # NoFile,
           disk'.state = "blocked", disk'.policy = disk.policy,
           disk'.completed = disk.completed, disk'.calls = disk.calls + calls,
           disk'.recoveries = disk.recoveries, disk'.waited = disk.waited
    PROVE  Suite!Block
<1>1. /\ disk \in Checkpoint /\ Sound(disk) /\ disk.calls \in Nat
      /\ disk.policy.calls_limit \in Nat
  BY CheckpointFields DEF IInv, TypeOK
<1>2. disk'.calls \in disk.calls..disk.policy.calls_limit
  BY <1>1 DEF RemainingCalls
<1>3. Len(disk.completed) < Total
  BY <1>1 DEF Sound, CompletedMatchesCursor
<1>4. QED
  BY <1>2, <1>3 DEF Exists, Suite!Block, Suite!Charge
LEMMA BlockBeforeMaps ==
    ASSUME IInv, BlockBeforeUnit
    PROVE  Suite!Block
<1>1. /\ mem = disk /\ disk # NoFile /\ disk \in Checkpoint /\ disk.state = "ready"
      /\ disk.next < Total /\ disk.calls \in Nat /\ disk.policy.calls_limit \in Nat
      /\ disk.calls <= disk.policy.calls_limit
  BY Running, CheckpointFields DEF BlockBeforeUnit, Sound
<1>2. disk' # NoFile
  BY LoopPreserves
<1>3. PICK reason : disk' = Blocked(disk, reason)
  BY <1>1 DEF BlockBeforeUnit, PersistAndExit
<1>4. /\ disk'.state = "blocked" /\ disk'.policy = disk.policy
      /\ disk'.completed = disk.completed /\ disk'.calls = disk.calls
      /\ disk'.recoveries = disk.recoveries /\ disk'.waited = disk.waited
  BY <1>1, <1>3 DEF Blocked, Checkpoint
<1>5. 0 \in 0..RemainingCalls(disk) /\ disk'.calls = disk.calls + 0
  BY <1>1, <1>4 DEF RemainingCalls
<1>6. QED
  BY <1>1, <1>2, <1>4, <1>5, BlockMaps

\* What a unit in flight finds, and what it leaves when it is blocked.
LEMMA InFlight ==
    ASSUME IInv, pc = "executing"
    PROVE  /\ mem = disk /\ disk # NoFile /\ disk \in Checkpoint /\ Sound(disk)
           /\ disk.state = "ready" /\ disk.next \in Nat /\ disk.next < Total
           /\ Len(disk.completed) = disk.next /\ disk.completed \in Seq(GateResults)
           /\ disk.calls \in Nat /\ disk.recoveries \in Nat /\ disk.waited \in Nat
           /\ disk.policy.calls_limit \in Nat /\ disk.policy.fallback_wait \in Nat
           /\ disk.policy.max_recoveries \in Nat
           /\ disk.policy.max_single_wait \in Nat
           /\ disk.policy.max_cumulative_wait \in Nat
           /\ \A calls \in CallsOf(mem) :
                 /\ calls \in 0..RemainingCalls(disk)
                 /\ disk.calls + calls \in disk.calls..disk.policy.calls_limit
<1>1. /\ mem = disk /\ disk # NoFile /\ disk \in Checkpoint /\ Sound(disk)
      /\ disk.state = "ready" /\ disk.next < Total
      /\ CallsOf(mem) \subseteq 0..RemainingCalls(disk)
  BY Running
<1>2. QED
  BY <1>1, CheckpointFields DEF Sound, CompletedMatchesCursor, RemainingCalls

LEMMA SpentFields ==
    ASSUME NEW cp \in Checkpoint, NEW calls, NEW elapsed
    PROVE  LET spent == Spend(cp, calls, elapsed)
           IN /\ spent.policy = cp.policy /\ spent.state = cp.state
              /\ spent.next = cp.next /\ spent.completed = cp.completed
              /\ spent.calls = cp.calls + calls /\ spent.recoveries = cp.recoveries
              /\ spent.waited = cp.waited /\ spent.not_before = cp.not_before
              /\ spent.last_pause = cp.last_pause
              /\ DOMAIN spent = DOMAIN cp
BY DEF Spend, Checkpoint

LEMMA SpentAndBlockedFields ==
    ASSUME NEW cp \in Checkpoint, NEW calls, NEW elapsed, NEW reason
    PROVE  LET new == Blocked(Spend(cp, calls, elapsed), reason)
           IN /\ new.policy = cp.policy /\ new.state = "blocked"
              /\ new.completed = cp.completed /\ new.calls = cp.calls + calls
              /\ new.recoveries = cp.recoveries /\ new.waited = cp.waited
BY DEF Spend, Blocked, Checkpoint

LEMMA ExhaustMaps ==
    ASSUME IInv, ExhaustUnit
    PROVE  Suite!Block
<1>1. pc = "executing" /\ disk' # NoFile
  BY ExhaustPreserves DEF ExhaustUnit
<1>2. PICK calls \in CallsOf(mem), elapsed \in Elapses,
           reason \in {"call_limit_reached", "active_elapsed_limit_reached"} :
        disk' = Blocked(Spend(mem, calls, elapsed), reason)
  BY DEF ExhaustUnit, PersistAndExit
<1>3. QED
  BY <1>1, <1>2, InFlight, SpentAndBlockedFields, BlockMaps, SMTT(30)

LEMMA PauseMaps ==
    ASSUME IInv, PauseUnit
    PROVE  Suite!WaitForProvider \/ Suite!Block
<1>1. pc = "executing" /\ disk' # NoFile
  BY PausePreserves DEF PauseUnit
<1>2. PICK calls \in CallsOf(mem), elapsed \in Elapses, hint \in RetryAfters \cup {NoHint} :
        LET cp == Spend(mem, calls, elapsed)
            wait == IF hint = NoHint THEN cp.policy.fallback_wait ELSE hint
            verdict == PauseVerdict(cp, wait)
        IN disk' = IF verdict = "transient" THEN WaitAfter(cp, wait) ELSE Blocked(cp, verdict)
  BY DEF PauseUnit, PersistAndExit
<1> DEFINE cp == Spend(mem, calls, elapsed)
           wait == IF hint = NoHint THEN cp.policy.fallback_wait ELSE hint
           verdict == PauseVerdict(cp, wait)
<1>3. CASE verdict # "transient"
  <2>1. disk' = Blocked(Spend(mem, calls, elapsed), verdict)
    BY <1>2, <1>3
  <2> HIDE DEF verdict
  <2>2. Suite!Block
    BY <1>1, <2>1, InFlight, SpentAndBlockedFields, BlockMaps, SMTT(30)
  <2>3. QED
    BY <2>2
<1>4. CASE verdict = "transient"
  <2>1. disk' = WaitAfter(cp, wait)
    BY <1>2, <1>4
  <2>2. wait \in Nat
    BY <1>1, InFlight, SpentFields, ExecutorAssumption, SMTT(30)
  <2>3. /\ ~CallsExhausted(cp)
        /\ RecoveryVerdict(cp, wait) = "transient"
    BY <1>4 DEF PauseVerdict
  <2> HIDE DEF wait
  <2>4. /\ cp.policy = disk.policy /\ cp.completed = disk.completed
        /\ cp.calls = disk.calls + calls
        /\ cp.recoveries = disk.recoveries /\ cp.waited = disk.waited
    BY <1>1, InFlight, SpentFields, SMTT(30)
  <2>5. /\ disk'.state = "waiting" /\ disk'.policy = disk.policy
        /\ disk'.completed = disk.completed /\ disk'.calls = disk.calls + calls
        /\ disk'.recoveries = disk.recoveries + 1 /\ disk'.waited = disk.waited + wait
    BY <1>1, <2>1, InFlight DEF WaitAfter, Spend, Checkpoint
  <2>6. /\ disk.calls + calls < disk.policy.calls_limit
        /\ disk.calls + calls \in disk.calls..disk.policy.calls_limit
    BY <1>1, <2>3, <2>4, InFlight DEF CallsExhausted
  <2>7. /\ wait <= disk.policy.max_single_wait
        /\ disk.recoveries < disk.policy.max_recoveries
        /\ disk.waited + wait <= disk.policy.max_cumulative_wait
    <3>1. /\ ~(wait > cp.policy.max_single_wait)
          /\ ~(cp.recoveries >= cp.policy.max_recoveries)
          /\ ~(cp.waited + wait > cp.policy.max_cumulative_wait)
      BY <2>3 DEF RecoveryVerdict
    <3> HIDE DEF cp
    <3>2. /\ ~(wait > disk.policy.max_single_wait)
          /\ ~(disk.recoveries >= disk.policy.max_recoveries)
          /\ ~(disk.waited + wait > disk.policy.max_cumulative_wait)
      BY <2>4, <3>1
    <3>3. /\ disk.policy.max_single_wait \in Nat
          /\ disk.recoveries \in Nat /\ disk.policy.max_recoveries \in Nat
          /\ disk.waited \in Nat /\ disk.policy.max_cumulative_wait \in Nat
      BY <1>1, InFlight
    <3>4. QED
      BY <2>2, <3>2, <3>3
  <2>8. /\ disk.waited + wait \in disk.waited..disk.policy.max_cumulative_wait
        /\ (disk.waited + wait) - disk.waited <= disk.policy.max_single_wait
    <3>1. /\ disk.waited \in Nat /\ disk.policy.max_cumulative_wait \in Nat
          /\ disk.policy.max_single_wait \in Nat
      BY <1>1, InFlight
    <3>2. QED
      BY <2>2, <2>7, <3>1
  <2>9. Suite!WaitForProvider
    BY <1>1, <2>5, <2>6, <2>7, <2>8, InFlight DEF Exists, Suite!WaitForProvider, Suite!Charge
  <2>10. QED
    BY <2>9
<1>5. QED
  BY <1>3, <1>4
\* Appending the confirmed gates ...
LEMMA ConfirmFields ==
    ASSUME NEW cp \in Checkpoint, NEW calls, NEW elapsed, NEW gates
    PROVE  LET new == Confirm(Spend(cp, calls, elapsed), gates)
           IN /\ new.policy = cp.policy /\ new.state = "ready"
              /\ new.next = cp.next + 1
              /\ new.completed = Append(cp.completed, gates)
              /\ new.calls = cp.calls + calls
              /\ new.recoveries = cp.recoveries /\ new.waited = cp.waited
              /\ DOMAIN new = DOMAIN cp
BY DEF Confirm, Spend, Checkpoint

\* ... and closing off after a failed prerequisite.
LEMMA CloseFields ==
    ASSUME NEW cp \in Checkpoint, NEW new, DOMAIN new = DOMAIN cp
    PROVE  LET closed == CloseSuite(new)
           IN /\ closed.policy = new.policy /\ closed.state = "completed"
              /\ closed.next = Total
              /\ closed.calls = new.calls
              /\ closed.recoveries = new.recoveries /\ closed.waited = new.waited
              /\ closed.completed =
                   [i \in 1..Total |-> IF i <= new.next THEN new.completed[i]
                                       ELSE NotTested(Ordered[i])]
BY DEF CloseSuite, Checkpoint

LEMMA ConfirmMaps ==
    ASSUME IInv, ConfirmUnit
    PROVE  Suite!ConfirmNext \/ Suite!CloseOff
<1>1. pc = "executing" /\ disk' # NoFile
  BY ConfirmPreserves DEF ConfirmUnit
<1>2. PICK calls \in CallsOf(mem), elapsed \in Elapses,
           gates \in [GatesForUnit(UnitAt(mem)) -> VerdictsOf(UnitAt(mem))] :
        LET cp == Confirm(Spend(mem, calls, elapsed), gates)
        IN disk' \in {cp, CloseSuite(cp)}
  BY DEF ConfirmUnit, PersistAndExit, PersistAndGoOn
<1> DEFINE cp == Confirm(Spend(mem, calls, elapsed), gates)
<1>3. disk.calls + calls \in disk.calls..disk.policy.calls_limit
  BY <1>1, InFlight
<1>4. gates \in GateResults
  <2>1. UnitAt(mem) \in Units
    BY <1>1, InFlight, UnitAtCursor
  <2>2. gates \in [GatesForUnit(UnitAt(mem)) -> AllVerdicts]
    BY VerdictsAreVerdicts
  <2>3. QED
    BY <2>1, <2>2 DEF GateResults
<1>5. Len(disk.completed) < Total
  BY <1>1, InFlight
<1>6. CASE disk' = cp
  <2>1. /\ disk'.state = "ready" /\ disk'.policy = disk.policy
        /\ disk'.completed = Append(disk.completed, gates)
        /\ disk'.calls = disk.calls + calls
        /\ disk'.recoveries = disk.recoveries /\ disk'.waited = disk.waited
    <3>1. mem = disk /\ disk \in Checkpoint
      BY <1>1, InFlight
    <3> DEFINE new == Confirm(Spend(disk, calls, elapsed), gates)
    <3>2. disk' = new
      BY <1>6, <3>1
    <3>3. /\ new.state = "ready" /\ new.policy = disk.policy
          /\ new.completed = Append(disk.completed, gates)
          /\ new.calls = disk.calls + calls
          /\ new.recoveries = disk.recoveries /\ new.waited = disk.waited
      BY <3>1, ConfirmFields
    <3> HIDE DEF new
    <3>4. QED
      BY <3>2, <3>3
  <2>2. Suite!ConfirmNext
    BY <1>1, <1>3, <1>4, <1>5, <2>1, InFlight DEF Exists, Suite!ConfirmNext, Suite!Charge
  <2>3. QED
    BY <2>2
<1>7. CASE disk' = CloseSuite(cp)
  <2>1. /\ disk'.state = "completed" /\ disk'.policy = disk.policy
        /\ disk'.completed =
             [i \in 1..Total |-> IF i <= disk.next + 1 THEN Append(disk.completed, gates)[i]
                                 ELSE NotTested(Ordered[i])]
        /\ disk'.calls = disk.calls + calls
        /\ disk'.recoveries = disk.recoveries /\ disk'.waited = disk.waited
    <3>1. mem = disk /\ disk \in Checkpoint
      BY <1>1, InFlight
    <3>2. /\ cp.policy = disk.policy /\ cp.next = disk.next + 1
          /\ cp.completed = Append(disk.completed, gates)
          /\ cp.calls = disk.calls + calls
          /\ cp.recoveries = disk.recoveries /\ cp.waited = disk.waited
          /\ DOMAIN cp = DOMAIN disk
      BY <3>1, ConfirmFields
    <3> HIDE DEF cp
    <3> DEFINE new == CloseSuite(cp)
    <3>3. /\ new.policy = cp.policy /\ new.state = "completed"
          /\ new.calls = cp.calls
          /\ new.recoveries = cp.recoveries /\ new.waited = cp.waited
          /\ new.completed = [i \in 1..Total |-> IF i <= cp.next THEN cp.completed[i]
                                                 ELSE NotTested(Ordered[i])]
      BY <3>1, <3>2, CloseFields
    <3> HIDE DEF new
    <3>4. disk' = new
      BY <1>7 DEF new
    <3>5. QED
      BY <3>2, <3>3, <3>4
  <2> DEFINE closed == [i \in 1..Total |->
                          IF i <= Len(disk.completed) THEN disk.completed[i]
                          ELSE IF i = Len(disk.completed) + 1 THEN gates ELSE SkippedUnit(i)]
  <2>2. \A i \in 1..Total : disk'.completed[i] = closed[i]
    <3>1. TAKE i \in 1..Total
    <3>2. /\ disk.completed \in Seq(GateResults) /\ Len(disk.completed) = disk.next
          /\ disk.next \in Nat /\ Total \in Nat
      BY <1>1, InFlight, TotalPositive
    <3>3. CASE i <= disk.next
      <4>1. Append(disk.completed, gates)[i] = disk.completed[i]
        BY <1>4, <3>2, <3>3
      <4>2. disk'.completed[i] = Append(disk.completed, gates)[i]
        BY <2>1, <3>2, <3>3
      <4>3. closed[i] = disk.completed[i]
        BY <3>2, <3>3
      <4>4. QED
        BY <4>1, <4>2, <4>3
    <3>4. CASE i = disk.next + 1
      <4>1. Append(disk.completed, gates)[i] = gates
        BY <1>4, <3>2, <3>4
      <4>2. disk'.completed[i] = Append(disk.completed, gates)[i]
        BY <2>1, <3>2, <3>4
      <4>3. closed[i] = gates
        BY <3>2, <3>4
      <4>4. QED
        BY <4>1, <4>2, <4>3
    <3>5. CASE i > disk.next + 1
      <4>1. disk'.completed[i] = NotTested(Ordered[i])
        BY <2>1, <3>2, <3>5
      <4>2. closed[i] = NotTested(Ordered[i])
        BY <3>2, <3>5 DEF SkippedUnit
      <4>3. QED
        BY <4>1, <4>2
    <3>6. QED
      BY <3>2, <3>3, <3>4, <3>5
  <2>3. disk'.completed = closed
    BY <2>1, <2>2
  <2> HIDE DEF closed
  <2>4. (IF Exists THEN disk.completed ELSE <<>>) = disk.completed
        /\ (IF Exists THEN disk.completed ELSE <<>>)' = closed
    BY <1>1, <2>3, InFlight DEF Exists
  <2>5. Suite!CloseOff
    BY <1>1, <1>3, <1>4, <1>5, <2>1, <2>4, InFlight
       DEF Exists, Suite!CloseOff, Suite!Charge, closed
  <2>6. QED
    BY <2>5
<1>8. QED
  BY <1>2, <1>6, <1>7

LEMMA NextMaps ==
    ASSUME IInv, [Next]_vars
    PROVE  [Suite!Next]_(Suite!vars)
<1>1. CASE \E p \in Policies : CreateCheckpoint(p)
  BY <1>1, CreateMaps DEF Suite!Next
<1>2. CASE \E p \in Policies : RejectCheckpoint(p) \/ ReturnUnchanged(p) \/ ResumeReady(p)
  BY <1>2, QuietMaps DEF RejectCheckpoint, ReturnUnchanged, ResumeReady
<1>3. CASE \E p \in Policies : ResumeWaiting(p)
  BY <1>3, ResumeMaps DEF ResumeWaiting, Loads, PersistAndGoOn, Suite!Next
<1>4. CASE PaceEnds
  BY <1>4, Running, ResumeMaps DEF PaceEnds, PersistAndGoOn, Suite!Next
<1>5. CASE PaceBegins \/ CompleteSuite \/ BlockBeforeUnit
  BY <1>5, PaceMaps, CompleteMaps, BlockBeforeMaps DEF Suite!Next
<1>6. CASE PauseUnit \/ ExhaustUnit \/ ConfirmUnit
  BY <1>6, PauseMaps, ExhaustMaps, ConfirmMaps DEF Suite!Next
<1>7. CASE Dispatch \/ Tick \/ Fault
  BY <1>7, QuietMaps
     DEF Dispatch, Tick, Fault, RejectExecution, PaceWakesEarly, ClockSetBack, Crash
<1>8. CASE UNCHANGED vars
  BY <1>8, QuietMaps DEF vars
<1>9. QED
  BY <1>1, <1>2, <1>3, <1>4, <1>5, <1>6, <1>7, <1>8 DEF Next, Invoke, RunStep

\* Across any number of processes, kills and failed writes, what is on disk is
\* one evaluation as ADR-001 and the SSD describe it.
THEOREM Refinement == SafetySpec => RefinesSuite
BY InitMaps, NextMaps, Invariance, PTL DEF SafetySpec, RefinesSuite, Suite!Spec

-----------------------------------------------------------------------------
(***************************************************************************)
(* What a write of the checkpoint may do: waits, and progress.             *)
(***************************************************************************)

\* Apart from the two kinds of wait, a write leaves the checkpoint not waiting.
LEMMA OtherWritesDoNotWait ==
    ASSUME IInv, [Next]_vars, ~PauseUnit, ~PaceBegins
    PROVE  disk' = disk \/ disk'.state # "waiting"
<1>1. CASE \E p \in Policies : CreateCheckpoint(p)
  BY <1>1 DEF CreateCheckpoint, PersistAndGoOn, NewCheckpoint
<1>2. CASE \E p \in Policies : RejectCheckpoint(p) \/ ReturnUnchanged(p) \/ ResumeReady(p)
  BY <1>2 DEF RejectCheckpoint, ReturnUnchanged, ResumeReady
<1>3. CASE \E p \in Policies : ResumeWaiting(p)
  BY <1>3 DEF ResumeWaiting, Loads, PersistAndGoOn, IInv, TypeOK, Checkpoint
<1>4. CASE PaceEnds \/ CompleteSuite
  BY <1>4, Running DEF PaceEnds, CompleteSuite, PersistAndGoOn, PersistAndExit, Checkpoint
<1>5. CASE BlockBeforeUnit
  BY <1>5, Running DEF BlockBeforeUnit, PersistAndExit, Blocked, Checkpoint
<1>6. CASE ExhaustUnit
  BY <1>6, InFlight, SpentAndBlockedFields DEF ExhaustUnit, PersistAndExit
<1>7. CASE ConfirmUnit
  <2>1. PICK calls, elapsed, gates :
          LET cp == Confirm(Spend(mem, calls, elapsed), gates)
          IN disk' \in {cp, CloseSuite(cp)}
    BY <1>7 DEF ConfirmUnit, PersistAndExit, PersistAndGoOn
  <2>2. mem \in Checkpoint
    BY <1>7, Running DEF ConfirmUnit
  <2> DEFINE cp == Confirm(Spend(mem, calls, elapsed), gates)
  <2>3. cp.state = "ready" /\ DOMAIN cp = DOMAIN mem
    BY <2>2, ConfirmFields
  <2>4. disk' = cp \/ disk' = CloseSuite(cp)
    BY <2>1
  <2> HIDE DEF cp
  <2>5. CloseSuite(cp).state = "completed"
    BY <2>2, <2>3, CloseFields
  <2>6. QED
    BY <2>3, <2>4, <2>5
<1>8. CASE Dispatch \/ Tick \/ Fault
  BY <1>8 DEF Dispatch, Tick, Fault, RejectExecution, PaceWakesEarly, ClockSetBack, Crash
<1>9. CASE UNCHANGED vars
  BY <1>9 DEF vars
<1>10. QED
  BY <1>1, <1>2, <1>3, <1>4, <1>5, <1>6, <1>7, <1>8, <1>9 DEF Next, Invoke, RunStep

\* pause_for_transient waits for an external unit that has calls and time left.
LEMMA PauseIsRetryable ==
    ASSUME IInv, PauseUnit
    PROVE  WaitingIsRetryable'
<1>1. /\ pc = "executing" /\ IsExternal(UnitAt(mem)) /\ mem \in Checkpoint
  BY Running DEF PauseUnit
<1>2. PICK calls \in CallsOf(mem), elapsed \in Elapses, hint \in RetryAfters \cup {NoHint} :
        LET cp == Spend(mem, calls, elapsed)
            wait == IF hint = NoHint THEN cp.policy.fallback_wait ELSE hint
            verdict == PauseVerdict(cp, wait)
        IN disk' = IF verdict = "transient" THEN WaitAfter(cp, wait) ELSE Blocked(cp, verdict)
  BY DEF PauseUnit, PersistAndExit
<1> DEFINE cp == Spend(mem, calls, elapsed)
           wait == IF hint = NoHint THEN cp.policy.fallback_wait ELSE hint
           verdict == PauseVerdict(cp, wait)
<1>3. CASE verdict # "transient"
  <2>1. disk' = Blocked(Spend(mem, calls, elapsed), verdict)
    BY <1>2, <1>3
  <2> HIDE DEF verdict
  <2>2. disk'.state = "blocked"
    BY <1>1, <2>1, SpentAndBlockedFields
  <2>3. QED
    BY <2>2 DEF WaitingIsRetryable
<1>4. CASE verdict = "transient"
  <2>1. disk' = WaitAfter(cp, wait)
    BY <1>2, <1>4
  <2>2. ~CallsExhausted(cp) /\ ~ActiveTimeExhausted(cp)
    BY <1>4 DEF PauseVerdict
  <2>3. cp.next = mem.next
    BY <1>1, SpentFields
  <2> HIDE DEF cp, wait
  <2>4. /\ DOMAIN cp = DOMAIN mem
        /\ DOMAIN mem = {"policy", "state", "next", "completed", "calls", "elapsed",
                         "recoveries", "waited", "not_before", "last_pause"}
    BY <1>1, SpentFields DEF cp, Checkpoint
  <2>5. /\ disk'.last_pause = "transient" /\ disk'.next = cp.next
        /\ disk'.policy = cp.policy /\ disk'.calls = cp.calls /\ disk'.elapsed = cp.elapsed
    BY <2>1, <2>4 DEF WaitAfter
  <2>6. IsExternal(UnitAt(disk'))
    BY <1>1, <2>3, <2>5 DEF UnitAt
  <2>7. ~CallsExhausted(disk') /\ ~ActiveTimeExhausted(disk')
    BY <2>2, <2>5 DEF CallsExhausted, ActiveTimeExhausted
  <2>8. QED
    BY <2>5, <2>6, <2>7 DEF WaitingIsRetryable
<1>5. QED
  BY <1>3, <1>4

LEMMA WaitsStayRetryable == IInv /\ WaitingIsRetryable /\ [Next]_vars => WaitingIsRetryable'
<1> SUFFICES ASSUME IInv, WaitingIsRetryable, [Next]_vars PROVE WaitingIsRetryable'
  OBVIOUS
<1>1. CASE PaceBegins
  <2>1. mem \in Checkpoint
    BY <1>1, Running DEF PaceBegins
  <2>2. disk'.last_pause = "inter_gate_pacing"
    BY <1>1, <2>1 DEF PaceBegins, PersistAndGoOn, Checkpoint
  <2>3. QED
    BY <2>2 DEF WaitingIsRetryable
<1>2. CASE disk' = disk
  BY <1>2 DEF WaitingIsRetryable, UnitAt, CallsExhausted, ActiveTimeExhausted
<1>3. CASE disk'.state # "waiting"
  BY <1>3 DEF WaitingIsRetryable
<1>4. QED
  BY <1>1, <1>2, <1>3, PauseIsRetryable, OtherWritesDoNotWait

\* A wait for the provider always waits for a unit that may be tried again.
THEOREM WaitsAreRetryable == SafetySpec => []WaitingIsRetryable
<1>1. Init => WaitingIsRetryable
  BY DEF Init, WaitingIsRetryable
<1>2. QED
  BY <1>1, WaitsStayRetryable, Invariance, PTL DEF SafetySpec

\* What DurableProgress says of one write.
Advances(old, new) ==
    /\ new.policy = old.policy
    /\ new.next >= old.next
    /\ \A i \in 1..old.next : new.completed[i] = old.completed[i]
    /\ new.calls >= old.calls
    /\ new.elapsed >= old.elapsed
    /\ new.recoveries >= old.recoveries
    /\ new.waited >= old.waited

\* A write that confirms nothing and spends something, or nothing.
LEMMA SpendingAdvances ==
    ASSUME NEW old \in Checkpoint, NEW new,
           NEW calls \in Nat, NEW elapsed \in Nat, NEW recoveries \in Nat, NEW waited \in Nat,
           new.policy = old.policy, new.next = old.next, new.completed = old.completed,
           new.calls = old.calls + calls, new.elapsed = old.elapsed + elapsed,
           new.recoveries = old.recoveries + recoveries, new.waited = old.waited + waited
    PROVE  Advances(old, new)
<1>1. /\ old.next \in Nat /\ old.calls \in Nat /\ old.elapsed \in Nat
      /\ old.recoveries \in Nat /\ old.waited \in Nat
  BY CheckpointFields
<1>2. /\ new.next >= old.next /\ new.calls >= old.calls /\ new.elapsed >= old.elapsed
      /\ new.recoveries >= old.recoveries /\ new.waited >= old.waited
  BY <1>1
<1>3. QED
  BY <1>2 DEF Advances

LEMMA KeepingAdvances ==
    ASSUME NEW old \in Checkpoint, NEW new,
           new.policy = old.policy, new.next = old.next, new.completed = old.completed,
           new.calls = old.calls, new.elapsed = old.elapsed,
           new.recoveries = old.recoveries, new.waited = old.waited
    PROVE  Advances(old, new)
BY CheckpointFields DEF Advances

\* Everything but the unit in flight only changes the state, the deadline and the reason.
LEMMA QuietWritesAdvance ==
    ASSUME IInv, disk # NoFile,
           \/ \E p \in Policies : ResumeWaiting(p)
           \/ CompleteSuite \/ BlockBeforeUnit \/ PaceBegins \/ PaceEnds
    PROVE  Advances(disk, disk') /\ disk.state \notin {"completed", "blocked"}
<1>1. disk \in Checkpoint
  BY DEF IInv, TypeOK
<1>2. /\ disk.state \notin {"completed", "blocked"}
      /\ \E state, deadline, reason :
            disk' = [disk EXCEPT !.state = state, !.not_before = deadline, !.last_pause = reason]
  <2>1. CASE \E p \in Policies : ResumeWaiting(p)
    <3>1. disk' = [disk EXCEPT !.state = "ready", !.not_before = NoDeadline,
                               !.last_pause = disk.last_pause]
      BY <1>1, <2>1 DEF ResumeWaiting, PersistAndGoOn, Checkpoint
    <3>2. QED
      BY <2>1, <3>1 DEF ResumeWaiting
  <2>2. CASE CompleteSuite
    <3>1. mem = disk /\ disk.state = "ready"
      BY <2>2, Running DEF CompleteSuite
    <3>2. disk' = [disk EXCEPT !.state = "completed", !.not_before = NoDeadline,
                               !.last_pause = disk.last_pause]
      BY <1>1, <2>2, <3>1 DEF CompleteSuite, PersistAndExit, Checkpoint
    <3>3. QED
      BY <3>1, <3>2
  <2>3. CASE BlockBeforeUnit
    <3>1. mem = disk /\ disk.state = "ready"
      BY <2>3, Running DEF BlockBeforeUnit
    <3>2. PICK reason \in {"call_limit_reached", "active_elapsed_limit_reached"} :
            disk' = Blocked(disk, reason)
      BY <2>3, <3>1 DEF BlockBeforeUnit, PersistAndExit
    <3>3. disk' = [disk EXCEPT !.state = "blocked", !.not_before = NoDeadline,
                               !.last_pause = reason]
      BY <3>2 DEF Blocked
    <3>4. QED
      BY <3>1, <3>3
  <2>4. CASE PaceBegins
    <3>1. mem = disk /\ disk.state = "ready"
      BY <2>4, Running DEF PaceBegins
    <3>2. disk' = [disk EXCEPT !.state = "waiting", !.not_before = now + disk.policy.pacing,
                               !.last_pause = "inter_gate_pacing"]
      BY <1>1, <2>4, <3>1 DEF PaceBegins, PersistAndGoOn, Checkpoint
    <3>3. QED
      BY <3>1, <3>2
  <2>5. CASE PaceEnds
    <3>1. mem = disk /\ disk.state = "waiting"
      BY <2>5, Running DEF PaceEnds
    <3>2. disk' = [disk EXCEPT !.state = "ready", !.not_before = NoDeadline,
                               !.last_pause = disk.last_pause]
      BY <1>1, <2>5, <3>1 DEF PaceEnds, PersistAndGoOn, Checkpoint
    <3>3. QED
      BY <3>1, <3>2
  <2>6. QED
    BY <2>1, <2>2, <2>3, <2>4, <2>5
<1>3. PICK state, deadline, reason :
        disk' = [disk EXCEPT !.state = state, !.not_before = deadline, !.last_pause = reason]
  BY <1>2
<1>4. /\ disk'.policy = disk.policy /\ disk'.next = disk.next
      /\ disk'.completed = disk.completed /\ disk'.calls = disk.calls
      /\ disk'.elapsed = disk.elapsed /\ disk'.recoveries = disk.recoveries
      /\ disk'.waited = disk.waited
  BY <1>1, <1>3 DEF Checkpoint
<1>5. QED
  BY <1>1, <1>2, <1>4, KeepingAdvances

\* A unit that is paused or blocked is charged with what it spent.
LEMMA InterruptionAdvances ==
    ASSUME IInv, PauseUnit \/ ExhaustUnit
    PROVE  Advances(disk, disk') /\ disk.state \notin {"completed", "blocked"}
<1>1. /\ mem = disk /\ disk \in Checkpoint /\ disk.state = "ready"
      /\ disk.policy.fallback_wait \in Nat
      /\ CallsOf(mem) \subseteq Nat
  BY InFlight, Running DEF PauseUnit, ExhaustUnit
<1>2. PICK calls \in Nat, elapsed \in Nat :
        \/ \E reason : disk' = Blocked(Spend(disk, calls, elapsed), reason)
        \/ \E wait \in Nat : disk' = WaitAfter(Spend(disk, calls, elapsed), wait)
  <2>1. CASE ExhaustUnit
    BY <1>1, <2>1, ExecutorAssumption DEF ExhaustUnit, PersistAndExit
  <2>2. CASE PauseUnit
    <3>1. PICK calls \in CallsOf(mem), elapsed \in Elapses, hint \in RetryAfters \cup {NoHint} :
            LET cp == Spend(mem, calls, elapsed)
                wait == IF hint = NoHint THEN cp.policy.fallback_wait ELSE hint
                verdict == PauseVerdict(cp, wait)
            IN disk' = IF verdict = "transient" THEN WaitAfter(cp, wait) ELSE Blocked(cp, verdict)
      BY <2>2 DEF PauseUnit, PersistAndExit
    <3> DEFINE cp == Spend(mem, calls, elapsed)
               wait == IF hint = NoHint THEN cp.policy.fallback_wait ELSE hint
    <3>2. calls \in Nat /\ elapsed \in Nat
      BY <1>1, ExecutorAssumption
    <3>3. wait \in Nat
      <4>1. cp.policy = disk.policy
        BY <1>1, SpentFields
      <4>2. QED
        BY <1>1, <4>1, ExecutorAssumption
    <3>4. (\E reason : disk' = Blocked(cp, reason)) \/ disk' = WaitAfter(cp, wait)
      BY <3>1
    <3> HIDE DEF wait
    <3>5. QED
      BY <1>1, <3>2, <3>3, <3>4
  <2>3. QED
    BY <2>1, <2>2
<1> DEFINE cp == Spend(disk, calls, elapsed)
<1>3. /\ cp.policy = disk.policy /\ cp.next = disk.next /\ cp.completed = disk.completed
      /\ cp.calls = disk.calls + calls /\ cp.elapsed = disk.elapsed + elapsed
      /\ cp.recoveries = disk.recoveries /\ cp.waited = disk.waited
      /\ DOMAIN cp = {"policy", "state", "next", "completed", "calls", "elapsed",
                      "recoveries", "waited", "not_before", "last_pause"}
  BY <1>1 DEF Spend, Checkpoint
<1>4. disk.recoveries \in Nat /\ disk.waited \in Nat
  BY <1>1, CheckpointFields
<1> HIDE DEF cp
<1>5. CASE \E reason : disk' = Blocked(cp, reason)
  <2>1. /\ disk'.policy = cp.policy /\ disk'.next = cp.next /\ disk'.completed = cp.completed
        /\ disk'.calls = cp.calls /\ disk'.elapsed = cp.elapsed
        /\ disk'.recoveries = cp.recoveries + 0 /\ disk'.waited = cp.waited + 0
    BY <1>3, <1>4, <1>5 DEF Blocked
  <2>2. QED
    BY <1>1, <1>3, <2>1, SpendingAdvances
<1>6. CASE \E wait \in Nat : disk' = WaitAfter(cp, wait)
  <2>1. PICK wait \in Nat : disk' = WaitAfter(cp, wait)
    BY <1>6
  <2>2. /\ disk'.policy = cp.policy /\ disk'.next = cp.next /\ disk'.completed = cp.completed
        /\ disk'.calls = cp.calls /\ disk'.elapsed = cp.elapsed
        /\ disk'.recoveries = cp.recoveries + 1 /\ disk'.waited = cp.waited + wait
    BY <1>3, <2>1 DEF WaitAfter
  <2>3. QED
    BY <1>1, <1>3, <2>2, SpendingAdvances
<1>7. QED
  BY <1>2, <1>5, <1>6 DEF cp

\* A confirmation appends, whether or not it closes the suite.
LEMMA ConfirmationAdvances ==
    ASSUME IInv, ConfirmUnit
    PROVE  Advances(disk, disk') /\ disk.state \notin {"completed", "blocked"}
<1>1. /\ pc = "executing" /\ mem = disk /\ disk \in Checkpoint /\ disk.state = "ready"
      /\ disk.next \in Nat /\ disk.next < Total /\ Total \in Nat
      /\ disk.completed \in Seq(GateResults) /\ Len(disk.completed) = disk.next
      /\ CallsOf(mem) \subseteq Nat
  BY InFlight, Running, TotalPositive DEF ConfirmUnit
<1>2. PICK calls \in Nat, elapsed \in Nat,
           gates \in [GatesForUnit(UnitAt(mem)) -> VerdictsOf(UnitAt(mem))] :
        LET cp == Confirm(Spend(disk, calls, elapsed), gates)
        IN disk' \in {cp, CloseSuite(cp)}
  BY <1>1, ExecutorAssumption DEF ConfirmUnit, PersistAndExit, PersistAndGoOn
<1>3. gates \in GateResults
  <2>1. UnitAt(mem) \in Units
    BY <1>1, UnitAtCursor
  <2>2. gates \in [GatesForUnit(UnitAt(mem)) -> AllVerdicts]
    BY VerdictsAreVerdicts
  <2>3. QED
    BY <2>1, <2>2 DEF GateResults
<1> DEFINE cp == Confirm(Spend(disk, calls, elapsed), gates)
<1>4. /\ cp.policy = disk.policy /\ cp.next = disk.next + 1
      /\ cp.completed = Append(disk.completed, gates)
      /\ cp.calls = disk.calls + calls /\ cp.elapsed = disk.elapsed + elapsed
      /\ cp.recoveries = disk.recoveries /\ cp.waited = disk.waited
      /\ DOMAIN cp = {"policy", "state", "next", "completed", "calls", "elapsed",
                      "recoveries", "waited", "not_before", "last_pause"}
  BY <1>1 DEF Confirm, Spend, Checkpoint
<1>5. /\ disk.calls \in Nat /\ disk.elapsed \in Nat
      /\ disk.recoveries \in Nat /\ disk.waited \in Nat
  BY <1>1, CheckpointFields
<1>6. disk' \in {cp, CloseSuite(cp)}
  BY <1>2
<1> HIDE DEF cp
<1>7. \A i \in 1..disk.next : cp.completed[i] = disk.completed[i]
  BY <1>1, <1>3, <1>4
<1>8. /\ cp.next >= disk.next /\ cp.calls >= disk.calls /\ cp.elapsed >= disk.elapsed
      /\ cp.recoveries >= disk.recoveries /\ cp.waited >= disk.waited
  BY <1>1, <1>4, <1>5, SMTT(30)
<1>9. CASE disk' = cp
  BY <1>1, <1>4, <1>7, <1>8, <1>9 DEF Advances
<1>10. CASE disk' = CloseSuite(cp)
  <2>1. /\ disk'.policy = cp.policy /\ disk'.next = Total /\ disk'.calls = cp.calls
        /\ disk'.elapsed = cp.elapsed
        /\ disk'.recoveries = cp.recoveries /\ disk'.waited = cp.waited
        /\ disk'.completed = [i \in 1..Total |-> IF i <= cp.next THEN cp.completed[i]
                                                 ELSE NotTested(Ordered[i])]
    BY <1>4, <1>10 DEF CloseSuite
  <2>2. \A i \in 1..disk.next : disk'.completed[i] = cp.completed[i]
    BY <1>1, <1>4, <2>1
  <2>3. disk'.next >= disk.next
    BY <1>1, <2>1
  <2>4. QED
    BY <1>1, <1>4, <1>7, <1>8, <2>1, <2>2, <2>3 DEF Advances
<1>11. QED
  BY <1>6, <1>9, <1>10

LEMMA WritesAdvance ==
    ASSUME IInv, [Next]_vars, disk # NoFile, disk' # disk
    PROVE  Advances(disk, disk') /\ disk.state \notin {"completed", "blocked"}
<1>1. ~(Dispatch \/ Tick \/ Fault \/ UNCHANGED vars)
  BY DEF Dispatch, Tick, Fault, RejectExecution, PaceWakesEarly, ClockSetBack, Crash, vars
<1>2. ASSUME NEW p \in Policies
      PROVE  ~(CreateCheckpoint(p) \/ RejectCheckpoint(p) \/ ReturnUnchanged(p) \/ ResumeReady(p))
  BY DEF CreateCheckpoint, RejectCheckpoint, ReturnUnchanged, ResumeReady
<1>3. QED
  BY <1>1, <1>2, QuietWritesAdvance, InterruptionAdvances, ConfirmationAdvances
     DEF Next, Invoke, RunStep

\* Across processes, kills and failed writes: no confirmed result is rewritten, no
\* budget given back, no final state left.
THEOREM ProgressIsDurable == SafetySpec => DurableProgress
<1>1. IInv /\ [Next]_vars =>
        [ disk # NoFile =>
          /\ disk'.policy = disk.policy
          /\ disk'.next >= disk.next
          /\ \A i \in 1..disk.next : disk'.completed[i] = disk.completed[i]
          /\ disk'.calls >= disk.calls
          /\ disk'.elapsed >= disk.elapsed
          /\ disk'.recoveries >= disk.recoveries
          /\ disk'.waited >= disk.waited
          /\ disk.state \notin {"completed", "blocked"} ]_disk
  BY WritesAdvance DEF Advances
<1>2. QED
  BY <1>1, Invariance, PTL DEF SafetySpec, DurableProgress

-----------------------------------------------------------------------------
(***************************************************************************)
(* What is decided stays decided.  Of a checkpoint only the confirmed      *)
(* units can have failed, and a suite that passes has nothing left but     *)
(* units that do not count, so that its later units add nothing.           *)
(***************************************************************************)
\* What counts of the i-th unit of a report.
Counted(report, i) == {report[i][g] : g \in DOMAIN report[i] \ {"native_tool_calling"}}

LEMMA RelevantIs ==
    ASSUME NEW cp, NEW v
    PROVE  v \in Relevant(Report(cp)) <=> \E i \in 1..Total : v \in Counted(Report(cp), i)
BY DEF Relevant, Counted

LEMMA ReportIs ==
    ASSUME NEW cp, NEW i \in 1..Total
    PROVE  /\ i <= cp.next => Report(cp)[i] = cp.completed[i]
           /\ ~(i <= cp.next) =>
                 /\ DOMAIN Report(cp)[i] = GatesForUnit(Ordered[i])
                 /\ \A g \in DOMAIN Report(cp)[i] :
                       Report(cp)[i][g] \in {"blocked", "inconclusive", "not_tested"}
<1>1. PrimaryVerdict(cp) \in {"blocked", "inconclusive", "not_tested"}
  BY DEF PrimaryVerdict
<1>2. QED
  BY <1>1 DEF Report

\* A unit that was not confirmed counts neither as passed nor as failed.
LEMMA UndecidedIs ==
    ASSUME NEW cp, NEW i \in 1..Total, ~(i <= cp.next)
    PROVE  "pass" \notin Counted(Report(cp), i) /\ "fail" \notin Counted(Report(cp), i)
BY ReportIs DEF Counted

LEMMA VerdictIs ==
    ASSUME NEW cp
    PROVE  /\ OverallVerdict(cp) = "fail" <=> "fail" \in Relevant(Report(cp))
           /\ OverallVerdict(cp) = "pass" <=> Relevant(Report(cp)) = {"pass"}
BY DEF OverallVerdict

LEMMA ConfirmedCounts ==
    ASSUME NEW before \in Checkpoint, NEW after \in Checkpoint, Advances(before, after),
           NEW i \in 1..Total, i <= before.next
    PROVE  Counted(Report(after), i) = Counted(Report(before), i)
<1>1. i <= after.next /\ i \in 1..before.next
  BY CheckpointFields, TotalPositive DEF Advances
<1>2. after.completed[i] = before.completed[i]
  BY <1>1 DEF Advances
<1>3. Report(after)[i] = Report(before)[i]
  BY <1>1, <1>2, ReportIs
<1>4. QED
  BY <1>3 DEF Counted

LEMMA FailedStays ==
    ASSUME NEW before \in Checkpoint, NEW after \in Checkpoint, Advances(before, after),
           OverallVerdict(before) = "fail"
    PROVE  OverallVerdict(after) = "fail"
<1>1. PICK i \in 1..Total : "fail" \in Counted(Report(before), i)
  BY VerdictIs, RelevantIs
<1>2. i <= before.next
  BY <1>1, UndecidedIs
<1>3. "fail" \in Counted(Report(after), i)
  BY <1>1, <1>2, ConfirmedCounts
<1>4. QED
  BY <1>3, VerdictIs, RelevantIs

LEMMA PassedStays ==
    ASSUME NEW before, NEW after, Sound(before), Sound(after), Advances(before, after),
           OverallVerdict(before) = "pass"
    PROVE  OverallVerdict(after) = "pass"
<1>1. before \in Checkpoint /\ after \in Checkpoint
  BY DEF Sound
<1>2. Relevant(Report(before)) = {"pass"}
  BY VerdictIs
<1>3. ASSUME NEW i \in 1..Total
      PROVE  Counted(Report(after), i) = Counted(Report(before), i)
  <2>1. CASE i <= before.next
    BY <1>1, <2>1, ConfirmedCounts
  <2>2. CASE ~(i <= before.next)
    <3>1. Counted(Report(before), i) = {}
      <4>1. "pass" \notin Counted(Report(before), i)
        BY <2>2, UndecidedIs
      <4>2. Counted(Report(before), i) \subseteq {"pass"}
        BY <1>2, RelevantIs
      <4>3. QED
        BY <4>1, <4>2
    <3>2. GatesForUnit(Ordered[i]) \subseteq {"native_tool_calling"}
      BY <2>2, <3>1, ReportIs DEF Counted
    <3>3. DOMAIN Report(after)[i] = GatesForUnit(Ordered[i])
      <4>1. CASE i <= after.next
        <5>1. i \in 1..after.next
          BY <1>1, <4>1, CheckpointFields
        <5>2. QED
          BY <4>1, <5>1, ReportIs DEF Sound, CompletedMatchesCursor
      <4>2. CASE ~(i <= after.next)
        BY <4>2, ReportIs
      <4>3. QED
        BY <4>1, <4>2
    <3>4. Counted(Report(after), i) = {}
      BY <3>2, <3>3 DEF Counted
    <3>5. QED
      BY <3>1, <3>4
  <2>3. QED
    BY <2>1, <2>2
<1>4. Relevant(Report(after)) = Relevant(Report(before))
  BY <1>3, RelevantIs
<1>5. QED
  BY <1>2, <1>4, VerdictIs

\* A checkpoint is never removed.
LEMMA FileStays ==
    ASSUME IInv, [Next]_vars, disk # NoFile
    PROVE  disk' # NoFile
<1>1. CASE disk' = disk
  BY <1>1
<1>2. ASSUME NEW p \in Policies, ResumeWaiting(p)
      PROVE  disk' # NoFile
  <2>1. disk \in Checkpoint
    BY DEF IInv, TypeOK
  <2>2. [disk EXCEPT !.state = "ready", !.not_before = NoDeadline] \in Checkpoint
    BY <2>1 DEF Checkpoint, States
  <2>3. QED
    BY <1>2, <2>2, NoFileAssumption DEF ResumeWaiting, PersistAndGoOn
<1>3. CASE disk' # disk /\ \A p \in Policies : ~ResumeWaiting(p)
  <2>1. ~(Dispatch \/ Tick \/ Fault \/ UNCHANGED vars)
    BY <1>3 DEF Dispatch, Tick, Fault, RejectExecution, PaceWakesEarly, ClockSetBack, Crash, vars
  <2>2. ASSUME NEW p \in Policies
        PROVE  ~Invoke(p)
    BY <1>3 DEF Invoke, CreateCheckpoint, RejectCheckpoint, ReturnUnchanged, ResumeReady
  <2>3. RunStep
    BY <2>1, <2>2 DEF Next
  <2>4. QED
    BY <2>3, LoopPreserves, PausePreserves, ExhaustPreserves, ConfirmPreserves, PacePreserves
       DEF RunStep
<1>4. QED
  BY <1>1, <1>2, <1>3

\* Pauses, pacing, blocks, restarts and kills never turn a suite that has passed or failed
\* (model_compatibility_scheduler.rs, overall_verdict), for every suite, in any order.
THEOREM DecisionIsFinal == SafetySpec => DecidedIsFinal
<1>1. IInv /\ IInv' /\ [Next]_vars =>
        [ disk # NoFile /\ OverallVerdict(disk) \in {"pass", "fail"} =>
          OverallVerdict(disk') = OverallVerdict(disk) ]_disk
  <2> SUFFICES ASSUME IInv, IInv', [Next]_vars, disk' # disk, disk # NoFile,
                      OverallVerdict(disk) \in {"pass", "fail"}
               PROVE  OverallVerdict(disk') = OverallVerdict(disk)
    OBVIOUS
  <2>1. Advances(disk, disk')
    BY WritesAdvance
  <2>2. disk' # NoFile
    BY FileStays
  <2>3. Sound(disk) /\ Sound(disk')
    BY <2>2 DEF IInv
  <2>4. disk \in Checkpoint /\ disk' \in Checkpoint
    BY <2>3 DEF Sound
  <2>5. QED
    BY <2>1, <2>3, <2>4, FailedStays, PassedStays
<1>2. QED
  BY <1>1, Invariance, PTL DEF SafetySpec, DecidedIsFinal
=============================================================================
