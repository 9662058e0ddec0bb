--------------------------- MODULE ResumableSuite ---------------------------
(***************************************************************************)
(* What the durable scheduler promises (docs/adr/ADR-001, the SSD of the   *)
(* resumable gates): one long evaluation that survives its processes.      *)
(*                                                                         *)
(* There are no processes here, no files and no crashes.  The suite is     *)
(* opened once with its limits; results are confirmed one unit after       *)
(* another; the evaluation waits and resumes within its recovery budget;   *)
(* it ends completed or blocked and stays so.                              *)
(***************************************************************************)
EXTENDS Integers, Sequences

CONSTANTS
    Length,        \* number of units
    AllLimits,     \* limits a suite may be opened with
    Results,       \* results a unit may be confirmed with
    Skipped(_),    \* the result of a unit that was closed off untested
    NoLimits       \* the limits of a suite not opened yet

VARIABLES status, limits, confirmed, calls, recoveries, waited

vars == <<status, limits, confirmed, calls, recoveries, waited>>

Init ==
    /\ status = "unopened"
    /\ limits = NoLimits
    /\ confirmed = <<>>
    /\ calls = 0
    /\ recoveries = 0
    /\ waited = 0

Open ==
    /\ status = "unopened"
    /\ status' = "ready"
    /\ limits' \in AllLimits
    /\ UNCHANGED <<confirmed, calls, recoveries, waited>>

\* Work is only charged while the suite is ready, and never past the limit.
Charge ==
    /\ status = "ready"
    /\ calls' \in calls..limits.calls_limit
    /\ UNCHANGED limits

ConfirmNext ==
    /\ Charge
    /\ Len(confirmed) < Length
    /\ \E r \in Results : confirmed' = Append(confirmed, r)
    /\ status' = "ready"
    /\ UNCHANGED <<recoveries, waited>>

\* A prerequisite failed: its result is the last one, the rest is skipped.
CloseOff ==
    /\ Charge
    /\ Len(confirmed) < Length
    /\ \E r \in Results :
          confirmed' = [i \in 1..Length |->
                           IF i <= Len(confirmed) THEN confirmed[i]
                           ELSE IF i = Len(confirmed) + 1 THEN r ELSE Skipped(i)]
    /\ status' = "completed"
    /\ UNCHANGED <<recoveries, waited>>

Complete ==
    /\ status = "ready"
    /\ Len(confirmed) = Length
    /\ status' = "completed"
    /\ UNCHANGED <<limits, confirmed, calls, recoveries, waited>>

\* A wait is charged to the recovery budget in full when it is entered.
WaitForProvider ==
    /\ Charge
    /\ calls' < limits.calls_limit
    /\ recoveries < limits.max_recoveries
    /\ recoveries' = recoveries + 1
    /\ waited' \in waited..limits.max_cumulative_wait
    /\ waited' - waited <= limits.max_single_wait
    /\ status' = "waiting"
    /\ UNCHANGED confirmed

Pace ==
    /\ status = "ready"
    /\ Len(confirmed) < Length
    /\ status' = "waiting"
    /\ UNCHANGED <<limits, confirmed, calls, recoveries, waited>>

Resume ==
    /\ status = "waiting"
    /\ status' = "ready"
    /\ UNCHANGED <<limits, confirmed, calls, recoveries, waited>>

Block ==
    /\ Charge
    /\ Len(confirmed) < Length
    /\ status' = "blocked"
    /\ UNCHANGED <<confirmed, recoveries, waited>>

Next ==
    \/ Open \/ ConfirmNext \/ CloseOff \/ Complete
    \/ WaitForProvider \/ Pace \/ Resume \/ Block

Spec == Init /\ [][Next]_vars
=============================================================================
