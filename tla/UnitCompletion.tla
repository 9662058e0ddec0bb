--------------------------- MODULE UnitCompletion ---------------------------
(***************************************************************************)
(* UnitCompletionRecord (src/src/harness/unit_completion.rs): when a unit  *)
(* of engineering work counts as closed.  The record is a protocol without *)
(* an owner: whoever holds it may call any operation in any order, and an  *)
(* operation that is refused changes nothing.                              *)
(***************************************************************************)
EXTENDS Naturals, Sequences

CONSTANT MaxCalls  \* bound: operations looked at

ASSUME CallsAssumption == MaxCalls \in Nat

\* UnitTerminalStatus, and "none" before there is one.
Verifiable == {"merge_verified", "merge_failed", "blocked", "no_change_required"}

Statuses == Verifiable \cup {"unreported", "none"}

Phases == {"in_progress", "technical", "awaiting", "terminal_verified", "report_built",
           "report_delivered", "failed", "blocked"}

VARIABLES
    phase,      \* UnitCompletionPhase
    technical,  \* technical_work_completed
    reached,    \* terminal_state_reached
    verified,   \* terminal_state_verified
    built,      \* final_report_built
    delivered,  \* final_report_delivered
    status,     \* terminal_status
    log         \* history: the operations that were accepted

flags == <<technical, reached, verified, built, delivered, status>>

vars == <<phase, flags, log>>

Operations == {"technical", "await", "verify", "build", "acknowledge", "unreported"}

TypeOK ==
    /\ phase \in Phases
    /\ technical \in BOOLEAN /\ reached \in BOOLEAN /\ verified \in BOOLEAN
    /\ built \in BOOLEAN /\ delivered \in BOOLEAN
    /\ status \in Statuses
    /\ log \in Seq(Operations)

\* unit_completed.
Completed == verified /\ delivered

-----------------------------------------------------------------------------
Init ==
    /\ phase = "in_progress"
    /\ technical = FALSE /\ reached = FALSE /\ verified = FALSE
    /\ built = FALSE /\ delivered = FALSE
    /\ status = "none"
    /\ log = <<>>

Accepted(operation) == Len(log) < MaxCalls /\ log' = Append(log, operation)

\* Only the phase is asked, and the next call may have changed it.
MarkTechnicalWorkCompleted ==
    /\ phase \notin {"failed", "report_delivered"}
    /\ technical' = TRUE
    /\ phase' = "technical"
    /\ Accepted("technical")
    /\ UNCHANGED <<reached, verified, built, delivered, status>>

\* Mutant: whether there is anything to verify is not asked.
MarkAwaitingAnything ==
    /\ phase' = "awaiting"
    /\ Accepted("await")
    /\ UNCHANGED flags

MarkAwaitingTerminalVerification ==
    /\ technical \/ phase = "blocked"
    /\ phase' = "awaiting"
    /\ Accepted("await")
    /\ UNCHANGED flags

VerifyTerminal(outcome) ==
    /\ status' = outcome
    /\ reached' = TRUE
    /\ verified' = TRUE
    /\ phase' = CASE outcome = "blocked" -> "blocked"
                  [] outcome = "merge_failed" -> "failed"
                  [] OTHER -> "terminal_verified"
    /\ Accepted("verify")
    /\ UNCHANGED <<technical, built, delivered>>

BuildFinalReport ==
    /\ verified
    /\ ~delivered
    /\ built' = TRUE
    /\ phase' = "report_built"
    /\ Accepted("build")
    /\ UNCHANGED <<technical, reached, verified, delivered, status>>

AcknowledgeExternalReportDelivery ==
    /\ built
    /\ verified
    /\ delivered' = TRUE
    /\ phase' = "report_delivered"
    /\ Accepted("acknowledge")
    /\ UNCHANGED <<technical, reached, verified, built, status>>

\* Mutant: the report that was built is kept.
MarkUnreportedKeepingReport ==
    /\ status' = "unreported"
    /\ reached' = TRUE
    /\ verified' = TRUE
    /\ delivered' = FALSE
    /\ phase' = "failed"
    /\ Accepted("unreported")
    /\ UNCHANGED <<technical, built>>

MarkIncompleteUnreported ==
    /\ status' = "unreported"
    /\ reached' = TRUE
    /\ verified' = TRUE
    /\ built' = FALSE
    /\ delivered' = FALSE
    /\ phase' = "failed"
    /\ Accepted("unreported")
    /\ UNCHANGED technical

Done == Len(log) = MaxCalls /\ UNCHANGED vars

Next ==
    \/ MarkTechnicalWorkCompleted
    \/ MarkAwaitingTerminalVerification
    \/ \E outcome \in Verifiable : VerifyTerminal(outcome)
    \/ BuildFinalReport
    \/ AcknowledgeExternalReportDelivery
    \/ MarkIncompleteUnreported
    \/ Done

Spec == Init /\ [][Next]_vars

-----------------------------------------------------------------------------
(***************************************************************************)
(* Properties.                                                             *)
(***************************************************************************)
\* An unreported termination after the operation i takes back what it stood for.
TakenBack(i) == \E j \in DOMAIN log : j > i /\ log[j] = "unreported"

\* Whatever the order of the calls, the unit counts as closed exactly when a report was
\* built after some verification and acknowledged after that, and no unreported
\* termination came later.  (It is itself such a verification.)
ClosesByProtocol ==
    Completed <=>
        \E v, b, a \in DOMAIN log :
            /\ v < b /\ b < a
            /\ log[v] \in {"verify", "unreported"}
            /\ log[b] = "build"
            /\ log[a] = "acknowledge"
            /\ ~TakenBack(b)

\* The phase, which is set by the last call alone, agrees with the flags, which add up
\* over all calls.  It says less than they do: a unit that is closed may be back in any
\* phase but in progress, report_built and one that failed unreported.
PhaseAgreesWithFlags ==
    /\ phase = "in_progress" <=> log = <<>>
    /\ phase = "technical" => technical
    /\ phase = "awaiting" => technical \/ status = "blocked"
    /\ phase = "blocked" => status = "blocked"
    /\ phase = "failed" => status \in {"merge_failed", "unreported"}
    /\ phase = "terminal_verified" => status \in {"merge_verified", "no_change_required"}
    /\ phase = "report_built" => verified /\ built /\ ~delivered
    /\ phase = "report_delivered" => Completed
    /\ Completed /\ phase = "failed" => status = "merge_failed"
=============================================================================
