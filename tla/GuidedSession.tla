--------------------------- MODULE GuidedSession ---------------------------
(***************************************************************************)
(* A session that is led by the gaps of its goal: what goal_driven.rs      *)
(* recommends, what validate_model_decision_against_recommendation         *)
(* (model.rs) makes of the model's decision, the two deterministic agents  *)
(* (MockModelClient, GapDrivenAgent), and what GoalDrivenLoop::run and     *)
(* AutonomousConstruction report in the end (src/src/harness).             *)
(*                                                                         *)
(* One step is one iteration of AgentLoop::run.  A verdict is kept for     *)
(* each kind of criterion instead of the evidence it is computed from: the *)
(* last outcome of its tool, as Evaluation has it.                         *)
(***************************************************************************)
EXTENDS Evaluation

CONSTANTS
    Specifications,  \* sequences of criteria [id, kind]
    Agents,          \* those of {"model", "mock", "gap"} to look at
    Drivers,         \* those of {"goal_driven", "plain"} to look at
    Earlier,         \* what may have run before the session: outcomes, or NoRun
    RecentWindow,    \* observations a request quotes; five in the code
    DiagnosticWindow, \* those its diagnostics are collected from; eight in the code
    MaxIterations

GuidedAgents == {"model", "mock"}

Mutations == {"apply_correction", "apply_file_operations"}

Tools == Gates \cup Mutations \cup {"repair_diagnostic"}

Decisions == Tools \cup {"finish"}

Known == DOMAIN ToolOf

\* An observation of the context: an outcome of a tool, a verdict on the criterion
\* of that tool, a refused action, or the evaluation of the goal before the loop.
Observation(kind, tool, result) == [kind |-> kind, tool |-> tool, result |-> result]

Outcome(tool, result) == Observation("outcome", tool, result)

NoRun == Outcome("none", "none")

Results == {"ok", "error", "none"}

IdsOf(criteria) == {criteria[i].id : i \in DOMAIN criteria}

ASSUME GuidedAssumption ==
    /\ Agents \subseteq {"model", "mock", "gap"}
    /\ Drivers \subseteq {"goal_driven", "plain"}
    /\ Earlier \subseteq
          {NoRun} \cup {Outcome(tool, result) : tool \in Gates, result \in {"ok", "error"}}
    /\ RecentWindow \in Nat \ {0} /\ DiagnosticWindow \in Nat /\ DiagnosticWindow >= RecentWindow
    /\ MaxIterations \in Nat \ {0}
    /\ \A criteria \in Specifications :
          criteria \in Seq([id : IdsOf(criteria), kind : Kinds])

VARIABLES
    criteria, agent, driver, earlier,
    known,       \* verdict of each kind by the evidence in the context
    earned,      \* verdict of each kind by the evidence of the loop's history
    observed,    \* the last verdict observed of each criterion
    recent,      \* the newest observations, the newest first
    lastOutcome, \* the newest outcome of a tool, however old
    blank,       \* the primary source is blank
    iterations,
    status,      \* LoopStatus; "presatisfied" when the loop was not entered
    spoke,       \* the summary of the finish mentions a failure
    proposed     \* history: what the agent proposed last, after the guidance

vars == <<criteria, agent, driver, earlier, known, earned, observed, recent,
          lastOutcome, blank, iterations, status, spoke, proposed>>

Verdicts == {"pass", "fail", "insufficient_evidence"}

TypeOK ==
    /\ criteria \in Specifications
    /\ agent \in Agents /\ driver \in Drivers /\ earlier \in Earlier
    /\ known \in [Known -> Verdicts] /\ earned \in [Known -> Verdicts]
    /\ observed \in [DOMAIN criteria -> Verdicts \cup {"none"}]
    /\ recent \in Seq([kind : {"outcome", "verdict", "rejected", "specification", "finished"},
                       tool : Decisions \cup {"none"},
                       result : Results \cup Verdicts])
    /\ Len(recent) <= DiagnosticWindow
    /\ lastOutcome \in [kind : {"outcome"}, tool : Tools \cup {"none"}, result : Results]
    /\ blank \in BOOLEAN /\ spoke \in BOOLEAN
    /\ iterations \in 0..MaxIterations
    /\ status \in {"running", "presatisfied", "completed", "failed", "stopped", "max_iterations"}
    /\ proposed \in Decisions \cup {"none"}

-----------------------------------------------------------------------------
(***************************************************************************)
(* The goal, its gap and the recommendation.                               *)
(***************************************************************************)
VerdictIn(view, kind) == IF kind = "unknown" THEN "insufficient_evidence" ELSE view[kind]

\* Nothing is satisfied without criteria.
SatisfiedBy(view) ==
    /\ criteria # <<>>
    /\ \A i \in DOMAIN criteria : VerdictIn(view, criteria[i].kind) = "pass"

KindsAsked == {criteria[i].kind : i \in DOMAIN criteria}

Gaps == {kind \in KindsAsked : VerdictIn(known, kind) # "pass"}

\* Mutant: the tests come before the build.
PriorityTestsFirst ==
    [compile |-> 2, validate |-> 1, run_tests |-> 0, clippy |-> 3, check_format |-> 4,
     unknown |-> 254]

\* criterion_kind_priority: the smaller, the more urgent.
Priority ==
    [compile |-> 0, validate |-> 1, run_tests |-> 2, clippy |-> 3, check_format |-> 4,
     unknown |-> 254]

PrimaryGap == CHOOSE kind \in Gaps : \A other \in Gaps : Priority[kind] <= Priority[other]

BuildFails == "compile" \in KindsAsked /\ known["compile"] = "fail"

Just(tool) == lastOutcome = Outcome(tool, "ok")

\* recommend_for_criterion_gap: only a failed build is diagnosed, any other
\* criterion has its tool run (again).
RecommendedFor(kind) ==
    IF kind = "unknown" THEN "no_action"
    ELSE IF kind = "compile" /\ known[kind] = "fail" THEN "repair_diagnostic"
    ELSE ToolOf[kind]

\* select_primary_recommendation_with_context: a diagnosis calls for the
\* correction, a correction for the build.
Recommended ==
    IF SatisfiedBy(known) THEN "finish_allowed"
    ELSE IF Gaps = {} THEN "no_action"
    ELSE IF PrimaryGap = "compile" /\ known["compile"] = "fail" /\ Just("repair_diagnostic")
    THEN "apply_correction"
    ELSE IF PrimaryGap = "compile" /\ Just("apply_correction") THEN "compile"
    ELSE RecommendedFor(PrimaryGap)

-----------------------------------------------------------------------------
(***************************************************************************)
(* The request to the model: the newest observations and what they say.    *)
(***************************************************************************)
Newest(n) == 1..(IF Len(recent) < n THEN Len(recent) ELSE n)

LastIs(kind, tool, result) ==
    recent # <<>> /\ recent[1] = Observation(kind, tool, result)

\* What an observation says of the last build, if anything.
BuildStatus(observation) ==
    IF observation.tool # "compile" \/ observation.kind = "rejected" THEN "none"
    ELSE CASE observation.result \in {"ok", "pass"} -> "ok"
           [] observation.result \in {"error", "fail"} -> "error"
           [] OTHER -> "none"

\* collect_diagnostic_context: the newest of its window that says something.
DiagnosedStatus ==
    LET speaking == {i \in Newest(DiagnosticWindow) : BuildStatus(recent[i]) # "none"}
    IN IF speaking = {} THEN "none"
       ELSE BuildStatus(recent[CHOOSE i \in speaking : \A j \in speaking : i <= j])

\* apply_correction_pending_recompile: refusals and the
\* outcomes of other tools do not lift the obligation to build.
PendingRecompile ==
    /\ BuildFails \/ DiagnosedStatus = "error"
    /\ \E i \in Newest(RecentWindow) :
          /\ recent[i] = Outcome("apply_correction", "ok")
          /\ \A j \in 1..(i - 1) :
                ~(/\ recent[j].kind = "outcome"
                  /\ recent[j].tool \in {"compile", "validate", "repair_diagnostic"})

\* compile_tool_ran_in_request.
BuiltRecently ==
    \/ DiagnosedStatus # "none"
    \/ \E i \in Newest(RecentWindow) : recent[i].kind = "outcome" /\ recent[i].tool = "compile"

BuildIsMissing == Gaps # {} /\ PrimaryGap = "compile"

\* repair_diagnostic_decision: with nothing to diagnose the build is run first.
\* Whether the observations quote an error is up to the tools.
DiagnosisOrBuild ==
    IF ~BuiltRecently /\ BuildIsMissing THEN {"repair_diagnostic", "compile"}
    ELSE {"repair_diagnostic"}

HasAction == Recommended \notin {"finish_allowed", "no_action"}

\* model_decision_from_recommended_action.
Directed == IF Recommended = "repair_diagnostic" THEN DiagnosisOrBuild ELSE {Recommended}

-----------------------------------------------------------------------------
(***************************************************************************)
(* validate_model_decision_against_recommendation.                         *)
(***************************************************************************)
FailJustObserved == recent # <<>> /\ recent[1].kind = "verdict" /\ recent[1].result = "fail"

\* Mutant: any correction goes through, whatever came before it.
GuidedCorrectingFreely(decision) ==
    IF SatisfiedBy(known) \/ decision = "apply_correction" THEN {decision}
    ELSE IF PendingRecompile THEN {"compile"}
    ELSE IF decision = "repair_diagnostic" /\ FailJustObserved THEN {decision}
    ELSE IF HasAction /\ decision # Recommended THEN Directed
    ELSE {decision}

\* Without a deterministic action every decision is kept, a finish as well.
Guided(decision) ==
    IF \/ SatisfiedBy(known)
       \/ decision = "apply_correction" /\ LastIs("outcome", "repair_diagnostic", "ok")
    THEN {decision}
    ELSE IF PendingRecompile THEN {"compile"}
    ELSE IF decision = "repair_diagnostic" /\ FailJustObserved THEN {decision}
    ELSE IF HasAction /\ decision # Recommended THEN Directed
    ELSE {decision}

-----------------------------------------------------------------------------
(***************************************************************************)
(* The deterministic agents.                                               *)
(***************************************************************************)
\* MockModelClient: its answer to the newest observation; guided like any model.
OrFinish == IF HasAction THEN Directed ELSE {"finish"}

MockDecisions ==
    IF recent = <<>>
    THEN IF HasAction THEN Directed
         ELSE IF SatisfiedBy(known) THEN {"finish"} ELSE {"validate"}
    ELSE LET newest == recent[1]
         IN CASE newest.kind = "rejected" ->
                    IF newest.result = "fail" \/ DiagnosedStatus = "error"
                    THEN DiagnosisOrBuild
                    ELSE IF HasAction THEN Directed ELSE {"compile"}
              [] newest.kind = "verdict" /\ newest.result = "fail" -> DiagnosisOrBuild
              [] newest.kind = "outcome" /\ newest.tool = "validate" ->
                    IF newest.result = "ok" THEN {"compile"} ELSE {"repair_diagnostic"}
              [] newest = Outcome("repair_diagnostic", "ok") -> {"apply_correction", "compile"}
              [] newest = Outcome("apply_correction", "ok") ->
                    IF DiagnosedStatus = "error" \/ BuildIsMissing THEN {"compile"}
                    ELSE IF \E i \in Newest(DiagnosticWindow) : BuildStatus(recent[i]) = "error"
                    THEN {"compile", "validate"}
                    ELSE {"validate"}
              [] OTHER -> OrFinish

\* GapDrivenAgent: no guidance, and no correction without a model to write it.
GapDecision ==
    IF FailJustObserved /\ recent[1].tool = "compile" THEN "repair_diagnostic"
    ELSE IF ~HasAction \/ Recommended = "apply_correction" THEN "finish"
    ELSE Recommended

\* What reaches the harness, and whether it is still the agent's own.
Proposals ==
    CASE agent = "gap"   -> {GapDecision}
      [] agent = "mock"  -> UNION {Guided(decision) : decision \in MockDecisions}
      [] agent = "model" -> UNION {Guided(decision) : decision \in Decisions}
-----------------------------------------------------------------------------
(***************************************************************************)
(* The start: evidence from before the session is in the context only.     *)
(***************************************************************************)
KindOf(tool) == CHOOSE kind \in Known : ToolOf[kind] = tool

VerdictOf(result) == IF result = "ok" THEN "pass" ELSE "fail"

Told(view, tool, result) ==
    IF tool \in Gates /\ result # "none"
    THEN [view EXCEPT ![KindOf(tool)] = VerdictOf(result)]
    ELSE view

NoVerdicts == [kind \in Known |-> "insufficient_evidence"]

\* GoalDrivenLoop evaluates what is already known, and is done if that is enough;
\* a plain loop is only reported on by AutonomousConstruction, which starts afresh.
Init ==
    /\ criteria \in Specifications
    /\ agent \in Agents /\ driver \in Drivers
    /\ earlier \in IF driver = "plain" THEN {NoRun} ELSE Earlier
    /\ known = Told(NoVerdicts, earlier.tool, earlier.result)
    /\ earned = NoVerdicts
    /\ observed = [i \in DOMAIN criteria |-> "none"]
    /\ lastOutcome = earlier
    /\ recent = (IF driver = "goal_driven"
                 THEN <<Observation("specification",
                            IF "compile" \in KindsAsked THEN "compile" ELSE "none",
                            known["compile"])>>
                 ELSE <<>>)
                \o (IF earlier = NoRun THEN <<>> ELSE <<earlier>>)
    /\ blank \in BOOLEAN
    /\ iterations = 0
    /\ status = IF driver = "goal_driven" /\ SatisfiedBy(known) THEN "presatisfied" ELSE "running"
    /\ spoke = FALSE
    /\ proposed = "none"

-----------------------------------------------------------------------------
(***************************************************************************)
(* An iteration.                                                           *)
(***************************************************************************)
Iterate(decision) ==
    /\ status = "running"
    /\ iterations < MaxIterations
    /\ iterations' = iterations + 1
    /\ proposed' = decision
    /\ UNCHANGED <<criteria, agent, driver, earlier>>

See(observations) ==
    LET all == observations \o recent
    IN recent' = SubSeq(all, 1, IF Len(all) < DiagnosticWindow THEN Len(all) ELSE DiagnosticWindow)

\* A goal-driven loop may call a stall (AgentLoop), never of a satisfied goal.
Continue ==
    /\ \/ status' = "running"
       \/ driver = "goal_driven" /\ ~SatisfiedBy(known)' /\ status' = "stopped"
    /\ UNCHANGED spoke

FinishAllowed == criteria # <<>> /\ \A i \in DOMAIN criteria : observed[i] = "pass"

\* FinishConstraint names the first criterion that is in the way.
FinishBlockedByFail ==
    \E i \in DOMAIN criteria :
        /\ observed[i] = "fail"
        /\ \A j \in 1..(i - 1) : observed[j] = "pass"

NeedsSource == {"compile", "validate"} \cup Mutations

\* The artifact, the diagnosis or the edits may be refused for what they hold.
Refusable(decision) ==
    \/ decision \in NeedsSource /\ blank
    \/ decision \in Mutations
    \/ decision = "repair_diagnostic" /\ agent = "model"
    \/ decision = "finish" /\ ~FinishAllowed

Refuse(decision) ==
    /\ Refusable(decision)
    /\ Iterate(decision)
    /\ See(<<Observation("rejected", decision,
              IF decision = "finish" /\ FinishBlockedByFail THEN "fail" ELSE "none")>>)
    /\ UNCHANGED <<known, earned, observed, lastOutcome, blank>>
    /\ Continue

\* Only the model brings a text of its own, unless its build was forced on it.
BringsSource(tool) ==
    \/ tool \in Mutations
    \/ /\ tool \in {"compile", "validate"} /\ agent = "model"
       /\ SatisfiedBy(known) \/ ~PendingRecompile

ResultsOf(tool) == IF tool \in Gates \ {"compile"} THEN Results ELSE {"ok", "error"}

RunTool(tool, result) ==
    LET judged == Evaluated(criteria, tool)
        verdict == IF result = "none" THEN "insufficient_evidence" ELSE VerdictOf(result)
    IN /\ tool \in NeedsSource => ~blank
       /\ Iterate(tool)
       /\ known' = Told(known, tool, result)
       /\ earned' = Told(earned, tool, result)
       /\ observed' = [i \in DOMAIN criteria |-> IF i \in judged THEN verdict ELSE observed[i]]
       /\ See((IF judged = {} THEN <<>> ELSE <<Observation("verdict", tool, verdict)>>)
              \o <<Outcome(tool, result)>>)
       /\ lastOutcome' = Outcome(tool, result)
       /\ IF BringsSource(tool) /\ (tool \in Mutations => result = "ok")
          THEN blank' \in BOOLEAN ELSE UNCHANGED blank
       /\ Continue

Run == \E tool \in Proposals \ {"finish"} : \E result \in ResultsOf(tool) : RunTool(tool, result)

Refused == \E decision \in Proposals : Refuse(decision)

\* A summary that speaks of failure ends a failed session, whatever was evaluated.
Finish ==
    /\ "finish" \in Proposals
    /\ FinishAllowed
    /\ Iterate("finish")
    /\ spoke' \in BOOLEAN
    /\ status' = IF spoke' THEN "failed" ELSE "completed"
    /\ UNCHANGED <<known, earned, observed, recent, lastOutcome, blank>>

\* The model has no usable answer, or a correction it inferred is not well formed;
\* the loop tries again or gives up, and what the harness makes of the finish with
\* an error is only seen.
ProposalFails ==
    /\ agent = "model" \/ (agent = "mock" /\ "apply_correction" \in Proposals)
    /\ Iterate("finish")
    /\ See(<<Observation(IF FinishAllowed THEN "finished" ELSE "rejected", "finish",
              IF ~FinishAllowed /\ FinishBlockedByFail THEN "fail" ELSE "none")>>)
    /\ status' \in {"running", "stopped"}
    /\ UNCHANGED <<known, earned, observed, lastOutcome, blank, spoke>>

IterationsExhausted ==
    /\ status = "running"
    /\ iterations = MaxIterations
    /\ status' = "max_iterations"
    /\ UNCHANGED <<criteria, agent, driver, earlier, known, earned, observed, recent,
                   lastOutcome, blank, iterations, spoke, proposed>>

Returned == status # "running" /\ UNCHANGED vars

Next == Run \/ Refused \/ Finish \/ ProposalFails \/ IterationsExhausted \/ Returned

Spec == Init /\ [][Next]_vars

-----------------------------------------------------------------------------
(***************************************************************************)
(* The report.  The evaluation at the end reads the history of the loop,   *)
(* which does not hold what was known before.                              *)
(***************************************************************************)
\* check_escalation: no gap left that a tool could close.
NoHypothesis ==
    \A i \in DOMAIN criteria :
        VerdictIn(earned, criteria[i].kind) # "pass" => criteria[i].kind = "unknown"

\* Mutant: an exhausted session is not escalated.
GoalDrivenStatusUnescalated ==
    IF status = "presatisfied" THEN "goal_satisfied"
    ELSE IF status = "stopped" THEN "stopped"
    ELSE IF ~SatisfiedBy(earned) /\ NoHypothesis THEN "escalated"
    ELSE IF SatisfiedBy(earned) /\ status = "completed" THEN "goal_satisfied"
    ELSE IF status = "max_iterations" THEN "max_iterations"
    ELSE "failed"

\* Mutant: a met goal is a success, finished or not.
GoalDrivenStatusUnfinished ==
    IF status = "presatisfied" THEN "goal_satisfied"
    ELSE IF status = "stopped" THEN "stopped"
    ELSE IF SatisfiedBy(earned) THEN "goal_satisfied"
    ELSE IF status = "max_iterations" \/ NoHypothesis THEN "escalated"
    ELSE "failed"

\* resolve_goal_status, for a stale limit above one.
GoalDrivenStatus ==
    IF status = "presatisfied" THEN "goal_satisfied"
    ELSE IF status = "stopped" THEN "stopped"
    ELSE IF ~SatisfiedBy(earned) /\ (status = "max_iterations" \/ NoHypothesis)
    THEN "escalated"
    ELSE IF SatisfiedBy(earned) /\ status = "completed" THEN "goal_satisfied"
    ELSE IF status = "max_iterations" THEN "max_iterations"
    ELSE "failed"

\* AutonomousConstruction::resolve_status, after a plain loop.
ConstructionStatus ==
    CASE status = "max_iterations" -> "max_iterations"
      [] status = "completed" /\ SatisfiedBy(earned) -> "completed"
      [] OTHER -> "failed"

Report ==
    IF status = "running" THEN "none"
    ELSE IF driver = "goal_driven" THEN GoalDrivenStatus
    ELSE ConstructionStatus

-----------------------------------------------------------------------------
(***************************************************************************)
(* Properties.                                                             *)
(***************************************************************************)
Guidance == agent \in GuidedAgents

\* However the model answers, the guidance leads a failing build through
\* diagnosis, correction and build, in this order.
Phase ==
    IF ~Guidance \/ "compile" \notin KindsAsked THEN "none"
    ELSE IF known["compile"] = "pass" THEN "passed"
    ELSE IF known["compile"] = "insufficient_evidence" THEN "unverified"
    ELSE IF Just("repair_diagnostic") THEN "diagnosed"
    ELSE IF Just("apply_correction") THEN "corrected"
    ELSE "failed"

Cycle == INSTANCE RepairCycle WITH phase <- Phase

FollowsRepairCycle == Cycle!Spec

Pipeline == <<"compile", "validate", "run_tests", "clippy", "check_format">>

\* Under guidance the tool of a criterion runs only when every criterion that
\* comes before it in the pipeline has passed, by all that is known.
PipelineInOrder ==
    [][ iterations' # iterations /\ Guidance /\ lastOutcome' # lastOutcome =>
          \A i, j \in DOMAIN Pipeline :
              /\ j < i
              /\ lastOutcome'.tool = ToolOf[Pipeline[i]]
              /\ Pipeline[j] \in KindsAsked
              => known[Pipeline[j]] = "pass" ]_vars

\* A goal-driven session that is reported as failed or as out of iterations had met its
\* goal: an unmet one is escalated instead, the loop does not end by itself when the goal
\* is met, and a failure is only what the summary of its finish spoke of.
UnhappyEndsHadMetTheGoal ==
    driver = "goal_driven" /\ Report \in {"failed", "max_iterations"} =>
        /\ SatisfiedBy(earned)
        /\ Report = "failed" => spoke

\* The policy that lets a session finish and the evaluation of its evidence agree,
\* though the one reads the context and the other the history of the loop: a
\* success is reported exactly when a finish went through that did not speak of
\* failure, or there was nothing left to do.
FinishIsBelieved ==
    Report \in {"goal_satisfied", "completed"} <=> status \in {"completed", "presatisfied"}
=============================================================================
