----------------------- MODULE AutonomousConstruction -----------------------
(***************************************************************************)
(* AutonomousConstructionSession::run                                      *)
(* (src/src/harness/autonomous_construction.rs): a specification is        *)
(* validated and planned, the builder's first artifact for its kind of     *)
(* plan becomes the artifact of a HarnessSession, and what the session     *)
(* ends with becomes the status of the construction.                       *)
(*                                                                         *)
(* The loop of a construction has no stale limit.  A session that does     *)
(* have one may stop where this one goes on; it need not, so that with     *)
(* DetectsStall the model has the sessions of both.                        *)
(***************************************************************************)
EXTENDS HarnessSession

CONSTANTS
    Drafts,       \* specifications as they are handed in, valid or not
    Definitions,  \* the builder's first files for every kind of plan
    Overrides,    \* sources injected in place of them (initial_source)
    MainPath      \* src/main.rs, where an injected source goes

\* A text is the set of words in it that the plan depends on, "other" when there is
\* none of them; the empty set is a blank text.
Words == {"api", "calculator", "authentication", "other"}

PlanKinds == {"api", "calculator", "authentication", "generic"}

Requirement(id, description) == [id |-> id, description |-> description]

AcceptanceCriterion(id, description, kind, satisfies) ==
    [id |-> id, description |-> description, kind |-> kind, satisfies |-> satisfies]

Draft(id, goal, requirements, acceptance) ==
    [id |-> id, goal |-> goal, requirements |-> requirements, acceptance |-> acceptance]

-----------------------------------------------------------------------------
(***************************************************************************)
(* Specification::validate and plan_specification.                         *)
(***************************************************************************)
DistinctIds(items) == \A i, j \in DOMAIN items : items[i].id = items[j].id => i = j

Described(items) == \A i \in DOMAIN items : items[i].id # "" /\ items[i].description # {}

KnownRequirements(d) == {d.requirements[i].id : i \in DOMAIN d.requirements}

\* The version of the contract is not looked at, and no criteria are enough.
IsValid(d) ==
    /\ d.id # "" /\ d.goal # {}
    /\ DistinctIds(d.requirements) /\ Described(d.requirements)
    /\ DistinctIds(d.acceptance) /\ Described(d.acceptance)
    /\ \A i \in DOMAIN d.acceptance : d.acceptance[i].satisfies \subseteq KnownRequirements(d)

\* What the session evaluates.
CriteriaIn(d) ==
    [i \in DOMAIN d.acceptance |-> [id |-> d.acceptance[i].id, kind |-> d.acceptance[i].kind]]

\* combined_planning_text: the goal and the requirements, not the criteria.
PlanningText(d) ==
    d.goal \cup UNION {d.requirements[i].description : i \in DOMAIN d.requirements}

\* classify_plan_kind: the first kind that is named.
PlanKind(text) ==
    CASE "api" \in text -> "api"
      [] "api" \notin text /\ "calculator" \in text -> "calculator"
      [] text \cap {"api", "calculator"} = {} /\ "authentication" \in text -> "authentication"
      [] OTHER -> "generic"

SingleFile(source) == [files |-> [path \in {MainPath} |-> source], primary |-> MainPath]

\* initial_artifact_from_plan, or the injected source alone.
FirstContents(d) ==
    {Definitions[PlanKind(PlanningText(d))]} \cup {SingleFile(source) : source \in Overrides}

ASSUME ConstructionAssumption ==
    /\ Overrides \subseteq Sources /\ MainPath \in Paths
    /\ Definitions \in [PlanKinds -> InitialContents]
    /\ \A source \in Overrides : SingleFile(source) \in InitialContents
    /\ <<>> \in Specifications
    /\ \A d \in Drafts :
          /\ PlanningText(d) \subseteq Words
          /\ IsValid(d) => CriteriaIn(d) \in Specifications

-----------------------------------------------------------------------------
VARIABLES
    draft,   \* the specification of the configuration
    result   \* ConstructionResult: its status and the final evaluation

constructionVars == <<vars, draft, result>>

Result(outcome, evaluation) == [status |-> outcome, evaluation |-> evaluation]

NoResult == Result("none", "none")

\* For a draft that is refused there is no session: its variables are not read.
ConstructionInit ==
    /\ draft \in Drafts
    /\ result = NoResult
    /\ Init
    /\ IF IsValid(draft)
       THEN criteria = CriteriaIn(draft) /\ Content(artifact) \in FirstContents(draft)
       ELSE criteria = <<>> /\ Content(artifact) = Definitions["generic"]

\* plan_specification validates once more, and finds nothing.
RejectSpecification ==
    /\ ~IsValid(draft)
    /\ result = NoResult
    /\ result' = Result("invalid_specification", "none")
    /\ UNCHANGED <<vars, draft>>

RunSession ==
    /\ IsValid(draft)
    /\ result = NoResult
    /\ Next
    /\ UNCHANGED <<draft, result>>

\* resolve_status.
ResolvedStatus(evaluation) ==
    CASE status = "max_iterations" -> "max_iterations"
      [] status = "completed" /\ evaluation = "pass" -> "completed"
      [] status = "completed" /\ evaluation # "pass" -> "failed"
      [] status \in {"failed", "stopped"} -> "failed"

\* The evaluation is that of the whole history.
Conclude ==
    /\ IsValid(draft)
    /\ result = NoResult
    /\ status # "running"
    /\ LET evaluation == SpecificationVerdict(criteria, evidence)
       IN result' = Result(ResolvedStatus(evaluation), evaluation)
    /\ UNCHANGED <<vars, draft>>

Concluded == result # NoResult /\ UNCHANGED constructionVars

ConstructionNext == RejectSpecification \/ RunSession \/ Conclude \/ Concluded

ConstructionSpec == ConstructionInit /\ [][ConstructionNext]_constructionVars

-----------------------------------------------------------------------------
\* Finish looks at the last verdict of each criterion, the result of the construction
\* at the whole history: what the agent was allowed to finish is never reported as
\* failed for want of a verdict, nothing else is reported as completed, and a draft is
\* refused before anything has run.
ReportedAsItEnded ==
    result # NoResult =>
        /\ result.status = "completed" <=> status = "completed"
        /\ result.status = "invalid_specification" <=> iterations = 0
=============================================================================
