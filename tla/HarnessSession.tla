--------------------------- MODULE HarnessSession ---------------------------
(***************************************************************************)
(* A session of the harness: Harness::execute_step                         *)
(* (src/src/harness/runtime.rs) under the session's action policy          *)
(* (action_policy.rs), and what AgentLoop::run does with the outcome       *)
(* (agent_loop.rs): the evaluation of the evidence and the end of the      *)
(* session.                                                                *)
(*                                                                         *)
(* One step is one iteration: whatever the agent proposes is refused by    *)
(* the policy or executed.  The compiler, cargo and the validator answer   *)
(* as they like.  The failures of the model and the recovery from them     *)
(* are in AgentLoop; here such an iteration goes on or stops the session.  *)
(***************************************************************************)
EXTENDS WorkingArtifact, Evaluation

CONSTANTS
    Specifications,    \* sequences of criteria [id, kind]
    InitialContents,
    CorrectionBatches, \* batches the agent may propose
    FileBatches,
    AllowedTools,      \* the list of ToolPermissionConstraint
    Registered,        \* the tools the harness was built with
    DetectsStall,      \* whether the loop has a stale limit
    MaxIterations

Mutations == {"apply_correction", "apply_file_operations"}

Tools == Gates \cup Mutations \cup {"repair_diagnostic"}

CriteriaOf(criteria) == {criteria[i].id : i \in DOMAIN criteria}

ASSUME SessionAssumption ==
    /\ InitialContents \subseteq Contents
    /\ "" \in Blank
    /\ CorrectionBatches \subseteq Seq(Corrections)
    /\ FileBatches \subseteq Seq(FileOperations)
    /\ AllowedTools \subseteq Tools
    /\ Registered \subseteq Tools
    /\ DetectsStall \in BOOLEAN
    /\ MaxIterations \in Nat \ {0}
    /\ \A criteria \in Specifications :
          /\ criteria \in Seq([id : CriteriaOf(criteria), kind : Kinds])
          /\ \A i, j \in DOMAIN criteria : criteria[i].id = criteria[j].id => i = j

VARIABLES
    criteria,   \* the specification of the session
    artifact,   \* working_artifact
    evidence,   \* LoopHistory::evidence
    context,    \* the evidence in the observations of the context
    observed,   \* the last verdict observed of each criterion
    status,
    iterations,
    applied     \* the batch of the last iteration, if it got to its tool

vars == <<criteria, artifact, evidence, context, observed, status, iterations,
          applied>>

Verdicts == {"pass", "fail", "insufficient_evidence"}

Batch(tool, operations, failed) ==
    [tool |-> tool, operations |-> operations, failed |-> failed]

NoBatch == Batch("none", <<>>, FALSE)

TypeOK ==
    /\ criteria \in Specifications
    /\ Content(artifact) \in Contents
    /\ artifact.revision \in 0..MaxIterations
    /\ \A trail \in {evidence, context} : \A i \in DOMAIN trail :
          trail[i] \in [label : {"tool"} \cup {StatusLabel[tool] : tool \in Gates},
                        detail : Tools \cup {"ok", "error"}]
    /\ observed \in [CriteriaOf(criteria) -> Verdicts \cup {"none"}]
    /\ status \in {"running", "completed", "failed", "stopped", "max_iterations"}
    /\ iterations \in 0..MaxIterations
    /\ applied.tool \in Mutations \cup {"none"} /\ applied.failed \in BOOLEAN

Init ==
    /\ criteria \in Specifications
    /\ \E content \in InitialContents :
          artifact = [files |-> content.files, primary |-> content.primary, revision |-> 0]
    /\ evidence = <<>>
    /\ context = <<>>
    /\ observed = [id \in CriteriaOf(criteria) |-> "none"]
    /\ status = "running"
    /\ iterations = 0
    /\ applied = NoBatch

-----------------------------------------------------------------------------
(***************************************************************************)
(* The action policy.                                                      *)
(***************************************************************************)
\* ToolPermissionConstraint.
Allowed(tool) == tool \in AllowedTools

\* Mutant: any artifact will do.
HasSourceAny == artifact.primary \in DOMAIN artifact.files

\* ArtifactStateConstraint.
HasSource == PrimarySource(artifact) \notin Blank

\* ApplyCorrectionConstraint: every correction is tried on the artifact as it
\* is, not on what the corrections before it would make of it.
CorrectionsAllowed(corrections) ==
    /\ corrections # <<>>
    /\ \A i \in DOMAIN corrections :
          /\ corrections[i].edit \notin Degenerate
          /\ ApplyCorrection(Content(artifact), corrections[i]) # Failed

\* Mutant: every operation is tried on the artifact as it is.
OperationsAllowedApart(operations) ==
    /\ operations # <<>>
    /\ \A i \in DOMAIN operations :
          ApplyFileOperation(Content(artifact), operations[i]) # Failed

\* ApplyFileOperationsConstraint: the whole batch is tried.
OperationsAllowed(operations) ==
    PreviewFileOperations(Content(artifact), operations) # Failed

\* FinishConstraint.
FinishAllowed ==
    /\ criteria # <<>>
    /\ \A i \in DOMAIN criteria : observed[criteria[i].id] = "pass"

-----------------------------------------------------------------------------
(***************************************************************************)
(* An iteration and its end.                                               *)
(***************************************************************************)
Iterate(batch) ==
    /\ status = "running"
    /\ iterations < MaxIterations
    /\ iterations' = iterations + 1
    /\ applied' = batch
    /\ UNCHANGED criteria

\* The loop goes on, or calls a stall; never while the context says "pass".
Continue ==
    \/ status' = "running"
    \/ /\ DetectsStall
       /\ SpecificationVerdict(criteria, context') # "pass"
       /\ status' = "stopped"

\* Nothing but an observation that no verdict reads.
LeaveNoEvidence == UNCHANGED <<artifact, evidence, context, observed>>

Refuse ==
    /\ Iterate(NoBatch)
    /\ LeaveNoEvidence
    /\ Continue

\* What a run of a tool leaves: "none" when it broke off before an outcome.
Results(tool) ==
    IF tool = "compile" THEN {"ok", "error"}
    ELSE IF tool \in Gates THEN {"ok", "error", "none"}
    ELSE {"none"}

RunEvidence(tool, result) ==
    IF result = "none" THEN <<Item("tool", tool)>>
    ELSE <<Item("tool", tool), Item(StatusLabel[tool], result)>>

\* Mutant: runs that failed leave no trace in the history.
HistoryOfSuccess(run) == IF run[Len(run)].detail = "error" THEN evidence ELSE evidence \o run

HistoryWith(run) == evidence \o run

\* The run of a registered tool and the evaluation of its evidence alone.
Dispatch(tool, result) ==
    LET run == RunEvidence(tool, result)
        judged == Evaluated(criteria, tool)
    IN /\ tool \in Registered
       /\ evidence' = HistoryWith(run)
       /\ context' = IF judged = {} THEN context \o run
                     ELSE context \o run \o
                          Quoted(CHOOSE kind \in Kinds \ {"unknown"} : ToolOf[kind] = tool, run)
       /\ observed' = [id \in CriteriaOf(criteria) |->
                          IF \E i \in judged : criteria[i].id = id
                          THEN LET i == CHOOSE i \in judged : criteria[i].id = id
                               IN Verdict(criteria[i].kind, run)
                          ELSE observed[id]]
       /\ Continue

\* A tool the harness was not built with is a failure of the system.
UnknownTool(tool) ==
    /\ tool \notin Registered
    /\ evidence' = Append(evidence, Item("tool", tool))
    /\ status' = "stopped"
    /\ UNCHANGED <<context, observed>>

Run(tool) ==
    \/ \E result \in Results(tool) : Dispatch(tool, result)
    \/ UnknownTool(tool)

-----------------------------------------------------------------------------
(***************************************************************************)
(* The actions of the agent.                                               *)
(***************************************************************************)
\* The code becomes the source of the primary before it is compiled.
Compile ==
    IF Allowed("compile") /\ HasSource
    THEN /\ Iterate(NoBatch)
         /\ \E code \in Sources :
               artifact' = IF code = "" THEN artifact ELSE ReplaceSource(artifact, code)
         /\ Run("compile")
    ELSE Refuse

\* A snapshot of the code, when there is one, becomes the source, even an empty
\* one, and even when the plan kind then turns out to be unknown.
Validate ==
    IF Allowed("validate") /\ HasSource
    THEN /\ Iterate(NoBatch)
         /\ \/ UNCHANGED artifact
            \/ \E snapshot \in Sources : artifact' = ReplaceSource(artifact, snapshot)
         /\ Run("validate")
    ELSE Refuse

\* Tests, clippy and format take the artifact as it is, blank or not.
RunCargo ==
    \E tool \in {"run_tests", "run_clippy", "check_format"} :
        IF Allowed(tool)
        THEN /\ Iterate(NoBatch)
             /\ UNCHANGED artifact
             /\ Run(tool)
        ELSE Refuse

\* Refused also when it quotes no error.
RepairDiagnostic ==
    \/ /\ Allowed("repair_diagnostic")
       /\ Iterate(NoBatch)
       /\ UNCHANGED artifact
       /\ Run("repair_diagnostic")
    \/ Refuse

\* commit_mutation_tool: the preview is committed when the tool reports a change.
Mutate(tool, operations, preview) ==
    /\ Iterate(Batch(tool, operations, preview = Failed))
    /\ artifact' = IF tool \notin Registered \/ preview = Failed THEN artifact
                   ELSE CommitPreview(artifact, preview)
    /\ Run(tool)

ApplyCorrections ==
    \E corrections \in CorrectionBatches :
        IF Allowed("apply_correction") /\ HasSource /\ CorrectionsAllowed(corrections)
        THEN Mutate("apply_correction", corrections,
                    PreviewCorrections(Content(artifact), corrections))
        ELSE Refuse

ApplyFileOperations ==
    \E operations \in FileBatches :
        IF Allowed("apply_file_operations") /\ HasSource /\ OperationsAllowed(operations)
        THEN Mutate("apply_file_operations", operations,
                    FileOperationsTool(Content(artifact), operations))
        ELSE Refuse

\* By name, a tool skips the checks and the effects of its typed action: the
\* preview of a mutation is not committed.
InvokeTool ==
    \/ \E tool \in AllowedTools :
          /\ Iterate(NoBatch)
          /\ UNCHANGED artifact
          /\ Run(tool)
    \/ Refuse

NoOp ==
    /\ Iterate(NoBatch)
    /\ LeaveNoEvidence
    /\ Continue

\* A summary that speaks of failure ends a failed session.
Finish ==
    \/ /\ FinishAllowed
       /\ Iterate(NoBatch)
       /\ status' \in {"completed", "failed"}
       /\ LeaveNoEvidence
    \/ ~FinishAllowed /\ Refuse

\* The agent has no answer from its model and finishes with an error, permitted
\* or not; the loop recovers or gives up without an evaluation.
ProposalFails ==
    /\ Iterate(NoBatch)
    /\ status' \in {"running", "stopped"}
    /\ LeaveNoEvidence

IterationsExhausted ==
    /\ status = "running"
    /\ iterations = MaxIterations
    /\ status' = "max_iterations"
    /\ UNCHANGED <<criteria, iterations, applied>>
    /\ LeaveNoEvidence

Returned == status # "running" /\ UNCHANGED vars

Next ==
    \/ Compile \/ Validate \/ RunCargo \/ RepairDiagnostic
    \/ ApplyCorrections \/ ApplyFileOperations \/ InvokeTool
    \/ NoOp \/ Finish \/ ProposalFails
    \/ IterationsExhausted \/ Returned

Spec == Init /\ [][Next]_vars

-----------------------------------------------------------------------------
(***************************************************************************)
(* Properties.                                                             *)
(***************************************************************************)

\* Whatever the agent proposes, the artifact changes in whole numbered versions
\* that either edit sources or rearrange files around an untouched primary.
Versions == INSTANCE VersionedArtifact
                WITH content <- Content(artifact), revision <- artifact.revision

ImplementsVersions == Versions!Spec

\* What the policy lets through only fails in the tool when it is a batch of
\* corrections that get in each other's way, or one that ends with a blank file.
PolicyForesees ==
    applied.failed =>
        LET operations == applied.operations
        IN \/ applied.tool = "apply_correction" /\ Len(operations) > 1
           \/ /\ applied.tool = "apply_file_operations"
              /\ \E path \in Paths, source \in Blank :
                    operations[Len(operations)] = Create(path, source)

\* A session whose primary has become blank never gets a source again: every
\* action that could write one is refused for want of one.
BlankIsForever ==
    [][PrimarySource(artifact) \in Blank => Content(artifact') = Content(artifact)]_vars

\* The loop asks the evidence of the context whether the goal is satisfied, the
\* report asks the evidence of the history: they never disagree.
ViewsAgree ==
    \A i \in DOMAIN criteria :
        Verdict(criteria[i].kind, evidence) = Verdict(criteria[i].kind, context)

\* Finish looks at the last verdict of each criterion, the result of the
\* construction at the whole history: a session that was allowed to finish is
\* never reported as failed for want of a verdict.
CompletedIsPass ==
    status = "completed" => SpecificationVerdict(criteria, evidence) = "pass"

\* The run of a tool that broke off, the last of that tool in the history.
BrokeOff(tool) ==
    \E i \in DOMAIN evidence :
        /\ evidence[i] = Item("tool", tool)
        /\ \A j \in DOMAIN evidence :
              j > i => /\ evidence[j] # Item("tool", tool)
                       /\ ~(evidence[j].label = StatusLabel[tool] /\ BelongsTo(tool, evidence, j))

\* A satisfied goal that Finish nevertheless refuses has one of two causes: a
\* criterion is not the first of its kind and never evaluated on its own, or the
\* last run of its tool broke off.
OnlyKnownGaps ==
    SpecificationVerdict(criteria, evidence) = "pass" /\ ~FinishAllowed =>
        \E i \in DOMAIN criteria :
            LET tool == ToolOf[criteria[i].kind]
            IN i \notin Evaluated(criteria, tool) \/ BrokeOff(tool)
=============================================================================
