----------------------------- MODULE Evaluation -----------------------------
(***************************************************************************)
(* EvaluationEngine (src/src/harness/evaluation_engine.rs): what a         *)
(* sequence of evidence says of a criterion.                               *)
(*                                                                         *)
(* Evidence is a sequence of labelled items.  Only the items a verdict     *)
(* reads are kept: "tool", which opens the evidence of a run, and the      *)
(* status labels; an exit code is "ok" when it is 0.                       *)
(***************************************************************************)
EXTENDS Integers, Sequences

Item(label, detail) == [label |-> label, detail |-> detail]

\* criterion_kind_for_tool, read from the kind.  "unknown" has no tool.
ToolOf == [compile |-> "compile", validate |-> "validate", run_tests |-> "run_tests",
           clippy |-> "run_clippy", check_format |-> "check_format"]

Kinds == DOMAIN ToolOf \cup {"unknown"}

\* The tools whose runs are evaluated.
Gates == {ToolOf[kind] : kind \in DOMAIN ToolOf}

StatusLabel ==
    [tool \in Gates |-> CASE tool = "compile" -> "compile_status"
                          [] tool = "validate" -> "validate_status"
                          [] OTHER -> "exit_status"]

Present(tool, evidence) == \E i \in DOMAIN evidence : evidence[i] = Item("tool", tool)

\* The run item i belongs to: the last tool named before it is this one.
BelongsTo(tool, evidence, i) ==
    \E j \in 1..i :
        /\ evidence[j] = Item("tool", tool)
        /\ \A k \in (j + 1)..i : evidence[k].label # "tool"

\* Mutant: exit statuses are not told apart by their tool.
StatusesUnscoped(tool, evidence) ==
    {i \in DOMAIN evidence : evidence[i].label = StatusLabel[tool]}

\* The items that state the outcome of a run of the tool.  The exit status is a
\* label several tools share, so it is only read inside a run of this one.
Statuses(tool, evidence) ==
    {i \in DOMAIN evidence :
        /\ evidence[i].label = StatusLabel[tool]
        /\ StatusLabel[tool] = "exit_status" => BelongsTo(tool, evidence, i)}

\* Mutant: the first status wins.
IsDecisiveFirst(i, statuses) == i \in statuses /\ \A j \in statuses : i <= j

\* The last status wins: earlier failed attempts stay in the history.
IsDecisive(i, statuses) == i \in statuses /\ \A j \in statuses : j <= i

Verdict(kind, evidence) ==
    IF kind = "unknown" THEN "insufficient_evidence"
    ELSE LET tool == ToolOf[kind]
             statuses == Statuses(tool, evidence)
         IN IF ~Present(tool, evidence) \/ statuses = {} THEN "insufficient_evidence"
            ELSE IF \E i \in statuses : IsDecisive(i, statuses) /\ evidence[i].detail = "ok"
            THEN "pass" ELSE "fail"

\* The evidence an evaluation quotes, and the context therefore sees twice.  What
\* SelectSeq selects, as a function of the items read so far.
Quoted(kind, evidence) ==
    LET quoted[i \in 0..Len(evidence)] ==
            IF i = 0 THEN <<>>
            ELSE IF evidence[i].label \in {"tool", StatusLabel[ToolOf[kind]]}
            THEN Append(quoted[i - 1], evidence[i])
            ELSE quoted[i - 1]
    IN quoted[Len(evidence)]

-----------------------------------------------------------------------------
(***************************************************************************)
(* A specification is a sequence of criteria [id, kind].                   *)
(***************************************************************************)
\* Without criteria nothing can be satisfied.
SpecificationVerdict(criteria, evidence) ==
    LET verdicts == {Verdict(criteria[i].kind, evidence) : i \in DOMAIN criteria}
    IN IF "fail" \in verdicts THEN "fail"
       ELSE IF verdicts = {"pass"} THEN "pass"
       ELSE "insufficient_evidence"

\* The criteria a run of the tool is evaluated for: the first of its kind.
Evaluated(criteria, tool) ==
    {i \in DOMAIN criteria :
        /\ criteria[i].kind # "unknown"
        /\ ToolOf[criteria[i].kind] = tool
        /\ \A j \in 1..(i - 1) : criteria[j].kind # criteria[i].kind}
=============================================================================
