-------------------------- MODULE MCHarnessSession --------------------------
(***************************************************************************)
(* A small instance of HarnessSession: three paths, one text with and      *)
(* without a newline at its end, an edit that removes everything, and      *)
(* batches that succeed, fail half way or step on each other; and drafts   *)
(* of every kind of plan, five of which are not valid.                     *)
(***************************************************************************)
EXTENDS AutonomousConstruction

Criterion(id, kind) == [id |-> id, kind |-> kind]

MCSpecifications ==
    {<<>>,
     <<Criterion("builds", "compile")>>,
     <<Criterion("valid", "validate"), Criterion("tested", "run_tests")>>,
     <<Criterion("tested", "run_tests"), Criterion("linted", "clippy")>>,
     <<Criterion("tested", "run_tests"), Criterion("tested_again", "run_tests")>>,
     <<Criterion("formatted", "check_format"), Criterion("pretty", "unknown")>>}

Main(source) == [files |-> [p \in {"main"} |-> source], primary |-> "main"]

MCDefinitions ==
    [kind \in PlanKinds |->
        IF kind = "authentication"
        THEN [files |-> [p \in {"main", "lib"} |-> IF p = "main" THEN "code_nl" ELSE "code"],
              primary |-> "main"]
        ELSE Main("code_nl")]

MCOverrides == {""}

MCInitialContents == {MCDefinitions[kind] : kind \in PlanKinds} \cup {Main("")}

MCTrimEnd == [s \in Sources |-> IF s = "code_nl" THEN "code" ELSE s]

Always(source) == [s \in Sources |-> source]

MCEffect ==
    [trim  |-> [s \in Sources |-> IF s = "code_nl" THEN "code" ELSE Failed],
     end   |-> [s \in Sources |-> IF s = "code" THEN "code_nl" ELSE Failed],
     clear |-> Always(""),
     nil   |-> [s \in Sources |-> s]]

MCCorrectionBatches ==
    {<<>>,
     <<Correction(PrimaryPath, "trim")>>,
     <<Correction(PrimaryPath, "trim"), Correction(PrimaryPath, "trim")>>,
     <<Correction(PrimaryPath, "trim"), Correction(PrimaryPath, "end")>>,
     <<Correction("lib", "end")>>,
     <<Correction(PrimaryPath, "clear")>>,
     <<Correction(PrimaryPath, "nil")>>}

MCFileBatches ==
    {<<>>,
     <<Create("lib", "code_nl")>>,
     <<Create("lib", "")>>,
     <<Rename("main", "lib")>>,
     <<Rename("main", "bin"), Create("main", "code")>>,
     <<Create("bin", "code"), Rename("main", "bin")>>,
     <<Rename("main", "bin"), Delete("bin")>>,
     <<Delete("lib"), Rename("main", "lib")>>,
     <<Rename("lib", "lib")>>,
     <<Delete("lib"), Create("lib", "code_nl")>>}

Wanted(words) == <<Requirement("r", words)>>

\* The criteria of a specification, each for the one requirement.
Acceptance(list) ==
    [i \in DOMAIN list |-> AcceptanceCriterion(list[i].id, {"other"}, list[i].kind, {"r"})]

MCDrafts ==
    {Draft("s", {"other"}, Wanted({"authentication"}), Acceptance(c)) : c \in MCSpecifications}
        \cup {Draft("s", {"other"}, Wanted({"authentication", word}), Acceptance(<<c>>)) :
                word \in {"api", "calculator"}, c \in {Criterion("builds", "compile")}}
        \cup {Draft("s", {"other"}, Wanted({"other"}), Acceptance(c)) : c \in MCSpecifications}
        \cup {Draft("", {"other"}, <<>>, <<>>),
              Draft("s", {}, <<>>, <<>>),
              Draft("s", {"other"}, Wanted({"api"}) \o Wanted({"other"}), <<>>),
              Draft("s", {"other"}, Wanted({}), <<>>),
              Draft("s", {"other"}, <<>>, Acceptance(<<Criterion("builds", "compile")>>))}
=============================================================================
