-------------------------- MODULE MCGuidedSession --------------------------
(***************************************************************************)
(* A small instance of GuidedSession: specifications with one criterion,   *)
(* several, two of a kind and an unknown one.                              *)
(***************************************************************************)
EXTENDS GuidedSession

Criterion(id, kind) == [id |-> id, kind |-> kind]

MCSpecifications ==
    {<<Criterion("builds", "compile")>>,
     <<Criterion("tested", "run_tests"), Criterion("builds", "compile")>>,
     <<Criterion("builds", "compile"), Criterion("builds_again", "compile")>>,
     <<Criterion("pretty", "unknown"), Criterion("valid", "validate"),
       Criterion("builds", "compile")>>}

MCEarlier == {NoRun, Outcome("compile", "ok"), Outcome("compile", "error")}
=============================================================================
