-------------------------- MODULE MCProbeExecutor --------------------------
(***************************************************************************)
(* A small instance of ProbeExecutor: a direct unit and the bundle by      *)
(* themselves, and a suite with both prerequisites and two actions.        *)
(***************************************************************************)
EXTENDS ProbeExecutor

MCSuite ==
    <<"transport_prompt_only", "json_object_strict", "action_compile", "action_finish",
      "repair_bundle">>
=============================================================================
