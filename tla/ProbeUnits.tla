----------------------------- MODULE ProbeUnits -----------------------------
(***************************************************************************)
(* The units of the compatibility probe and what they report, shared by    *)
(* the scheduler that orders them and the executor that runs one.          *)
(***************************************************************************)

Units == {"retry_after_synthetic", "transport_prompt_only",
          "json_object_strict", "action_validate", "action_repair_diagnostic",
          "action_apply_correction", "action_apply_file_operations",
          "action_compile", "action_run_tests", "action_run_clippy",
          "action_check_format", "action_finish", "repair_bundle",
          "native_tool_calling"}

\* ProbeVerdict.
AllVerdicts == {"pass", "fail", "inconclusive", "blocked", "not_tested"}

IsExternal(u) == u \notin {"retry_after_synthetic", "native_tool_calling"}

IsPrerequisite(u) == u \in {"transport_prompt_only", "json_object_strict"}

\* The gates a unit reports; every unit but the bundle reports itself.
GatesForUnit(u) ==
    IF u = "repair_bundle"
    THEN {"autonomous_repair", "multi_file", "bounded_convergence"}
    ELSE {u}
=============================================================================
