-------------------------- MODULE MCProbeScheduler --------------------------
(***************************************************************************)
(* Small instances of ProbeScheduler.  The suite keeps one unit of each    *)
(* kind the scheduler tells apart: a local unit before the first external  *)
(* one, the prerequisite, an action, the bundle of three gates, the final  *)
(* local unit.                                                             *)
(***************************************************************************)
EXTENDS ProbeScheduler

MCOrdered == <<"retry_after_synthetic", "json_object_strict", "action_validate",
               "repair_bundle", "native_tool_calling">>

\* The same without the units that only add results.
MCShort == <<"json_object_strict", "action_validate", "native_tool_calling">>

Plain == [calls_limit |-> 3, active_limit |-> 2, pacing |-> 1,
          max_recoveries |-> 2, max_single_wait |-> 2,
          max_cumulative_wait |-> 3, fallback_wait |-> 1]

\* A second operator's configuration for the same target.
Unpaced == [Plain EXCEPT !.pacing = 0]

OnePolicy == {Plain}
TwoPolicies == {Plain, Unpaced}
=============================================================================
