---------------------------- MODULE RepairCycle ----------------------------
(***************************************************************************)
(* What the guidance of a session promises about a failing build: it is    *)
(* diagnosed before it is corrected, one diagnosis serves one attempt at a *)
(* correction, and what was corrected is built before anything else runs.  *)
(***************************************************************************)
VARIABLE phase

Phases == {"none", "unverified", "failed", "diagnosed", "corrected", "passed"}

Init == phase \in {"none", "unverified", "failed", "passed"}

\* No diagnosis is thrown away: it is the build after a correction that counts.
Build == phase \notin {"none", "diagnosed"} /\ phase' \in {"passed", "failed"}

Diagnose == phase = "failed" /\ phase' = "diagnosed"

Correct == phase = "diagnosed" /\ phase' = "corrected"

CorrectionFails == phase = "diagnosed" /\ phase' = "failed"

Next == Build \/ Diagnose \/ Correct \/ CorrectionFails

Spec == Init /\ [][Next]_phase
=============================================================================
