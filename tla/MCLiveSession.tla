--------------------------- MODULE MCLiveSession ---------------------------
(***************************************************************************)
(* A small instance of LiveSession: the agent starts on the cheap model of *)
(* four, whose client is wrapped, and one more is down.                    *)
(***************************************************************************)
EXTENDS LiveSession

MCCandidates ==
    <<[id |-> 1, capability |-> 1, cost |-> 0, available |-> TRUE],
      [id |-> 2, capability |-> 0, cost |-> 0, available |-> TRUE],
      [id |-> 3, capability |-> 2, cost |-> 1, available |-> TRUE],
      [id |-> 4, capability |-> 3, cost |-> 0, available |-> TRUE],
      [id |-> 5, capability |-> 2, cost |-> 0, available |-> FALSE]>>

\* Without a budget of tokens.
NoTokenBudget == NoBudget
=============================================================================
