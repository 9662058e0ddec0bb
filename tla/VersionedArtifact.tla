------------------------- MODULE VersionedArtifact -------------------------
(***************************************************************************)
(* What a session promises of its artifact, without tools, policies or     *)
(* batches: it changes in whole versions, each with a number of its own.   *)
(* A version either edits sources and leaves the tree as it is, or         *)
(* rearranges the tree and leaves the source of the primary file as it is. *)
(***************************************************************************)
EXTENDS Integers

CONSTANT Contents   \* trees of files with a primary one

VARIABLES content, revision

vars == <<content, revision>>

Init == content \in Contents /\ revision = 0

Version ==
    /\ content' \in Contents
    /\ content' # content
    /\ revision' = revision + 1

Edit ==
    /\ Version
    /\ DOMAIN content'.files = DOMAIN content.files
    /\ content'.primary = content.primary

Rearrange ==
    /\ Version
    /\ content'.files[content'.primary] = content.files[content.primary]

Next == Edit \/ Rearrange

Spec == Init /\ [][Next]_vars
=============================================================================
