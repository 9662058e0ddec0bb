-------------------------- MODULE WorkingArtifact --------------------------
(***************************************************************************)
(* The artifact a session works on (src/src/harness/artifact*.rs) and the  *)
(* two kinds of batch that change it: file operations, which change its    *)
(* structure, and corrections (correction.rs), which change sources.       *)
(*                                                                         *)
(* A batch is tried on a copy.  It fails as a whole or gives a preview,    *)
(* which the harness commits.                                              *)
(***************************************************************************)
EXTENDS Integers, Sequences

CONSTANTS
    Paths,
    Sources,      \* texts a file may hold
    Blank,        \* those that are empty or white space
    TrimEnd,      \* a text without the white space at its end
    Edits,        \* operations of a correction: replace, insert, remove
    Effect,       \* Effect[edit][source]: what it makes of a text, or Failed
    Degenerate,   \* edits of nothing: an empty insertion, an empty range
    PrimaryPath,  \* the path of a correction that names none
    Failed

Contents ==
    {content \in [files : UNION {[names -> Sources] : names \in (SUBSET Paths) \ {{}}},
                  primary : Paths] :
        content.primary \in DOMAIN content.files}

ASSUME ArtifactAssumption ==
    /\ Blank \subseteq Sources
    /\ TrimEnd \in [Sources -> Sources]
    /\ Effect \in [Edits -> [Sources -> Sources \cup {Failed}]]
    /\ Degenerate \subseteq Edits
    /\ PrimaryPath \notin Paths
    /\ Failed \notin Sources
    /\ Failed \notin Contents

\* Files and primary, without the revision.
Content(artifact) == [files |-> artifact.files, primary |-> artifact.primary]

PrimarySource(artifact) == artifact.files[artifact.primary]

-----------------------------------------------------------------------------
(***************************************************************************)
(* File operations.                                                        *)
(***************************************************************************)
Create(path, source) == [kind |-> "create", path |-> path, source |-> source]
Delete(path) == [kind |-> "delete", path |-> path]
Rename(from, to) == [kind |-> "rename", from |-> from, to |-> to]

FileOperations ==
    {Create(path, source) : path \in Paths, source \in Sources}
        \cup {Delete(path) : path \in Paths}
        \cup {Rename(from, to) : from \in Paths, to \in Paths}

Without(files, path) == [p \in DOMAIN files \ {path} |-> files[p]]

With(files, path, source) ==
    [p \in DOMAIN files \cup {path} |-> IF p = path THEN source ELSE files[p]]

\* A rename of a file to itself is accepted even when there is no such file.
Applicable(operation, trial) ==
    \/ operation.kind = "create" /\ operation.path \notin DOMAIN trial.files
    \/ operation.kind = "delete" /\ operation.path \in DOMAIN trial.files \ {trial.primary}
    \/ operation.kind = "rename" /\
          \/ operation.from = operation.to
          \/ operation.from \in DOMAIN trial.files /\ operation.to \notin DOMAIN trial.files

Moved(trial, from, to) ==
    [files |-> With(Without(trial.files, from), to, trial.files[from]),
     primary |-> IF trial.primary = from THEN to ELSE trial.primary]

ApplyFileOperation(trial, operation) ==
    IF trial = Failed \/ ~Applicable(operation, trial) THEN Failed
    ELSE CASE operation.kind = "create" ->
                 [trial EXCEPT !.files = With(@, operation.path, operation.source)]
           [] operation.kind = "delete" ->
                 [trial EXCEPT !.files = Without(@, operation.path)]
           [] operation.kind = "rename" ->
                 IF operation.from = operation.to THEN trial
                 ELSE Moved(trial, operation.from, operation.to)

-----------------------------------------------------------------------------
(***************************************************************************)
(* Corrections.                                                            *)
(***************************************************************************)
Correction(path, edit) == [path |-> path, edit |-> edit]

Corrections == [path : Paths \cup {PrimaryPath}, edit : Edits]

ResolvedPath(correction, content) ==
    IF correction.path = PrimaryPath THEN content.primary ELSE correction.path

ApplyCorrection(trial, correction) ==
    IF trial = Failed THEN Failed
    ELSE LET path == ResolvedPath(correction, trial)
         IN IF path \notin DOMAIN trial.files THEN Failed
            ELSE LET next == Effect[correction.edit][trial.files[path]]
                 IN IF next = Failed THEN Failed ELSE [trial EXCEPT !.files[path] = next]

-----------------------------------------------------------------------------
(***************************************************************************)
(* Previews and commits.                                                   *)
(***************************************************************************)
\* The copy after every operation; once one has failed it stays Failed.
TriedFileOperations(content, operations) ==
    LET tried[i \in 0..Len(operations)] ==
            IF i = 0 THEN content ELSE ApplyFileOperation(tried[i - 1], operations[i])
    IN tried

PreviewFileOperations(content, operations) ==
    IF operations = <<>> THEN Failed
    ELSE TriedFileOperations(content, operations)[Len(operations)]

\* FileOperationsTool reads a batch that the harness wrote as one text, and trims it.
\* Of a blank source at its end nothing is left, not even the separator before it.
IsDamaged(operations) ==
    LET last == operations[Len(operations)]
    IN last.kind = "create" /\ last.source \in Blank

\* Any other source at its end loses the white space at its own end.  No source holds
\* a separator.
ReceivedFileOperations(operations) ==
    IF operations[Len(operations)].kind # "create" THEN operations
    ELSE [operations EXCEPT ![Len(operations)].source = TrimEnd[@]]

FileOperationsTool(content, operations) ==
    IF IsDamaged(operations) THEN Failed
    ELSE PreviewFileOperations(content, ReceivedFileOperations(operations))

TriedCorrections(content, corrections) ==
    LET tried[i \in 0..Len(corrections)] ==
            IF i = 0 THEN content ELSE ApplyCorrection(tried[i - 1], corrections[i])
    IN tried

PreviewCorrections(content, corrections) ==
    IF corrections = <<>> THEN Failed
    ELSE TriedCorrections(content, corrections)[Len(corrections)]

\* A preview without changes is not a revision.
CommitPreview(artifact, preview) ==
    IF preview = Content(artifact) THEN artifact
    ELSE [files |-> preview.files, primary |-> preview.primary,
          revision |-> artifact.revision + 1]

\* Mutant: writing the same text again counts.
ReplaceAlways(artifact, source) ==
    [artifact EXCEPT !.files[artifact.primary] = source, !.revision = @ + 1]

\* RustArtifact::replace_source, on the primary only.
ReplaceSource(artifact, source) ==
    IF source = PrimarySource(artifact) THEN artifact
    ELSE [artifact EXCEPT !.files[artifact.primary] = source, !.revision = @ + 1]
=============================================================================
