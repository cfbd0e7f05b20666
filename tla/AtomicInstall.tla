--------------------------- MODULE AtomicInstall ---------------------------
(***************************************************************************)
(* What an update promises of the installed files (docs/ARCHITECTURE.md,   *)
(* "Updates"): they go from one version to the next in one step, or not at *)
(* all, and an update that was cut short is the only exception.            *)
(*                                                                         *)
(* A file holds the version it was copied from, None when it is absent.    *)
(* installed is the manifest on record: an update removes the files that   *)
(* this one names and its own does not.                                    *)
(***************************************************************************)
EXTENDS Naturals

CONSTANTS
    Files,        \* the files any version manages
    VersionFile,  \* app/version.py, which every version has
    Versions,
    Managed,      \* [Versions -> SUBSET Files]: managed_paths
    None

VARIABLES
    files,      \* [Files -> Versions \cup {None}]
    installed,  \* the version whose manifest is on record
    torn        \* an update was cut short

vars == <<files, installed, torn>>

Trees == [Files -> Versions \cup {None}]

\* The files a manifest names, none without a readable manifest.
ManagedBy(v) == IF v \in Versions THEN Managed[v] ELSE {}

\* The files of a version and nothing else.
Whole(v) == [f \in Files |-> IF f \in Managed[v] THEN v ELSE None]

\* The files after an update to v over those of the manifest old.
Updated(tree, v, old) ==
    [f \in Files |-> IF f \in Managed[v] THEN v
                     ELSE IF f \in ManagedBy(old) THEN None
                     ELSE tree[f]]

\* Every file of the version that the program says it is.
OneVersion(tree) ==
    /\ tree[VersionFile] \in Versions
    /\ \A f \in Managed[tree[VersionFile]] : tree[f] = tree[VersionFile]

\* A download or a checkout, with or without the manifest an update leaves.
Init ==
    \E v \in Versions :
        /\ files = Whole(v)
        /\ installed \in {None, v}
        /\ torn = FALSE

Install(v) ==
    /\ files' = Updated(files, v, installed)
    /\ installed' = v
    /\ torn' = FALSE

\* An update that fails late restores the files and leaves its manifest.
Misrecord ==
    /\ installed' \in Versions \cup {None}
    /\ UNCHANGED <<files, torn>>

\* An update is cut short: anything between the two versions.
Tear ==
    /\ files' \in Trees
    /\ installed' \in Versions \cup {None}
    /\ torn' = TRUE

Next == (\E v \in Versions : Install(v)) \/ Misrecord \/ Tear

Spec == Init /\ [][Next]_vars

\* Unless an update was cut short, the files are those of one version: what the
\* rollback of apply_update.py is for.
WholeUnlessTorn == torn \/ OneVersion(files)
=============================================================================
