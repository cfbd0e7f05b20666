---------------------------- MODULE ApplyUpdate ----------------------------
(***************************************************************************)
(* The update worker (scripts/apply_update.py): a process of its own that  *)
(* the server starts before it stops.  It reads its request, waits until   *)
(* the server's process is gone, backs up the files it is about to touch,  *)
(* removes and copies files, synchronizes the dependencies, records the    *)
(* manifest and starts the server again; after an error it puts the backup *)
(* back and ends.                                                          *)
(*                                                                         *)
(* Each file is replaced at once (os.replace) and the set of files is not: *)
(* every action below is one write, and a fault may come at each of them.  *)
(* Who starts workers and stages releases is the server, in Updater; here  *)
(* they may come at any time.                                              *)
(***************************************************************************)
EXTENDS Naturals

CONSTANTS
    Workers,      \* processes: bounds the updates under way
    Files,        \* the files any version manages
    VersionFile,  \* app/version.py, which every version has
    Versions,
    Managed,      \* [Versions -> SUBSET Files]: managed_paths
    Faults,       \* what may go wrong, see FaultAssumption
    None          \* an absent file, an unreadable manifest, no process

VARIABLES
    tree,      \* [Files -> Versions \cup {None}]: whose content each file has
    manifest,  \* installed-update-manifest.json: the version it is of
    ready,     \* versions with a complete install-request.json and staged/
    worker,    \* [Workers -> Sessions \cup {None}]
    torn       \* a worker ended between two writes (no variable of the code)

applyVars == <<tree, manifest, ready, worker, torn>>

Trees == [Files -> Versions \cup {None}]

Phases == {"starting", "waiting", "replacing", "recording", "finishing",
           "rolling", "restarting"}

\* A worker: the version of its request, whether the server that started it is
\* gone, and, once it has made the backup, the manifest it read (old), the files
\* still to be replaced or restored (todo) and the backup (kept).
Sessions == [pc : Phases, version : Versions, orphan : BOOLEAN,
             old : Versions \cup {None}, todo : SUBSET Files, kept : Trees]

ASSUME ReleaseAssumption ==
    /\ Versions \subseteq Nat
    /\ Managed \in [Versions -> SUBSET Files]
    /\ \A v \in Versions : VersionFile \in Managed[v]
    /\ None \notin Versions

ASSUME FaultAssumption ==
    Faults \subseteq {"backup", "replace", "sync", "record", "state",
                      "restore", "restart", "kill", "raise"}

ASSUME SessionAssumption == None \notin Sessions

\* The contract, over the files as they were while a worker is at them.
Working(w) ==
    /\ worker[w] # None
    /\ worker[w].pc \in {"replacing", "recording", "finishing", "rolling"}
AtRest == \A w \in Workers : ~Working(w)
TheWorker == worker[CHOOSE w \in Workers : Working(w)]
Visible  == IF AtRest THEN tree ELSE TheWorker.kept
OnRecord == IF AtRest THEN manifest ELSE TheWorker.old

Atomic == INSTANCE AtomicInstall WITH files <- Visible, installed <- OnRecord

ApplyTypeOK ==
    /\ tree \in Trees
    /\ manifest \in Versions \cup {None}
    /\ ready \in SUBSET Versions
    /\ worker \in [Workers -> Sessions \cup {None}]
    /\ torn \in BOOLEAN

\* A download or a checkout, with or without the manifest an update leaves.
ApplyInit ==
    /\ \E v \in Versions : tree = Atomic!Whole(v) /\ manifest \in {None, v}
    /\ ready = {}
    /\ worker = [w \in Workers |-> None]
    /\ torn = FALSE

----------------------------------------------------------------------------
(* What the server does to workers: Updater conjoins these. *)

Spawn(w, v) ==
    /\ worker[w] = None
    /\ worker' = [worker EXCEPT ![w] =
            [pc |-> "starting", version |-> v, orphan |-> FALSE, old |-> None,
             todo |-> {}, kept |-> tree]]

\* The server's process is gone, for all the workers it started.
Orphan ==
    worker' = [w \in Workers |->
        IF worker[w] = None THEN None ELSE [worker[w] EXCEPT !.orphan = TRUE]]

----------------------------------------------------------------------------
(* The worker. *)

At(w, phase) == worker[w] # None /\ worker[w].pc = phase

\* What w works on next, and the files it has to go through.
Goto(w, phase, todo) ==
    worker' = [worker EXCEPT ![w].pc = phase, ![w].todo = todo]

Ends(w) == worker' = [worker EXCEPT ![w] = None]

Touched(s) == Managed[s.version] \cup Atomic!ManagedBy(s.old)

\* main reads the request before anything else, and outside its try.
ReadRequest(w) ==
    /\ At(w, "starting")
    /\ IF worker[w].version \in ready THEN Goto(w, "waiting", {}) ELSE Ends(w)
    /\ UNCHANGED <<tree, manifest, ready, torn>>

\* Mutant: the worker waits as long as it takes.
GiveUp_Never(w) ==
    /\ FALSE
    /\ Ends(w)
    /\ UNCHANGED <<tree, manifest, ready, torn>>

\* wait_for_process gives up after 180 seconds, which a server takes that nobody
\* told to go, or one that hangs.
GiveUp(w) ==
    /\ At(w, "waiting") /\ ~worker[w].orphan
    /\ Ends(w)
    /\ UNCHANGED <<tree, manifest, ready, torn>>

\* Mutant: the worker does not wait for the server.
Begin_AtOnce(w) ==
    /\ At(w, "waiting")
    /\ worker' = [worker EXCEPT ![w] = [worker[w] EXCEPT
            !.pc = "replacing", !.old = manifest, !.kept = tree,
            !.todo = Managed[worker[w].version] \cup Atomic!ManagedBy(manifest)]]
    /\ UNCHANGED <<tree, manifest, ready, torn>>

\* The backup of every file that the update touches.
Begin(w) ==
    /\ At(w, "waiting") /\ worker[w].orphan
    /\ worker' = [worker EXCEPT ![w] = [worker[w] EXCEPT
            !.pc = "replacing", !.old = manifest, !.kept = tree,
            !.todo = Managed[worker[w].version] \cup Atomic!ManagedBy(manifest)]]
    /\ UNCHANGED <<tree, manifest, ready, torn>>

\* The backup is made outside the try: nothing is rolled back, or has to be.
BackupFails(w) ==
    /\ "backup" \in Faults
    /\ At(w, "waiting") /\ worker[w].orphan
    /\ Ends(w)
    /\ UNCHANGED <<tree, manifest, ready, torn>>

\* The files are gone through in one order, that of their names, whichever it is.
InOrder(f, files) == f = CHOOSE g \in files : TRUE

\* The files that only the old version manages go first.
Remove(w, f) ==
    /\ At(w, "replacing")
    /\ f \in worker[w].todo \ Managed[worker[w].version]
    /\ InOrder(f, worker[w].todo \ Managed[worker[w].version])
    /\ tree' = [tree EXCEPT ![f] = None]
    /\ Goto(w, "replacing", worker[w].todo \ {f})
    /\ UNCHANGED <<manifest, ready, torn>>

\* A file is copied from staged/, if that still is there.
Copy(w, f) ==
    /\ At(w, "replacing")
    /\ worker[w].todo \subseteq Managed[worker[w].version]
    /\ worker[w].version \in ready
    /\ f \in worker[w].todo
    /\ InOrder(f, worker[w].todo)
    /\ tree' = [tree EXCEPT ![f] = worker[w].version]
    /\ Goto(w, "replacing", worker[w].todo \ {f})
    /\ UNCHANGED <<manifest, ready, torn>>

Sync(w) ==
    /\ At(w, "replacing") /\ worker[w].todo = {}
    /\ Goto(w, "recording", {})
    /\ UNCHANGED <<tree, manifest, ready, torn>>

RecordManifest(w) ==
    /\ At(w, "recording")
    /\ manifest' = worker[w].version
    /\ Goto(w, "finishing", {})
    /\ UNCHANGED <<tree, ready, torn>>

\* update-state.json is written: from here on the update counts.
Finish(w) ==
    /\ At(w, "finishing")
    /\ Goto(w, "restarting", {})
    /\ torn' = FALSE
    /\ UNCHANGED <<tree, manifest, ready>>

\* An error in the try of apply_update, which rolls back.
RollsBack(w) == Goto(w, "rolling", Touched(worker[w]))

ReplaceFails(w) ==
    /\ At(w, "replacing") /\ worker[w].todo # {}
    /\ "replace" \in Faults \/ worker[w].version \notin ready
    /\ RollsBack(w)
    /\ UNCHANGED <<tree, manifest, ready, torn>>

SyncFails(w) ==
    /\ "sync" \in Faults
    /\ At(w, "replacing") /\ worker[w].todo = {}
    /\ RollsBack(w)
    /\ UNCHANGED <<tree, manifest, ready, torn>>

\* write_text truncates first: the manifest may be lost.
RecordFails(w) ==
    /\ "record" \in Faults
    /\ At(w, "recording")
    /\ manifest' \in {manifest, None}
    /\ RollsBack(w)
    /\ UNCHANGED <<tree, ready, torn>>

\* The manifest is not rolled back.
StateFails(w) ==
    /\ "state" \in Faults
    /\ At(w, "finishing")
    /\ RollsBack(w)
    /\ UNCHANGED <<tree, manifest, ready, torn>>

\* Mutant: what the update has added stays.
Restored_OnlyBackup(s, f) == IF s.kept[f] = None THEN tree[f] ELSE s.kept[f]

\* A file of the backup is put back, one that is not in it is removed.
Restored(s, f) == s.kept[f]

Restore(w, f) ==
    /\ At(w, "rolling")
    /\ f \in worker[w].todo
    /\ InOrder(f, worker[w].todo)
    /\ tree' = [tree EXCEPT ![f] = Restored(worker[w], f)]
    /\ Goto(w, "rolling", worker[w].todo \ {f})
    /\ UNCHANGED <<manifest, ready, torn>>

RestoreFails(w) ==
    /\ "restore" \in Faults
    /\ At(w, "rolling") /\ worker[w].todo # {}
    /\ Ends(w)
    /\ torn' = TRUE
    /\ UNCHANGED <<tree, manifest, ready>>

\* The error is raised again, and main does not restart the server.
RolledBack(w) ==
    /\ At(w, "rolling") /\ worker[w].todo = {}
    /\ Ends(w)
    /\ UNCHANGED <<tree, manifest, ready, torn>>

\* restart_app: the new server is part of Updater.
Restart(w) ==
    /\ At(w, "restarting")
    /\ Ends(w)
    /\ UNCHANGED <<tree, manifest, ready, torn>>

\* The process is killed, or the machine goes down.
Kill(w) ==
    /\ "kill" \in Faults
    /\ worker[w] # None
    /\ Ends(w)
    /\ torn' = (torn \/ Working(w))
    /\ UNCHANGED <<tree, manifest, ready>>

\* What the program does, but for the restart, which starts a server too.
Runs(w) ==
    \/ ReadRequest(w) \/ GiveUp(w)
    \/ Begin(w) \/ BackupFails(w)
    \/ \E f \in Files : Remove(w, f) \/ Copy(w, f)
    \/ ReplaceFails(w)
    \/ Sync(w) \/ SyncFails(w)
    \/ RecordManifest(w) \/ RecordFails(w)
    \/ Finish(w) \/ StateFails(w)
    \/ \E f \in Files : Restore(w, f)
    \/ RestoreFails(w) \/ RolledBack(w)

Work(w) == Runs(w) \/ Kill(w)

\* The server, for this module: it starts workers, stages and unstages releases
\* and goes away, whenever it likes.
Surroundings ==
    /\ \/ \E w \in Workers, v \in Versions : Spawn(w, v)
       \/ Orphan
       \/ UNCHANGED worker
    /\ ready' \in SUBSET Versions
    /\ UNCHANGED <<tree, manifest, torn>>

ApplyNext == (\E w \in Workers : Work(w) \/ Restart(w)) \/ Surroundings

ApplySpec == ApplyInit /\ [][ApplyNext]_applyVars

\* With a single worker the update implements the contract: whatever fails, the
\* files are the old ones or the new ones once the worker is done with them
\* (docs/ARCHITECTURE.md:61).
AtomicFiles == Atomic!Spec

\* Once no worker is at them, the files are those of one version, unless a worker
\* was cut short (docs/ARCHITECTURE.md:61).
WholeAtRest == AtRest => torn \/ Atomic!OneVersion(tree)
=============================================================================
