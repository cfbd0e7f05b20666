--------------------------- MODULE UpdaterProofs ---------------------------
(***************************************************************************)
(* Proofs about the updater, for any files, versions, faults and clients.  *)
(* That the files change all at once is proved of the worker alone and of  *)
(* one update at a time (OneUpdate): with two, the run updater_overlap     *)
(* shows what fails.  Nothing about the server has such a hypothesis.      *)
(***************************************************************************)
EXTENDS Updater, TLAPS

OneUpdate == \A v, w \in Workers : v = w

----------------------------------------------------------------------------
(* Types of the worker. *)

\* A tree with one file changed is a tree.
LEMMA TreeChanges ==
    ASSUME NEW t \in Trees, NEW f \in Files, NEW v \in Versions \cup {None}
    PROVE  [t EXCEPT ![f] = v] \in Trees
  BY DEF Trees

\* The files that a worker touches are files.
LEMMA TouchedAreFiles ==
    ASSUME NEW s \in Sessions
    PROVE  Touched(s) \in SUBSET Files
  BY ReleaseAssumption DEF Touched, Atomic!ManagedBy, Sessions

\* A worker that goes on to another phase stays a worker.
LEMMA GotoTypes ==
    ASSUME ApplyTypeOK, NEW w \in Workers, worker[w] # None,
           NEW phase \in Phases, NEW todo \in SUBSET Files, Goto(w, phase, todo)
    PROVE  worker' \in [Workers -> Sessions \cup {None}]
  <1>1. worker[w] \in Sessions
    BY DEF ApplyTypeOK
  <1>2. [worker[w] EXCEPT !.pc = phase, !.todo = todo] \in Sessions
    BY <1>1 DEF Sessions
  <1>3. worker' = [worker EXCEPT ![w] = [worker[w] EXCEPT !.pc = phase, !.todo = todo]]
    BY DEF Goto
  <1> QED
    BY <1>2, <1>3 DEF ApplyTypeOK

\* A worker that ends leaves a free process.
LEMMA EndsTypes ==
    ASSUME ApplyTypeOK, NEW w \in Workers, Ends(w)
    PROVE  worker' \in [Workers -> Sessions \cup {None}]
  BY DEF ApplyTypeOK, Ends

\* A new worker is a worker.
LEMMA SpawnTypes ==
    ASSUME ApplyTypeOK, NEW w \in Workers, NEW v \in Versions, Spawn(w, v)
    PROVE  worker' \in [Workers -> Sessions \cup {None}]
  <1>1. [pc |-> "starting", version |-> v, orphan |-> FALSE, old |-> None,
         todo |-> {}, kept |-> tree] \in Sessions
    BY DEF Sessions, Phases, ApplyTypeOK
  <1> QED
    BY <1>1 DEF ApplyTypeOK, Spawn

\* So is one that has lost its server.
LEMMA OrphanTypes ==
    ASSUME ApplyTypeOK, Orphan
    PROVE  worker' \in [Workers -> Sessions \cup {None}]
  <1> SUFFICES ASSUME NEW w \in Workers, worker[w] # None
               PROVE  [worker[w] EXCEPT !.orphan = TRUE] \in Sessions
    BY DEF Orphan
  <1>1. worker[w] \in Sessions
    BY DEF ApplyTypeOK
  <1> QED
    BY <1>1 DEF Sessions

\* What begins is the update of the request, over the files as they are.
LEMMA BeginSession ==
    ASSUME ApplyTypeOK, NEW w \in Workers, Begin(w)
    PROVE  /\ worker' \in [Workers -> Sessions \cup {None}]
           /\ worker'[w] # None
           /\ worker'[w].pc = "replacing"
           /\ worker'[w].version = worker[w].version
           /\ worker'[w].old = manifest
           /\ worker'[w].kept = tree
           /\ worker'[w].todo = Touched(worker'[w])
  <1> DEFINE files == Managed[worker[w].version] \cup Atomic!ManagedBy(manifest)
             t == [worker[w] EXCEPT !.pc = "replacing", !.old = manifest,
                                    !.kept = tree, !.todo = files]
  <1>1. worker[w] \in Sessions
    BY DEF ApplyTypeOK, Begin, At
  <1>2. files \in SUBSET Files
    BY <1>1, ReleaseAssumption DEF Sessions, Atomic!ManagedBy
  <1>3. worker' = [worker EXCEPT ![w] = t]
    BY DEF Begin
  <1>4. worker'[w] = t
    BY <1>3 DEF ApplyTypeOK
  <1> HIDE DEF files
  <1>5. /\ t \in Sessions
        /\ t.pc = "replacing" /\ t.version = worker[w].version
        /\ t.old = manifest /\ t.kept = tree /\ t.todo = files
    BY <1>1, <1>2 DEF Sessions, Phases, ApplyTypeOK
  <1> HIDE DEF t
  <1>6. Touched(t) = files
    BY <1>5 DEF Touched, files
  <1> QED
    BY <1>3, <1>4, <1>5, <1>6, SessionAssumption DEF ApplyTypeOK

\* Every write of a worker leaves types as they are.
LEMMA WorkTypes ==
    ASSUME ApplyTypeOK, NEW w \in Workers, Work(w) \/ Restart(w)
    PROVE  ApplyTypeOK'
  <1> USE DEF At
  <1>1. {} \in SUBSET Files
    OBVIOUS
  <1>2. worker[w] # None => /\ worker[w] \in Sessions
                            /\ worker[w].version \in Versions
                            /\ worker[w].kept \in Trees
                            /\ worker[w].todo \in SUBSET Files
                            /\ Touched(worker[w]) \in SUBSET Files
    BY TouchedAreFiles DEF ApplyTypeOK, Sessions
  <1>3. CASE ReadRequest(w)
    BY <1>1, <1>3, GotoTypes, EndsTypes DEF ReadRequest, Phases, ApplyTypeOK
  <1>4. CASE GiveUp(w) \/ BackupFails(w) \/ RestoreFails(w) \/ RolledBack(w) \/ Restart(w)
             \/ Kill(w)
    BY <1>4, EndsTypes
       DEF GiveUp, BackupFails, RestoreFails, RolledBack, Restart, Kill, Working, ApplyTypeOK
  <1>5. CASE Begin(w)
    BY <1>5, BeginSession DEF Begin, ApplyTypeOK
  <1>6. ASSUME NEW f \in Files, Remove(w, f) PROVE ApplyTypeOK'
    <2>1. worker' \in [Workers -> Sessions \cup {None}]
      BY <1>2, <1>6, GotoTypes DEF Remove, Phases
    <2>2. tree' \in Trees
      BY <1>6, TreeChanges DEF Remove, ApplyTypeOK
    <2> QED
      BY <1>6, <2>1, <2>2 DEF Remove, ApplyTypeOK
  <1>7. ASSUME NEW f \in Files, Copy(w, f) PROVE ApplyTypeOK'
    <2>1. worker' \in [Workers -> Sessions \cup {None}]
      BY <1>2, <1>7, GotoTypes DEF Copy, Phases
    <2>2. tree' \in Trees
      BY <1>2, <1>7, TreeChanges DEF Copy, ApplyTypeOK
    <2> QED
      BY <1>7, <2>1, <2>2 DEF Copy, ApplyTypeOK
  <1>8. CASE ReplaceFails(w) \/ SyncFails(w) \/ RecordFails(w) \/ StateFails(w)
    BY <1>2, <1>8, GotoTypes
       DEF ReplaceFails, SyncFails, RecordFails, StateFails, RollsBack, Phases, ApplyTypeOK
  <1>9. CASE Sync(w) \/ RecordManifest(w) \/ Finish(w)
    BY <1>1, <1>2, <1>9, GotoTypes DEF Sync, RecordManifest, Finish, Phases, ApplyTypeOK
  <1>10. ASSUME NEW f \in Files, Restore(w, f) PROVE ApplyTypeOK'
    <2>1. worker' \in [Workers -> Sessions \cup {None}]
      BY <1>2, <1>10, GotoTypes DEF Restore, Phases
    <2>2. worker[w].kept[f] \in Versions \cup {None}
      BY <1>2, <1>10 DEF Restore, Trees
    <2>3. tree' \in Trees
      BY <1>10, <2>2, TreeChanges DEF Restore, Restored, ApplyTypeOK
    <2> QED
      BY <1>10, <2>1, <2>3 DEF Restore, ApplyTypeOK
  <1> QED
    BY <1>3, <1>4, <1>5, <1>6, <1>7, <1>8, <1>9, <1>10 DEF Work, Runs

\* What the server does leaves them so too.
LEMMA SurroundingsTypes ==
    ASSUME ApplyTypeOK, Surroundings
    PROVE  ApplyTypeOK'
  BY SpawnTypes, OrphanTypes DEF Surroundings, ApplyTypeOK

\* An installation is one version.
LEMMA InitTypes == ApplyInit => ApplyTypeOK
  BY ReleaseAssumption DEF ApplyInit, ApplyTypeOK, Trees, Atomic!Whole

\* The types of the worker's part are kept by every step.
LEMMA ApplyTypeSteps ==
    ASSUME ApplyTypeOK, [ApplyNext]_applyVars
    PROVE  ApplyTypeOK'
  <1>1. CASE UNCHANGED applyVars
    BY <1>1 DEF applyVars, ApplyTypeOK
  <1> QED
    BY <1>1, WorkTypes, SurroundingsTypes DEF ApplyNext

\* The worker's state is typed in every behaviour of apply_update.py: whatever
\* fails, a file has the content of some version or is absent.
THEOREM ApplyTypeCorrect == ApplySpec => []ApplyTypeOK
  <1>1. ApplyTypeOK /\ [ApplyNext]_applyVars => ApplyTypeOK'
    BY ApplyTypeSteps
  <1> QED
    BY <1>1, InitTypes, PTL DEF ApplySpec

----------------------------------------------------------------------------
(* What a worker has done so far. *)

\* Between the backup and the end: on the way forward every file is either still
\* to be replaced, and as it was, or as the new version wants it; on the way back
\* every file that is not still to be restored is as it was.
Progress(s) ==
    /\ s.todo \subseteq Touched(s)
    /\ s.pc = "rolling" => \A f \in Files \ s.todo : tree[f] = s.kept[f]
    /\ s.pc # "rolling" => \A f \in Files :
            tree[f] = IF f \in s.todo THEN s.kept[f]
                      ELSE Atomic!Updated(s.kept, s.version, s.old)[f]
    /\ s.pc \in {"recording", "finishing"} => s.todo = {}
    /\ s.pc = "finishing" => manifest = s.version

OnTrack == \A w \in Workers : Working(w) => Progress(worker[w])

\* A phase and its files are all that changes for a worker that goes on.
LEMMA GoesTo ==
    ASSUME ApplyTypeOK, NEW w \in Workers, worker[w] # None,
           NEW phase \in Phases, NEW todo \in SUBSET Files, Goto(w, phase, todo)
    PROVE  /\ worker'[w] # None
           /\ worker'[w].pc = phase /\ worker'[w].todo = todo
           /\ worker'[w].version = worker[w].version
           /\ worker'[w].orphan = worker[w].orphan
           /\ worker'[w].old = worker[w].old
           /\ worker'[w].kept = worker[w].kept
           /\ Touched(worker'[w]) = Touched(worker[w])
  <1> DEFINE t == [worker[w] EXCEPT !.pc = phase, !.todo = todo]
  <1>1. worker[w] \in Sessions
    BY DEF ApplyTypeOK
  <1>2. worker' = [worker EXCEPT ![w] = t]
    BY DEF Goto
  <1>3. worker'[w] = t
    BY <1>2 DEF ApplyTypeOK
  <1>4. /\ t \in Sessions
        /\ t.pc = phase /\ t.todo = todo
        /\ t.version = worker[w].version /\ t.orphan = worker[w].orphan
        /\ t.old = worker[w].old /\ t.kept = worker[w].kept
    BY <1>1 DEF Sessions
  <1> HIDE DEF t
  <1> QED
    BY <1>3, <1>4, SessionAssumption DEF Touched

\* A worker that is past the backup has one, of files.
LEMMA WorkingSession ==
    ASSUME ApplyTypeOK, NEW w \in Workers, worker[w] # None
    PROVE  /\ worker[w] \in Sessions
           /\ worker[w].pc \in Phases
           /\ worker[w].version \in Versions
           /\ worker[w].old \in Versions \cup {None}
           /\ worker[w].kept \in Trees
           /\ worker[w].todo \in SUBSET Files
           /\ Touched(worker[w]) \in SUBSET Files
  BY TouchedAreFiles DEF ApplyTypeOK, Sessions

\* The backup: nothing is done yet.
LEMMA BeginProgress ==
    ASSUME ApplyTypeOK, NEW w \in Workers, Begin(w)
    PROVE  Progress(worker[w])'
  <1>1. \A f \in Files \ Touched(worker'[w]) :
            tree[f] = Atomic!Updated(tree, worker'[w].version, worker'[w].old)[f]
    BY DEF Touched, Atomic!Updated
  <1>2. /\ worker'[w].pc = "replacing" /\ worker'[w].kept = tree
        /\ worker'[w].todo = Touched(worker'[w])
    BY BeginSession
  <1>3. tree' = tree
    BY DEF Begin
  <1> QED
    BY <1>1, <1>2, <1>3 DEF Progress

\* One file more is removed or copied.
LEMMA ReplaceProgress ==
    ASSUME ApplyTypeOK, NEW w \in Workers, Working(w), Progress(worker[w]),
           NEW f \in Files, Remove(w, f) \/ Copy(w, f)
    PROVE  Progress(worker[w])'
  <1> DEFINE s == worker[w]
             new == Atomic!Updated(s.kept, s.version, s.old)
  <1>1. s \in Sessions /\ s.pc = "replacing" /\ f \in s.todo
    BY WorkingSession DEF Remove, Copy, At, Working
  <1>2. tree' = [tree EXCEPT ![f] = new[f]]
    <2>1. CASE Remove(w, f)
      <3>1. f \in Atomic!ManagedBy(s.old) /\ f \notin Managed[s.version]
        BY <2>1 DEF Remove, Progress, Touched
      <3>2. new[f] = None
        BY <3>1 DEF Atomic!Updated
      <3> QED
        BY <2>1, <3>2 DEF Remove
    <2>2. CASE Copy(w, f)
      <3>1. new[f] = s.version
        BY <1>1, <2>2 DEF Copy, Atomic!Updated
      <3> QED
        BY <2>2, <3>1 DEF Copy
    <2> QED
      BY <2>1, <2>2
  <1>3. Goto(w, "replacing", s.todo \ {f})
    BY DEF Remove, Copy
  <1>4. worker[w] # None /\ s.todo \ {f} \in SUBSET Files /\ "replacing" \in Phases
    BY WorkingSession DEF Working, Phases
  <1>5. /\ worker'[w].pc = "replacing" /\ worker'[w].todo = s.todo \ {f}
        /\ worker'[w].version = s.version /\ worker'[w].old = s.old
        /\ worker'[w].kept = s.kept /\ Touched(worker'[w]) = Touched(s)
    BY <1>3, <1>4, GoesTo
  <1>6. \A g \in Files : tree'[g] = IF g \in s.todo \ {f} THEN s.kept[g] ELSE new[g]
    <2> TAKE g \in Files
    <2>1. CASE g = f
      BY <1>2, <2>1 DEF ApplyTypeOK, Trees
    <2>2. CASE g # f
      BY <1>1, <1>2, <2>2 DEF Progress, ApplyTypeOK, Trees
    <2> QED
      BY <2>1, <2>2
  <1> QED
    BY <1>1, <1>5, <1>6 DEF Progress

\* One file more is restored.
LEMMA RestoreProgress ==
    ASSUME ApplyTypeOK, NEW w \in Workers, Working(w), Progress(worker[w]),
           NEW f \in Files, Restore(w, f)
    PROVE  Progress(worker[w])'
  <1> DEFINE s == worker[w]
  <1>1. s \in Sessions /\ s.pc = "rolling" /\ f \in s.todo
    BY WorkingSession DEF Restore, At, Working
  <1>2. tree' = [tree EXCEPT ![f] = s.kept[f]]
    BY DEF Restore, Restored
  <1>3. worker[w] # None /\ s.todo \ {f} \in SUBSET Files /\ "rolling" \in Phases
    BY WorkingSession DEF Working, Phases
  <1>4. /\ worker'[w].pc = "rolling" /\ worker'[w].todo = s.todo \ {f}
        /\ worker'[w].kept = s.kept /\ Touched(worker'[w]) = Touched(s)
    BY <1>3, GoesTo DEF Restore
  <1>5. \A g \in Files \ (s.todo \ {f}) : tree'[g] = s.kept[g]
    BY <1>1, <1>2 DEF Progress, ApplyTypeOK, Trees
  <1> QED
    BY <1>1, <1>4, <1>5 DEF Progress

\* An error sends the worker back over everything it may have touched.
LEMMA FailProgress ==
    ASSUME ApplyTypeOK, NEW w \in Workers, Working(w), Progress(worker[w]),
           worker[w].pc # "rolling", RollsBack(w), UNCHANGED tree
    PROVE  Progress(worker[w])'
  <1> DEFINE s == worker[w]
  <1>1. worker[w] # None /\ Touched(s) \in SUBSET Files /\ "rolling" \in Phases
    BY WorkingSession DEF Working, Phases
  <1>2. /\ worker'[w].pc = "rolling" /\ worker'[w].todo = Touched(s)
        /\ worker'[w].kept = s.kept /\ Touched(worker'[w]) = Touched(s)
    BY <1>1, GoesTo DEF RollsBack
  <1>3. \A f \in Files \ Touched(s) : tree[f] = s.kept[f]
    BY DEF Progress, Touched, Atomic!Updated
  <1> QED
    BY <1>2, <1>3 DEF Progress

----------------------------------------------------------------------------
(* The steps of a worker, as the contract sees them. *)

\* It is not at the files yet, or no longer.
Rests(w) ==
    /\ ~Working(w) /\ ~Working(w)'
    /\ UNCHANGED <<tree, manifest, torn>>

\* It goes on with the same backup.
MovesOn(w) ==
    /\ Working(w) /\ Working(w)'
    /\ worker'[w].kept = worker[w].kept /\ worker'[w].old = worker[w].old
    /\ UNCHANGED torn
    /\ Progress(worker[w])'

\* It is cut short.
Breaks(w) ==
    /\ Working(w) /\ ~Working(w)'
    /\ torn' = TRUE
    /\ UNCHANGED <<tree, manifest>>

\* A worker that goes on to one of the four phases goes on with its backup.
LEMMA GoesOn ==
    ASSUME ApplyTypeOK, NEW w \in Workers, Working(w),
           NEW phase \in {"replacing", "recording", "finishing", "rolling"},
           NEW todo \in SUBSET Files, Goto(w, phase, todo),
           UNCHANGED torn, Progress(worker[w])'
    PROVE  MovesOn(w)
  BY GoesTo DEF MovesOn, Working, Phases

\* Each step is one of six.
LEMMA StepKinds ==
    ASSUME ApplyTypeOK, OnTrack, NEW w \in Workers, Work(w) \/ Restart(w)
    PROVE  \/ Rests(w) \/ Begin(w) \/ MovesOn(w)
           \/ Finish(w) \/ RolledBack(w) \/ Breaks(w)
  <1>1. Ends(w) => ~Working(w)'
    BY DEF Ends, Working, ApplyTypeOK
  <1>2. worker[w] # None => /\ worker[w].todo \in SUBSET Files
                            /\ Touched(worker[w]) \in SUBSET Files
    BY WorkingSession
  <1>3. {} \in SUBSET Files
    OBVIOUS
  <1>4. CASE ReadRequest(w)
    <2>1. Goto(w, "waiting", {}) => ~Working(w)'
      BY <1>3, <1>4, GoesTo DEF ReadRequest, At, Working, Phases
    <2> QED
      BY <1>1, <1>4, <2>1 DEF ReadRequest, At, Working, Rests
  <1>5. CASE GiveUp(w) \/ BackupFails(w) \/ Restart(w)
    BY <1>1, <1>5 DEF GiveUp, BackupFails, Restart, At, Working, Rests
  <1>6. CASE RestoreFails(w)
    BY <1>1, <1>6 DEF RestoreFails, At, Working, Breaks
  <1>7. CASE Kill(w)
    BY <1>1, <1>7 DEF Kill, Rests, Breaks, ApplyTypeOK
  <1>8. ASSUME NEW f \in Files, Remove(w, f) \/ Copy(w, f) PROVE MovesOn(w)
    <2>1. Working(w)
      BY <1>8 DEF Remove, Copy, At, Working
    <2>2. Progress(worker[w])'
      BY <1>8, <2>1, ReplaceProgress DEF OnTrack
    <2>3. Goto(w, "replacing", worker[w].todo \ {f}) /\ UNCHANGED torn
      BY <1>8 DEF Remove, Copy
    <2>4. worker[w].todo \ {f} \in SUBSET Files
      BY <1>2, <2>1 DEF Working
    <2> QED
      BY <2>1, <2>2, <2>3, <2>4, GoesOn
  <1>9. ASSUME NEW f \in Files, Restore(w, f) PROVE MovesOn(w)
    <2>1. Working(w)
      BY <1>9 DEF Restore, At, Working
    <2>2. Progress(worker[w])'
      BY <1>9, <2>1, RestoreProgress DEF OnTrack
    <2>3. Goto(w, "rolling", worker[w].todo \ {f}) /\ UNCHANGED torn
      BY <1>9 DEF Restore
    <2>4. worker[w].todo \ {f} \in SUBSET Files
      BY <1>2, <2>1 DEF Working
    <2> QED
      BY <2>1, <2>2, <2>3, <2>4, GoesOn
  <1>10. CASE ReplaceFails(w) \/ SyncFails(w) \/ RecordFails(w) \/ StateFails(w)
    <2>1. Working(w) /\ worker[w].pc # "rolling"
      BY <1>10 DEF ReplaceFails, SyncFails, RecordFails, StateFails, At, Working
    <2>2. RollsBack(w) /\ UNCHANGED <<tree, torn>>
      BY <1>10 DEF ReplaceFails, SyncFails, RecordFails, StateFails
    <2>3. Progress(worker[w])'
      BY <2>1, <2>2, FailProgress DEF OnTrack
    <2> QED
      BY <1>2, <2>1, <2>2, <2>3, GoesOn DEF RollsBack, Working
  <1>11. CASE Sync(w) \/ RecordManifest(w)
    <2> DEFINE next == IF worker[w].pc = "replacing" THEN "recording" ELSE "finishing"
    <2>1. Working(w) /\ worker[w].pc # "rolling" /\ worker[w].todo = {}
      BY <1>11 DEF Sync, RecordManifest, At, Working, OnTrack, Progress
    <2>2. Goto(w, next, {}) /\ UNCHANGED <<tree, torn>>
      BY <1>11 DEF Sync, RecordManifest, At
    <2>3. next = "finishing" => manifest' = worker[w].version
      BY <1>11 DEF Sync, RecordManifest, At
    <2>4. next \in {"recording", "finishing"}
      OBVIOUS
    <2>5. /\ worker'[w].pc = next /\ worker'[w].todo = {}
          /\ worker'[w].version = worker[w].version
          /\ worker'[w].old = worker[w].old
          /\ worker'[w].kept = worker[w].kept
      BY <1>3, <2>1, <2>2, <2>4, GoesTo DEF Working, Phases
    <2> HIDE DEF next
    <2>6. Progress(worker[w])'
      BY <2>1, <2>2, <2>3, <2>4, <2>5 DEF OnTrack, Progress
    <2> QED
      BY <1>3, <2>1, <2>2, <2>4, <2>6, GoesOn
  <1>12. CASE Begin(w) \/ Finish(w) \/ RolledBack(w)
    BY <1>12
  <1> QED
    BY <1>4, <1>5, <1>6, <1>7, <1>8, <1>9, <1>10, <1>11, <1>12 DEF Work, Runs

\* The worker that is done has left the files.
LEMMA Leaving ==
    ASSUME ApplyTypeOK, NEW w \in Workers, Finish(w) \/ RolledBack(w)
    PROVE  Working(w) /\ ~Working(w)'
  <1>1. Working(w)
    BY DEF Finish, RolledBack, At, Working
  <1>2. CASE Finish(w)
    BY <1>1, <1>2, GoesTo DEF Finish, Working, Phases
  <1>3. CASE RolledBack(w)
    BY <1>1, <1>3 DEF RolledBack, Ends, Working, ApplyTypeOK
  <1> QED
    BY <1>1, <1>2, <1>3

\* The server's doings leave the files alone.
LEMMA SurroundingsRest ==
    ASSUME ApplyTypeOK, Surroundings, NEW w \in Workers
    PROVE  /\ Working(w)' = Working(w)
           /\ Working(w) => /\ worker'[w].kept = worker[w].kept
                            /\ worker'[w].old = worker[w].old
                            /\ Progress(worker[w]) => Progress(worker[w])'
  <1>1. CASE UNCHANGED worker
    BY <1>1 DEF Surroundings, Working, Progress
  <1>2. ASSUME NEW u \in Workers, NEW v \in Versions, Spawn(u, v)
        PROVE  /\ Working(w)' = Working(w)
               /\ Working(w) => worker'[w] = worker[w]
    BY <1>2, SessionAssumption DEF Spawn, Working, ApplyTypeOK
  <1>3. CASE Orphan
    <2>1. CASE worker[w] = None
      BY <1>3, <2>1 DEF Orphan, Working
    <2>2. CASE worker[w] # None
      <3> DEFINE t == [worker[w] EXCEPT !.orphan = TRUE]
      <3>1. worker'[w] = t
        BY <1>3, <2>2 DEF Orphan
      <3>2. /\ t \in Sessions
            /\ t.pc = worker[w].pc /\ t.kept = worker[w].kept
            /\ t.old = worker[w].old /\ t.todo = worker[w].todo
            /\ t.version = worker[w].version
        BY <2>2, WorkingSession DEF Sessions
      <3> HIDE DEF t
      <3>3. Touched(t) = Touched(worker[w]) /\ t # None
        BY <3>2, SessionAssumption DEF Touched
      <3>4. UNCHANGED <<tree, manifest>>
        BY DEF Surroundings
      <3> QED
        BY <2>2, <3>1, <3>2, <3>3, <3>4 DEF Working, Progress
    <2> QED
      BY <2>1, <2>2
  <1> QED
    BY <1>1, <1>2, <1>3 DEF Surroundings, Progress

\* Every step keeps every worker on track.
LEMMA OnTrackSteps ==
    ASSUME OneUpdate, ApplyTypeOK, OnTrack, ApplyNext
    PROVE  OnTrack'
  <1> SUFFICES ASSUME NEW w \in Workers, Working(w)' PROVE Progress(worker[w])'
    BY DEF OnTrack
  <1>1. CASE Work(w) \/ Restart(w)
    BY <1>1, StepKinds, BeginProgress, Leaving DEF Rests, MovesOn, Breaks
  <1>2. CASE Surroundings
    BY <1>2, SurroundingsRest DEF OnTrack
  <1> QED
    BY <1>1, <1>2 DEF ApplyNext, OneUpdate

\* Nobody starts halfway.
LEMMA OnTrackInit == ApplyInit => OnTrack
  BY DEF ApplyInit, OnTrack, Working

----------------------------------------------------------------------------
(* Refinement of AtomicInstall. *)

\* While the one worker is at the files, its backup is what the contract sees.
LEMMA SeenWhileWorking ==
    ASSUME OneUpdate, NEW w \in Workers
    PROVE  /\ Working(w) => Visible = worker[w].kept /\ OnRecord = worker[w].old
           /\ Working(w)' => Visible' = worker'[w].kept /\ OnRecord' = worker'[w].old
  <1>1. ASSUME Working(w)
        PROVE  Visible = worker[w].kept /\ OnRecord = worker[w].old
    <2>1. (CHOOSE u \in Workers : Working(u)) = w
      BY <1>1 DEF OneUpdate
    <2> QED
      BY <1>1, <2>1 DEF Visible, OnRecord, AtRest, TheWorker
  <1>2. ASSUME Working(w)'
        PROVE  Visible' = worker'[w].kept /\ OnRecord' = worker'[w].old
    <2>1. ~AtRest'
      BY <1>2 DEF AtRest
    <2>2. (CHOOSE u \in Workers : Working(u)') = w
      BY <1>2 DEF OneUpdate
    <2> QED
      BY <2>1, <2>2 DEF Visible, OnRecord, TheWorker
  <1> QED
    BY <1>1, <1>2

\* Otherwise it sees the files themselves.
LEMMA SeenAtRest ==
    ASSUME OneUpdate, NEW w \in Workers
    PROVE  /\ ~Working(w) => Visible = tree /\ OnRecord = manifest
           /\ ~Working(w)' => Visible' = tree' /\ OnRecord' = manifest'
  <1>1. ~Working(w) => AtRest
    BY DEF OneUpdate, AtRest
  <1>2. ~Working(w)' => AtRest'
    BY DEF OneUpdate, AtRest
  <1> QED
    BY <1>1, <1>2 DEF Visible, OnRecord

\* The files are replaced, for whoever looks, in the step that ends the update.
LEMMA FinishInstalls ==
    ASSUME OneUpdate, ApplyTypeOK, OnTrack, NEW w \in Workers, Finish(w)
    PROVE  Atomic!Install(worker[w].version)
  <1> DEFINE s == worker[w]
  <1>1. Working(w) /\ ~Working(w)'
    BY Leaving
  <1>2. s.pc = "finishing" /\ UNCHANGED <<tree, manifest>> /\ torn' = FALSE
    BY DEF Finish, At
  <1>3. s.todo = {} /\ manifest = s.version
    BY <1>1, <1>2 DEF OnTrack, Progress
  <1>4. \A f \in Files : tree[f] = Atomic!Updated(s.kept, s.version, s.old)[f]
    BY <1>1, <1>2, <1>3 DEF OnTrack, Progress
  <1>5. tree = Atomic!Updated(s.kept, s.version, s.old)
    BY <1>4 DEF ApplyTypeOK, Trees, Atomic!Updated
  <1>6. Visible = s.kept /\ OnRecord = s.old
    BY <1>1, SeenWhileWorking
  <1>7. Visible' = tree /\ OnRecord' = s.version
    BY <1>1, <1>2, <1>3, SeenAtRest
  <1> QED
    BY <1>2, <1>5, <1>6, <1>7 DEF Atomic!Install

\* After a rollback they never were replaced, whatever the manifest says.
LEMMA RollbackRestores ==
    ASSUME OneUpdate, ApplyTypeOK, OnTrack, NEW w \in Workers, RolledBack(w)
    PROVE  Atomic!Misrecord
  <1> DEFINE s == worker[w]
  <1>1. Working(w) /\ ~Working(w)'
    BY Leaving
  <1>2. s.pc = "rolling" /\ s.todo = {} /\ UNCHANGED <<tree, manifest, torn>>
    BY DEF RolledBack, At
  <1>3. s.kept \in Trees
    BY <1>1, WorkingSession DEF Working
  <1>4. tree = s.kept
    BY <1>1, <1>2, <1>3 DEF OnTrack, Progress, ApplyTypeOK, Trees
  <1>5. Visible = s.kept /\ Visible' = tree /\ OnRecord' = manifest
    BY <1>1, <1>2, SeenWhileWorking, SeenAtRest
  <1> QED
    BY <1>2, <1>4, <1>5 DEF Atomic!Misrecord, ApplyTypeOK

\* Each step of the program is a step of the contract or changes nothing in it.
LEMMA StepsAreAtomic ==
    ASSUME OneUpdate, ApplyTypeOK, OnTrack, [ApplyNext]_applyVars
    PROVE  [Atomic!Next]_Atomic!vars
  <1> USE DEF Atomic!vars
  <1>1. ASSUME NEW w \in Workers, Work(w) \/ Restart(w)
        PROVE  [Atomic!Next]_Atomic!vars
    <2>1. CASE Rests(w)
      BY <2>1, SeenAtRest DEF Rests
    <2>2. CASE Begin(w)
      <3>1. ~Working(w) /\ Working(w)' /\ UNCHANGED torn
        <4>1. ~Working(w) /\ UNCHANGED torn
          BY <2>2 DEF Begin, At, Working
        <4>2. Working(w)'
          BY <2>2, BeginSession DEF Working
        <4> QED
          BY <4>1, <4>2
      <3> QED
        BY <2>2, <3>1, BeginSession, SeenAtRest, SeenWhileWorking
    <2>3. CASE MovesOn(w)
      BY <2>3, SeenWhileWorking DEF MovesOn
    <2>4. CASE Finish(w)
      <3>1. worker[w].version \in Versions
        BY <2>4, WorkingSession DEF Finish, At
      <3> QED
        BY <2>4, <3>1, FinishInstalls DEF Atomic!Next
    <2>5. CASE RolledBack(w)
      BY <2>5, RollbackRestores DEF Atomic!Next
    <2>6. CASE Breaks(w)
      <3>1. Visible' = tree /\ OnRecord' = manifest /\ torn' = TRUE
        BY <2>6, SeenAtRest DEF Breaks
      <3> QED
        BY <3>1 DEF Atomic!Next, Atomic!Tear, Atomic!Trees, Trees, ApplyTypeOK
    <2> QED
      BY <1>1, <2>1, <2>2, <2>3, <2>4, <2>5, <2>6, StepKinds
  <1>2. CASE Surroundings
    <2>1. UNCHANGED <<tree, manifest, torn>>
      BY <1>2 DEF Surroundings
    <2>2. CASE \E w \in Workers : Working(w)
      <3> PICK w \in Workers : Working(w)
        BY <2>2
      <3> QED
        BY <1>2, <2>1, SurroundingsRest, SeenWhileWorking
    <2>3. CASE \A w \in Workers : ~Working(w)
      <3>1. AtRest /\ AtRest'
        BY <1>2, <2>3, SurroundingsRest DEF AtRest
      <3> QED
        BY <2>1, <3>1 DEF Visible, OnRecord
    <2> QED
      BY <2>2, <2>3
  <1>3. CASE UNCHANGED applyVars
    BY <1>3 DEF applyVars, Visible, OnRecord, AtRest, TheWorker, Working
  <1> QED
    BY <1>1, <1>2, <1>3 DEF ApplyNext

\* A fresh installation is one of the contract.
LEMMA InitIsAtomic == ApplyInit => Atomic!Init
  <1> SUFFICES ASSUME ApplyInit PROVE Atomic!Init
    OBVIOUS
  <1>1. AtRest
    BY DEF ApplyInit, AtRest, Working
  <1> QED
    BY <1>1 DEF ApplyInit, Atomic!Init, Visible, OnRecord

\* With one update at a time, apply_update.py implements AtomicInstall: whatever
\* fails, an update replaces all its files or none, unless it is cut short.
THEOREM ApplyIsAtomic ==
    ASSUME OneUpdate
    PROVE  ApplySpec => AtomicFiles
  <1>1. ApplyInit => Atomic!Init /\ OnTrack
    BY InitIsAtomic, OnTrackInit
  <1>2. ApplyTypeOK /\ OnTrack /\ [ApplyNext]_applyVars => OnTrack'
    <2> SUFFICES ASSUME ApplyTypeOK, OnTrack, UNCHANGED applyVars PROVE OnTrack'
      BY OnTrackSteps
    <2> QED
      BY DEF applyVars, OnTrack, Progress, Working
  <1>3. ApplyTypeOK /\ OnTrack /\ [ApplyNext]_applyVars => [Atomic!Next]_Atomic!vars
    BY StepsAreAtomic
  <1> QED
    BY <1>1, <1>2, <1>3, ApplyTypeCorrect, PTL DEF ApplySpec, AtomicFiles, Atomic!Spec

\* The contract keeps a tree that was not torn in one version.
LEMMA AtomicKeepsWhole ==
    ASSUME Visible \in Trees, [Atomic!Next]_Atomic!vars, Atomic!WholeUnlessTorn
    PROVE  Atomic!WholeUnlessTorn'
  <1> USE DEF Atomic!WholeUnlessTorn
  <1>1. ASSUME NEW v \in Versions, Atomic!Install(v) PROVE Atomic!OneVersion(Visible)'
    BY <1>1, ReleaseAssumption DEF Atomic!Install, Atomic!Updated, Atomic!OneVersion
  <1>2. CASE Atomic!Misrecord \/ UNCHANGED Atomic!vars
    BY <1>2 DEF Atomic!Misrecord, Atomic!vars, Atomic!OneVersion
  <1>3. CASE Atomic!Tear
    BY <1>3 DEF Atomic!Tear
  <1> QED
    BY <1>1, <1>2, <1>3 DEF Atomic!Next

\* An installation starts as one version.
LEMMA InitIsWhole == ApplyInit => Atomic!WholeUnlessTorn
  <1> SUFFICES ASSUME ApplyInit PROVE Atomic!OneVersion(Visible)
    BY DEF Atomic!WholeUnlessTorn
  <1>1. Visible = tree
    BY DEF ApplyInit, AtRest, Working, Visible
  <1>2. PICK v \in Versions : tree = Atomic!Whole(v)
    BY DEF ApplyInit
  <1> QED
    BY <1>1, <1>2, ReleaseAssumption DEF Atomic!Whole, Atomic!OneVersion

\* What the contract sees is a tree.
LEMMA SeenIsTree ==
    ASSUME OneUpdate, ApplyTypeOK
    PROVE  Visible \in Trees
  <1>1. CASE AtRest
    BY <1>1 DEF Visible, ApplyTypeOK
  <1>2. CASE ~AtRest
    <2> PICK w \in Workers : Working(w)
      BY <1>2 DEF AtRest
    <2> QED
      BY SeenWhileWorking, WorkingSession DEF Working
  <1> QED
    BY <1>1, <1>2

\* With one update at a time, the files that the worker leaves are those of one
\* version, unless it was cut short: the rollback does what it is for.
THEOREM ApplyLeavesWhole ==
    ASSUME OneUpdate
    PROVE  ApplySpec => []WholeAtRest
  <1> DEFINE Inv == ApplyTypeOK /\ OnTrack /\ Atomic!WholeUnlessTorn
  <1>1. ApplyInit => Inv
    BY InitTypes, OnTrackInit, InitIsWhole
  <1>2. Inv /\ [ApplyNext]_applyVars => Inv'
    <2> SUFFICES ASSUME Inv, [ApplyNext]_applyVars PROVE Inv'
      OBVIOUS
    <2>1. Atomic!WholeUnlessTorn'
      BY StepsAreAtomic, AtomicKeepsWhole, SeenIsTree
    <2>2. ApplyTypeOK'
      BY ApplyTypeSteps
    <2>3. OnTrack'
      <3>1. CASE UNCHANGED applyVars
        BY <3>1 DEF applyVars, OnTrack, Progress, Working
      <3> QED
        BY <3>1, OnTrackSteps
    <2> QED
      BY <2>1, <2>2, <2>3
  <1>3. Inv => WholeAtRest
    BY DEF WholeAtRest, Atomic!WholeUnlessTorn, Visible, AtRest
  <1> QED
    BY <1>1, <1>2, <1>3, PTL DEF ApplySpec

----------------------------------------------------------------------------
(* The server. *)

\* A task that goes on is a task.
LEMMA BecomesTypes ==
    ASSUME TypeOK, NEW c \in Tasks, NEW state \in TaskStates, Becomes(c, state),
           state.pc = "downloading" => state.picked \in Versions
    PROVE  /\ task' \in [Tasks -> TaskStates]
           /\ \A d \in Tasks : task'[d].pc = "downloading" => task'[d].picked \in Versions
  BY DEF TypeOK, Becomes

\* The server's part of the state is typed after every step of a task.
LEMMA TaskTypes ==
    ASSUME TypeOK, NEW c \in Tasks,
           AskCheck(c) \/ Enters(c) \/ Leaves(c)
               \/ (\E v \in Versions \cup {None} : AskInstall(c, v))
    PROVE  /\ server' \in {"up", "leaving", "stopping", "down"}
           /\ current' \in Versions
           /\ release' \in Versions \cup {None}
           /\ available' \in BOOLEAN
           /\ available' => release' \in Versions
           /\ beside' \in BOOLEAN
           /\ task' \in [Tasks -> TaskStates]
           /\ \A d \in Tasks : task'[d].pc = "downloading" => task'[d].picked \in Versions
  <1>1. task[c] \in TaskStates
    BY DEF TypeOK
  <1>2. Idle \in TaskStates /\ Idle.pc = "idle"
    BY DEF Idle, TaskStates
  <1>3. \A pc \in {"wantsCheck", "checking", "wantsPrepare"} :
            /\ [task[c] EXCEPT !.pc = pc] \in TaskStates
            /\ [task[c] EXCEPT !.pc = pc].pc = pc
    BY <1>1 DEF TaskStates
  <1>4. CASE AskCheck(c)
    <2> DEFINE state == [Idle EXCEPT !.pc = "wantsCheck"]
    <2>1. state \in TaskStates /\ state.pc = "wantsCheck"
      BY DEF Idle, TaskStates
    <2> HIDE DEF state
    <2> QED
      BY <1>4, <2>1, BecomesTypes DEF AskCheck, TypeOK, state
  <1>5. CASE BeginCheck(c)
    BY <1>3, <1>5, BecomesTypes DEF BeginCheck, TypeOK
  <1>6. CASE CheckFails(c) \/ CheckRaises(c) \/ \E v \in Versions : Found(c, v)
    <2>1. PICK state \in TaskStates : Becomes(c, state) /\ state.pc # "downloading"
      BY <1>2, <1>3, <1>6 DEF CheckFails, CheckRaises, Found, AfterCheck
    <2>2. /\ task' \in [Tasks -> TaskStates]
          /\ \A d \in Tasks : task'[d].pc = "downloading" => task'[d].picked \in Versions
      BY <2>1, BecomesTypes
    <2>3. CASE CheckFails(c)
      BY <2>2, <2>3 DEF CheckFails, TypeOK
    <2>4. ASSUME NEW v \in Versions, Found(c, v)
          PROVE  available' \in BOOLEAN /\ release' = v /\ UNCHANGED <<server, current, beside>>
      BY <2>4 DEF Found, Newer
    <2>5. CASE CheckRaises(c)
      <3>1. UNCHANGED <<server, current, beside>>
        BY <2>5 DEF CheckRaises
      <3>2. CASE \E v \in Versions : release' = v /\ available' = Newer(v)
        BY <2>2, <3>1, <3>2 DEF TypeOK, Newer
      <3>3. CASE UNCHANGED <<release, available>>
        BY <2>2, <3>1, <3>3, Zenon DEF TypeOK
      <3>4. CASE UNCHANGED release /\ available' = FALSE
        BY <2>2, <3>1, <3>4 DEF TypeOK
      <3> QED
        BY <2>5, <3>2, <3>3, <3>4 DEF CheckRaises
    <2> QED
      BY <1>6, <2>2, <2>3, <2>4, <2>5 DEF TypeOK
  <1>7. CASE \E v \in Versions \cup {None} : AskInstall(c, v)
    <2> PICK v \in Versions \cup {None} : AskInstall(c, v)
      BY <1>7
    <2> DEFINE pc == IF release = None \/ ~available THEN "wantsCheck" ELSE "wantsPrepare"
               state == [Idle EXCEPT !.pc = pc, !.installs = TRUE, !.wants = v]
    <2>1. state \in TaskStates /\ state.pc # "downloading"
      BY DEF Idle, TaskStates
    <2>2. Becomes(c, state)
      BY DEF AskInstall
    <2> HIDE DEF state
    <2> QED
      BY <2>1, <2>2, BecomesTypes DEF AskInstall, TypeOK
  <1>8. CASE \/ Refuse(c) \/ InstallFails(c) \/ PrepareRaises(c) \/ LogFails(c)
             \/ \E w \in Workers : Launch(c, w) \/ LaunchRaises(c, w)
    <2> USE DEF Refuse, InstallFails, PrepareRaises, LogFails, Launch, LaunchRaises
    <2>1. Becomes(c, Idle)
      BY <1>8
    <2>2. /\ task' \in [Tasks -> TaskStates]
          /\ \A d \in Tasks : task'[d].pc = "downloading" => task'[d].picked \in Versions
      BY <1>2, <2>1, BecomesTypes
    <2>3. server' \in {server, "leaving"} /\ UNCHANGED <<current, release, beside>>
      BY <1>8 DEF SetTimer
    <2>4. UNCHANGED available \/ available' = FALSE
      BY <1>8
    <2>5. available' \in BOOLEAN /\ (available' => release' \in Versions)
      <3>1. CASE available' = FALSE
        BY <3>1
      <3>2. CASE UNCHANGED available
        BY <2>3, <3>2, Zenon DEF TypeOK
      <3> QED
        BY <2>4, <3>1, <3>2
    <2> QED
      BY <2>2, <2>3, <2>5 DEF TypeOK
  <1>9. CASE Prepare(c)
    <2> DEFINE state == [task[c] EXCEPT !.pc = "downloading", !.picked = release]
    <2>1. release \in Versions
      BY <1>9 DEF Prepare, Refused, TypeOK
    <2>2. state \in TaskStates /\ state.picked = release
      BY <1>1, <2>1 DEF TaskStates
    <2> HIDE DEF state
    <2> QED
      BY <1>9, <2>1, <2>2, BecomesTypes DEF Prepare, TypeOK, state
  <1> QED
    BY <1>4, <1>5, <1>6, <1>7, <1>8, <1>9 DEF Enters, Leaves

\* Whatever a task does, the worker's part of it is as in ApplyUpdate.
LEMMA TasksAreSurroundings ==
    ASSUME TypeOK, NEW c \in Tasks,
           AskCheck(c) \/ Enters(c) \/ Leaves(c)
               \/ (\E v \in Versions \cup {None} : AskInstall(c, v))
    PROVE  Surroundings
  <1> USE DEF Surroundings, applyVars, TypeOK, ApplyTypeOK
  <1>1. CASE AskCheck(c) \/ BeginCheck(c) \/ CheckFails(c) \/ CheckRaises(c) \/ Refuse(c)
    BY <1>1 DEF AskCheck, BeginCheck, CheckFails, CheckRaises, Refuse
  <1>2. CASE (\E v \in Versions : Found(c, v))
             \/ (\E v \in Versions \cup {None} : AskInstall(c, v))
    BY <1>2 DEF Found, AskInstall
  <1>3. CASE Prepare(c) \/ PrepareRaises(c)
    BY <1>3 DEF Prepare, PrepareRaises
  <1>4. CASE InstallFails(c) \/ LogFails(c)
    BY <1>4 DEF InstallFails, LogFails
  <1>5. ASSUME NEW w \in Workers, Launch(c, w) \/ LaunchRaises(c, w) PROVE Surroundings
    BY <1>5 DEF Launch, LaunchRaises
  <1> QED
    BY <1>1, <1>2, <1>3, <1>4, <1>5 DEF Enters, Leaves

\* And so is whatever else the server does.
LEMMA NextIsApplyNext ==
    ASSUME TypeOK, [Next]_vars
    PROVE  [ApplyNext]_applyVars
  <1>1. CASE Shutdown \/ OperatorStarts \/ UNCHANGED vars
    BY <1>1 DEF Shutdown, OperatorStarts, vars
  <1>2. CASE Exit \/ Crash
    BY <1>2 DEF Exit, Crash, Gone, ApplyNext, Surroundings, TypeOK, ApplyTypeOK
  <1>3. ASSUME NEW w \in Workers, WorkerSteps(w) \/ Killed(w) PROVE ApplyNext
    BY <1>3 DEF WorkerSteps, Killed, RestartsServer, RestartFails, ApplyNext, Work
  <1>4. ASSUME NEW c \in Tasks,
               AskCheck(c) \/ Enters(c) \/ Leaves(c)
                   \/ (\E v \in Versions \cup {None} : AskInstall(c, v))
        PROVE  ApplyNext
    BY <1>4, TasksAreSurroundings DEF ApplyNext
  <1> QED
    BY <1>1, <1>2, <1>3, <1>4, TaskAssumption DEF Next, Tasks

\* Everything but the files and the workers after a new process has come up.
LEMMA FreshTypes ==
    ASSUME tree[VersionFile] \in Versions, Fresh
    PROVE  /\ server' \in {"up", "leaving", "stopping", "down"}
           /\ current' \in Versions
           /\ release' \in Versions \cup {None}
           /\ available' \in BOOLEAN
           /\ available' => release' \in Versions
           /\ beside' \in BOOLEAN
           /\ task' \in [Tasks -> TaskStates]
           /\ \A d \in Tasks : task'[d].pc = "downloading" => task'[d].picked \in Versions
  BY DEF Fresh, Idle, TaskStates

----------------------------------------------------------------------------
(* The version file, with any number of workers. *)

\* It always is of some version, in the tree and in every backup.
VersionKnown ==
    /\ tree[VersionFile] \in Versions
    /\ \A w \in Workers : Working(w) => worker[w].kept[VersionFile] \in Versions

\* A worker ends, begins, or goes on from one phase to another, and whatever it
\* does the other workers are as they were.
LEMMA WorkerMoves ==
    ASSUME ApplyTypeOK, NEW w \in Workers, Work(w)
    PROVE  /\ \/ Ends(w) /\ UNCHANGED tree
              \/ Begin(w)
              \/ At(w, "starting") /\ Goto(w, "waiting", {}) /\ UNCHANGED tree
              \/ /\ Working(w)
                 /\ \E phase \in Phases, todo \in SUBSET Files : Goto(w, phase, todo)
           /\ \A u \in Workers \ {w} : worker'[u] = worker[u]
  <1> USE DEF Phases
  <1>1. worker[w] # None => /\ worker[w].todo \in SUBSET Files
                            /\ Touched(worker[w]) \in SUBSET Files
    BY WorkingSession
  <1>2. {} \in SUBSET Files
    OBVIOUS
  <1>3. CASE ReadRequest(w)
    BY <1>3 DEF ReadRequest, Ends, Goto, ApplyTypeOK
  <1>4. CASE GiveUp(w) \/ BackupFails(w) \/ RestoreFails(w) \/ RolledBack(w) \/ Kill(w)
    BY <1>4 DEF GiveUp, BackupFails, RestoreFails, RolledBack, Kill, Ends, ApplyTypeOK
  <1>5. ASSUME Working(w),
               \E phase \in Phases, todo \in SUBSET Files : Goto(w, phase, todo)
        PROVE  \A u \in Workers \ {w} : worker'[u] = worker[u]
    BY <1>5 DEF Goto, ApplyTypeOK
  <1>6. ASSUME NEW f \in Files, Remove(w, f) \/ Copy(w, f) \/ Restore(w, f)
        PROVE  Working(w) /\ \E phase \in Phases, todo \in SUBSET Files : Goto(w, phase, todo)
    <2>1. Working(w) /\ worker[w].todo \ {f} \in SUBSET Files
      BY <1>1, <1>6 DEF Remove, Copy, Restore, At, Working
    <2> QED
      BY <1>6, <2>1 DEF Remove, Copy, Restore
  <1>7. ASSUME ReplaceFails(w) \/ SyncFails(w) \/ RecordFails(w) \/ StateFails(w)
        PROVE  Working(w) /\ \E phase \in Phases, todo \in SUBSET Files : Goto(w, phase, todo)
    BY <1>1, <1>7
       DEF ReplaceFails, SyncFails, RecordFails, StateFails, RollsBack, At, Working
  <1>8. ASSUME Sync(w) \/ RecordManifest(w) \/ Finish(w)
        PROVE  Working(w) /\ \E phase \in Phases, todo \in SUBSET Files : Goto(w, phase, todo)
    BY <1>2, <1>8 DEF Sync, RecordManifest, Finish, At, Working
  <1>9. CASE Begin(w)
    BY <1>9 DEF Begin, ApplyTypeOK
  <1> QED
    BY <1>3, <1>4, <1>5, <1>6, <1>7, <1>8, <1>9 DEF Work, Runs

\* Every version has the version file, so only a copy and a rollback write it.
LEMMA VersionFileWritten ==
    ASSUME ApplyTypeOK, NEW w \in Workers, Work(w)
    PROVE  \/ UNCHANGED tree
           \/ /\ Working(w)
              /\ tree'[VersionFile] \in {tree[VersionFile], worker[w].version,
                                         worker[w].kept[VersionFile]}
  <1>1. tree \in Trees
    BY DEF ApplyTypeOK
  <1>2. ASSUME NEW f \in Files, Remove(w, f)
        PROVE  Working(w) /\ tree'[VersionFile] = tree[VersionFile]
    <2>1. f # VersionFile
      BY <1>2, WorkingSession, ReleaseAssumption DEF Remove, At
    <2> QED
      BY <1>1, <1>2, <2>1 DEF Remove, Trees, At, Working
  <1>3. ASSUME NEW f \in Files, Copy(w, f)
        PROVE  Working(w) /\ tree'[VersionFile] \in {tree[VersionFile], worker[w].version}
    BY <1>1, <1>3 DEF Copy, Trees, At, Working
  <1>4. ASSUME NEW f \in Files, Restore(w, f)
        PROVE  Working(w) /\ tree'[VersionFile] \in {tree[VersionFile],
                                                     worker[w].kept[VersionFile]}
    BY <1>1, <1>4 DEF Restore, Restored, Trees, At, Working
  <1>5. \/ UNCHANGED tree
        \/ \E f \in Files : Remove(w, f) \/ Copy(w, f) \/ Restore(w, f)
    BY DEF Work, Runs, ReadRequest, GiveUp, Begin, BackupFails, ReplaceFails, Sync,
           SyncFails, RecordManifest, RecordFails, Finish, StateFails, RestoreFails,
           RolledBack, Kill
  <1> QED
    BY <1>2, <1>3, <1>4, <1>5

\* A worker that was at the files has the same backup, one that begins has one of
\* the files as they are.
LEMMA BackupsStay ==
    ASSUME ApplyTypeOK, NEW w \in Workers, Work(w), NEW u \in Workers, Working(u)'
    PROVE  \/ Working(u) /\ /\ worker'[u].kept = worker[u].kept
                            /\ worker'[u].version = worker[u].version
           \/ u = w /\ Begin(w)
  <1>1. CASE u # w
    BY <1>1, WorkerMoves DEF Working
  <1>2. CASE u = w /\ Ends(w)
    BY <1>2 DEF Ends, Working, ApplyTypeOK
  <1>3. CASE u = w /\ At(w, "starting") /\ Goto(w, "waiting", {})
    BY <1>3, GoesTo DEF At, Working, Phases
  <1>4. ASSUME u = w, Working(w),
               NEW phase \in Phases, NEW todo \in SUBSET Files, Goto(w, phase, todo)
        PROVE  /\ worker'[w].kept = worker[w].kept
               /\ worker'[w].version = worker[w].version
    BY <1>4, GoesTo DEF Working
  <1> QED
    BY <1>1, <1>2, <1>3, <1>4, WorkerMoves

\* The version file is known after every step of worker and server.
LEMMA KnownSteps ==
    ASSUME ApplyTypeOK, VersionKnown, [ApplyNext]_applyVars
    PROVE  VersionKnown'
  <1> USE DEF VersionKnown
  <1>1. ASSUME NEW w \in Workers, Work(w)
        PROVE  VersionKnown'
    <2>1. tree'[VersionFile] \in Versions
      BY <1>1, VersionFileWritten, WorkingSession DEF Working
    <2>2. ASSUME NEW u \in Workers, Working(u)'
          PROVE  worker'[u].kept[VersionFile] \in Versions
      <3>1. CASE Begin(w) /\ u = w
        BY <3>1, BeginSession
      <3> QED
        BY <1>1, <2>2, <3>1, BackupsStay
    <2> QED
      BY <2>1, <2>2
  <1>2. ASSUME NEW w \in Workers, Restart(w)
        PROVE  VersionKnown'
    BY <1>2 DEF Restart, Ends, Working, ApplyTypeOK
  <1>3. CASE Surroundings
    BY <1>3, SurroundingsRest DEF Surroundings
  <1>4. CASE UNCHANGED applyVars
    BY <1>4 DEF applyVars, Working
  <1> QED
    BY <1>1, <1>2, <1>3, <1>4 DEF ApplyNext

\* Types are kept by every step; that the version file always is of some version
\* is what a fresh server needs.
LEMMA TypeSteps ==
    ASSUME TypeOK, VersionKnown, [Next]_vars
    PROVE  TypeOK'
  <1>1. ApplyTypeOK'
    BY NextIsApplyNext, ApplyTypeSteps DEF TypeOK
  <1>2. ASSUME NEW c \in Tasks,
               AskCheck(c) \/ Enters(c) \/ Leaves(c)
                   \/ (\E v \in Versions \cup {None} : AskInstall(c, v))
        PROVE  TypeOK'
    BY <1>1, <1>2, TaskTypes DEF TypeOK
  <1>3. CASE Fresh
    BY <1>1, <1>3, FreshTypes DEF TypeOK, VersionKnown
  <1>4. CASE Gone
    BY <1>1, <1>4 DEF Gone, TypeOK, Idle, TaskStates
  <1>5. CASE Shutdown
    BY <1>1, <1>5 DEF Shutdown, TypeOK
  <1>6. CASE UNCHANGED serverVars
    BY <1>1, <1>6 DEF serverVars, TypeOK
  <1>7. ASSUME NEW w \in Workers, WorkerSteps(w) \/ Killed(w)
        PROVE  Fresh \/ UNCHANGED serverVars
    BY <1>7 DEF WorkerSteps, Killed, RestartsServer, RestartFails
  <1>8. CASE UNCHANGED vars
    BY <1>6, <1>8 DEF vars
  <1> QED
    BY <1>2, <1>3, <1>4, <1>5, <1>6, <1>7, <1>8, TaskAssumption
    DEF Next, Exit, Crash, OperatorStarts, Tasks

\* What an installation starts with.
LEMMA InitKnown == Init => TypeOK /\ VersionKnown
  <1> SUFFICES ASSUME Init PROVE TypeOK /\ VersionKnown
    OBVIOUS
  <1>1. ApplyTypeOK
    BY InitTypes DEF Init
  <1>2. PICK v \in Versions : tree = Atomic!Whole(v)
    BY DEF Init, ApplyInit
  <1>3. tree[VersionFile] = v
    BY <1>2, ReleaseAssumption DEF Atomic!Whole
  <1>4. TypeOK
    BY <1>1, <1>3 DEF Init, TypeOK, Idle, TaskStates
  <1> QED
    BY <1>3, <1>4 DEF Init, ApplyInit, VersionKnown, Working

\* Both hold in every state of the updater.
LEMMA AlwaysKnown == Spec => [](TypeOK /\ VersionKnown)
  <1>1. TypeOK /\ VersionKnown /\ [Next]_vars => (TypeOK /\ VersionKnown)'
    BY TypeSteps, KnownSteps, NextIsApplyNext DEF TypeOK
  <1> QED
    BY <1>1, InitKnown, PTL DEF Spec

\* The updater's state is typed with any number of updates under way: what a
\* server imports is always some version, whatever was done to the files before
\* it came up, and what is available or being staged is the release of an answer.
THEOREM TypeCorrect == Spec => []TypeOK
  BY AlwaysKnown, PTL

\* Server, pages and operator drive any number of workers as ApplyUpdate assumes,
\* so that what is proved of its workers holds of those that the server starts.
THEOREM DrivesWorkers == Spec => ApplySpec
  <1>1. Init => ApplyInit
    BY DEF Init
  <1>2. TypeOK /\ [Next]_vars => [ApplyNext]_applyVars
    BY NextIsApplyNext
  <1> QED
    BY <1>1, <1>2, TypeCorrect, PTL DEF Spec, ApplySpec

----------------------------------------------------------------------------
(* What a task is entitled to. *)

\* What is available and what is being staged is newer than what runs, and what is
\* being staged is what a client confirmed.
TasksAhead ==
    /\ available => release > current
    /\ \A c \in Tasks :
        /\ task[c].pc = "downloading" => /\ task[c].picked > current
                                        /\ task[c].wants \in {None, task[c].picked}
        /\ task[c].pc \in {"wantsPrepare", "downloading"} => task[c].installs
        /\ task[c].installs => c \in Clients

\* The steps of a task: it goes on to a state in which it is as entitled as before.
LEMMA BecomesAhead ==
    ASSUME TypeOK, TasksAhead, NEW c \in Tasks, NEW state \in TaskStates,
           Becomes(c, state), UNCHANGED current, available' => release' > current,
           state.pc = "downloading" => /\ state.picked > current
                                       /\ state.wants \in {None, state.picked},
           state.pc \in {"wantsPrepare", "downloading"} => state.installs,
           state.installs => c \in Clients
    PROVE  TasksAhead'
  <1> SUFFICES ASSUME NEW d \in Tasks
               PROVE  /\ task'[d].pc = "downloading" =>
                            /\ task'[d].picked > current
                            /\ task'[d].wants \in {None, task'[d].picked}
                      /\ task'[d].pc \in {"wantsPrepare", "downloading"} => task'[d].installs
                      /\ task'[d].installs => d \in Clients
    BY DEF TasksAhead
  <1>1. task'[d] = IF d = c THEN state ELSE task[d]
    BY DEF Becomes, TypeOK
  <1>2. CASE d = c
    BY <1>1, <1>2
  <1>3. CASE d # c
    BY <1>1, <1>3 DEF TasksAhead
  <1> QED
    BY <1>2, <1>3

\* A task that is idle again is entitled to nothing.
LEMMA IdleAhead ==
    ASSUME TypeOK, TasksAhead, NEW c \in Tasks, Becomes(c, Idle),
           UNCHANGED current, available' => release' > current
    PROVE  TasksAhead'
  <1>1. Idle \in TaskStates /\ Idle.pc = "idle" /\ ~Idle.installs
    BY DEF Idle, TaskStates
  <1> QED
    BY <1>1, BecomesAhead

\* A task's step entitles it to no more than the checks under the lock allow.
LEMMA TaskStepAhead ==
    ASSUME TypeOK, TasksAhead, NEW c \in Tasks,
           \/ AskCheck(c) \/ Enters(c) \/ Leaves(c)
           \/ c \in Clients /\ \E v \in Versions \cup {None} : AskInstall(c, v)
    PROVE  TasksAhead'
  <1>1. task[c] \in TaskStates
    BY DEF TypeOK
  <1>2. \A pc \in {"wantsCheck", "checking", "wantsPrepare"} :
            /\ [task[c] EXCEPT !.pc = pc] \in TaskStates
            /\ [task[c] EXCEPT !.pc = pc].pc = pc
            /\ [task[c] EXCEPT !.pc = pc].installs = task[c].installs
    BY <1>1 DEF TaskStates
  <1>3. task[c].installs => c \in Clients
    BY DEF TasksAhead
  <1>4. CASE AskCheck(c)
    <2> DEFINE state == [Idle EXCEPT !.pc = "wantsCheck"]
    <2>1. state \in TaskStates /\ state.pc = "wantsCheck" /\ ~state.installs
      BY DEF Idle, TaskStates
    <2>2. Becomes(c, state) /\ UNCHANGED <<current, release, available>>
      BY <1>4 DEF AskCheck
    <2> HIDE DEF state
    <2> QED
      BY <2>1, <2>2, BecomesAhead DEF TasksAhead
  <1>5. CASE BeginCheck(c)
    <2> DEFINE state == [task[c] EXCEPT !.pc = "checking"]
    <2>1. state \in TaskStates /\ state.pc = "checking" /\ (state.installs => c \in Clients)
      BY <1>2, <1>3
    <2>2. Becomes(c, state) /\ UNCHANGED <<current, release, available>>
      BY <1>5 DEF BeginCheck
    <2> HIDE DEF state
    <2> QED
      BY <2>1, <2>2, BecomesAhead DEF TasksAhead
  <1>6. CASE CheckFails(c) \/ \E v \in Versions : Found(c, v)
    <2>1. UNCHANGED current /\ (available' => release' > current)
      BY <1>6 DEF CheckFails, Found, Newer
    <2>2. AfterCheck(c)
      BY <1>6 DEF CheckFails, Found
    <2>3. CASE task[c].installs
      <3> DEFINE state == [task[c] EXCEPT !.pc = "wantsPrepare"]
      <3>1. state \in TaskStates /\ state.pc = "wantsPrepare" /\ state.installs
        BY <1>2, <2>3
      <3>2. Becomes(c, state)
        BY <2>2, <2>3 DEF AfterCheck
      <3> HIDE DEF state
      <3> QED
        BY <1>3, <2>1, <2>3, <3>1, <3>2, BecomesAhead
    <2>4. CASE ~task[c].installs
      BY <2>1, <2>2, <2>4, IdleAhead DEF AfterCheck
    <2> QED
      BY <2>3, <2>4
  <1>7. CASE c \in Clients /\ \E v \in Versions \cup {None} : AskInstall(c, v)
    <2> PICK v \in Versions \cup {None} : AskInstall(c, v)
      BY <1>7
    <2> DEFINE pc == IF release = None \/ ~available THEN "wantsCheck" ELSE "wantsPrepare"
               state == [Idle EXCEPT !.pc = pc, !.installs = TRUE, !.wants = v]
    <2>1. state \in TaskStates /\ state.pc # "downloading" /\ state.installs
      BY DEF Idle, TaskStates
    <2>2. Becomes(c, state) /\ UNCHANGED <<current, release, available>>
      BY DEF AskInstall
    <2> HIDE DEF state
    <2> QED
      BY <1>7, <2>1, <2>2, BecomesAhead DEF TasksAhead
  <1>8. CASE \/ Refuse(c) \/ InstallFails(c) \/ PrepareRaises(c) \/ LogFails(c)
             \/ \E w \in Workers : Launch(c, w) \/ LaunchRaises(c, w)
    <2> USE DEF Refuse, InstallFails, PrepareRaises, LogFails, Launch, LaunchRaises
    <2>1. Becomes(c, Idle) /\ UNCHANGED <<current, release>>
      BY <1>8
    <2>2. available' => available
      BY <1>8
    <2> QED
      BY <2>1, <2>2, IdleAhead DEF TasksAhead
  <1>9. CASE Prepare(c)
    <2> DEFINE state == [task[c] EXCEPT !.pc = "downloading", !.picked = release]
    <2>1. /\ release \in Versions /\ release > current
          /\ task[c].wants \in {None, release} /\ task[c].installs
      BY <1>9 DEF Prepare, Refused, TypeOK, TasksAhead
    <2>2. /\ state \in TaskStates /\ state.picked = release
          /\ state.wants = task[c].wants /\ state.installs = task[c].installs
      BY <1>1, <2>1 DEF TaskStates
    <2>3. Becomes(c, state) /\ UNCHANGED <<current, release, available>>
      BY <1>9 DEF Prepare
    <2> HIDE DEF state
    <2> QED
      BY <1>3, <2>1, <2>2, <2>3, BecomesAhead DEF TasksAhead
  <1>10. CASE CheckRaises(c)
    <2>1. Becomes(c, Idle) /\ UNCHANGED current
      BY <1>10 DEF CheckRaises
    <2>2. available' => release' > current
      BY <1>10 DEF CheckRaises, Newer, TasksAhead
    <2> QED
      BY <2>1, <2>2, IdleAhead
  <1> QED
    BY <1>4, <1>5, <1>6, <1>7, <1>8, <1>9, <1>10 DEF Enters, Leaves

\* A server that goes or comes has no tasks; the rest is up to the tasks.
LEMMA TasksSteps ==
    ASSUME TypeOK, TasksAhead, [Next]_vars
    PROVE  TasksAhead'
  <1>1. CASE UNCHANGED serverVars
    BY <1>1 DEF serverVars, TasksAhead
  <1>2. CASE UNCHANGED vars
    BY <1>1, <1>2 DEF vars
  <1>3. CASE Gone \/ Fresh
    <2>1. available' = FALSE /\ \A c \in Tasks : task'[c] = Idle
      BY <1>3 DEF Gone, Fresh
    <2>2. Idle.pc = "idle" /\ Idle.installs = FALSE
      BY DEF Idle
    <2> QED
      BY <2>1, <2>2 DEF TasksAhead
  <1>4. CASE Shutdown
    BY <1>4 DEF Shutdown, TasksAhead
  <1>5. ASSUME NEW w \in Workers, WorkerSteps(w) \/ Killed(w)
        PROVE  Fresh \/ UNCHANGED serverVars
    BY <1>5 DEF WorkerSteps, Killed, RestartsServer, RestartFails
  <1>6. ASSUME NEW c \in Tasks,
               \/ AskCheck(c) \/ Enters(c) \/ Leaves(c)
               \/ c \in Clients /\ \E v \in Versions \cup {None} : AskInstall(c, v)
        PROVE  TasksAhead'
    BY <1>6, TaskStepAhead
  <1> QED
    BY <1>1, <1>2, <1>3, <1>4, <1>5, <1>6, TaskAssumption
    DEF Next, Exit, Crash, OperatorStarts, Tasks

LEMMA AlwaysEntitled == Spec => []TasksAhead
  <1>1. Init => TasksAhead
    BY DEF Init, TasksAhead, Idle
  <1>2. TypeOK /\ TasksAhead /\ [Next]_vars => TasksAhead'
    BY TasksSteps
  <1> QED
    BY <1>1, <1>2, TypeCorrect, PTL DEF Spec

----------------------------------------------------------------------------
(* Versions only go up, unless a server was started halfway an update. *)

\* Of the workers that still may write: what they install is newer than what runs,
\* they leave the files alone while a server runs, and their backups are not older
\* than what runs.
WorkersAhead ==
    \A w \in Workers : UnderWay(w) =>
        /\ worker[w].version > current
        /\ server # "down" => worker[w].pc \in {"starting", "waiting"} /\ ~worker[w].orphan
        /\ Working(w) => worker[w].kept[VersionFile] >= current

\* Of the files: the server runs the version they say, or an older one is gone.
FilesAhead ==
    /\ tree[VersionFile] >= current
    /\ server # "down" => current = tree[VersionFile]

\* A server that was started beside a worker is exempt until the next one comes.
Ahead == beside \/ (WorkersAhead /\ FilesAhead)

\* The steps of a task start workers that are ahead, and change nothing else here.
LEMMA TaskStepWorkers ==
    ASSUME TypeOK, TasksAhead, Ahead, NEW c \in Tasks,
           AskCheck(c) \/ Enters(c) \/ Leaves(c)
               \/ (\E v \in Versions \cup {None} : AskInstall(c, v))
    PROVE  Ahead' /\ UNCHANGED <<current, tree, manifest>>
  <1> USE DEF Ahead
  <1>1. ASSUME UNCHANGED <<tree, worker, server, current, beside>>
        PROVE  Ahead'
    BY <1>1 DEF WorkersAhead, FilesAhead, Working, UnderWay
  <1>2. ASSUME NEW w \in Workers, Launch(c, w) \/ LaunchRaises(c, w)
        PROVE  Ahead' /\ UNCHANGED <<current, tree, manifest>>
    <2>1. /\ server # "down" /\ server' # "down"
          /\ UNCHANGED <<tree, manifest, current, beside>>
          /\ task[c].picked > current
      BY <1>2 DEF Launch, LaunchRaises, SetTimer, TasksAhead
    <2>2. \A u \in Workers \ {w} : worker'[u] = worker[u]
      BY <1>2 DEF Launch, LaunchRaises, Spawn, TypeOK, ApplyTypeOK
    <2>3. /\ worker'[w].pc = "starting" /\ worker'[w].version = task[c].picked
          /\ ~worker'[w].orphan
      BY <1>2 DEF Launch, LaunchRaises, Spawn, TypeOK, ApplyTypeOK
    <2> QED
      BY <2>1, <2>2, <2>3 DEF WorkersAhead, FilesAhead, Working, UnderWay
  <1> QED
    BY <1>1, <1>2
    DEF Enters, Leaves, AskCheck, BeginCheck, CheckFails, CheckRaises, Found, AskInstall,
        Refuse, Prepare, PrepareRaises, InstallFails, LogFails, applyVars

\* A server that ends takes its tasks with it, and its workers may begin.
LEMMA GoneAhead ==
    ASSUME TypeOK, Ahead, Gone
    PROVE  Ahead' /\ UNCHANGED <<current, tree, manifest>>
  <1> USE DEF Ahead
  <1>1. UNCHANGED <<tree, manifest, current, beside>> /\ server' = "down"
    BY DEF Gone
  <1>2. ASSUME NEW w \in Workers, UnderWay(w)', WorkersAhead
        PROVE  /\ worker'[w].version > current
               /\ Working(w)' => worker'[w].kept[VersionFile] >= current
    <2> DEFINE t == [worker[w] EXCEPT !.orphan = TRUE]
    <2>1. worker[w] # None /\ worker'[w] = t
      BY <1>2 DEF Gone, Orphan, UnderWay
    <2>2. t.version = worker[w].version /\ t.pc = worker[w].pc /\ t.kept = worker[w].kept
      BY <2>1, WorkingSession DEF TypeOK, Sessions
    <2> HIDE DEF t
    <2> QED
      BY <1>2, <2>1, <2>2 DEF WorkersAhead, Working, UnderWay
  <1> QED
    BY <1>1, <1>2 DEF WorkersAhead, FilesAhead

\* A fresh server runs the version on disk; unless some worker still may write, it
\* is not beside any.
LEMMA FreshAhead ==
    ASSUME TypeOK, VersionKnown, Ahead, Fresh, UNCHANGED <<tree, manifest>>,
           \A w \in Workers : UnderWay(w)' => UnderWay(w)
    PROVE  Ahead' /\ (beside \/ current' >= current)
  <1>1. /\ current' = tree[VersionFile] /\ tree'[VersionFile] = tree[VersionFile]
        /\ tree[VersionFile] \in Nat
    BY ReleaseAssumption DEF Fresh, VersionKnown
  <1>2. FilesAhead'
    BY <1>1 DEF FilesAhead
  <1>3. beside' \/ WorkersAhead'
    BY DEF Fresh, WorkersAhead
  <1> QED
    BY <1>1, <1>2, <1>3 DEF Ahead, FilesAhead

\* The worker's steps keep the versions in order, and leave the files alone while a
\* server runs.
LEMMA WorkAhead ==
    ASSUME TypeOK, VersionKnown, WorkersAhead, FilesAhead, NEW w \in Workers, Work(w),
           UNCHANGED <<server, current>>
    PROVE  /\ WorkersAhead' /\ FilesAhead'
           /\ server # "down" => UNCHANGED <<tree, manifest>>
  <1>1. ApplyTypeOK
    BY DEF TypeOK
  <1>2. Working(w) => UnderWay(w) /\ server = "down"
    BY DEF Working, UnderWay, WorkersAhead
  <1>3. FilesAhead'
    <2>1. CASE UNCHANGED tree
      BY <2>1 DEF FilesAhead
    <2>2. CASE /\ Working(w)
               /\ tree'[VersionFile] \in {tree[VersionFile], worker[w].version,
                                          worker[w].kept[VersionFile]}
      <3>1. worker[w].version \in Nat /\ current \in Nat
        BY <1>1, <2>2, WorkingSession, ReleaseAssumption DEF Working, TypeOK
      <3>2. worker[w].version > current /\ worker[w].kept[VersionFile] >= current
        BY <1>2, <2>2 DEF WorkersAhead
      <3>3. tree'[VersionFile] >= current
        BY <2>2, <3>1, <3>2 DEF FilesAhead
      <3> QED
        BY <1>2, <2>2, <3>3 DEF FilesAhead
    <2> QED
      BY <1>1, <2>1, <2>2, VersionFileWritten
  <1>4. ASSUME NEW u \in Workers, UnderWay(u)'
        PROVE  /\ UnderWay(u) /\ worker'[u].version = worker[u].version
               /\ server # "down" => worker'[u].pc \in {"starting", "waiting"}
                                     /\ ~worker'[u].orphan
    <2>1. CASE u # w
      BY <1>1, <1>4, <2>1, WorkerMoves DEF UnderWay, WorkersAhead
    <2>2. CASE u = w /\ Ends(w)
      BY <1>1, <1>4, <2>2 DEF Ends, UnderWay, ApplyTypeOK
    <2>3. CASE u = w /\ Begin(w)
      BY <1>1, <2>3, BeginSession DEF Begin, At, UnderWay, WorkersAhead
    <2>4. CASE u = w /\ At(w, "starting") /\ Goto(w, "waiting", {})
      BY <1>1, <2>4, GoesTo DEF At, UnderWay, Phases, WorkersAhead
    <2>5. ASSUME u = w, Working(w),
                 NEW phase \in Phases, NEW todo \in SUBSET Files, Goto(w, phase, todo)
          PROVE  UnderWay(w) /\ worker'[w].version = worker[w].version /\ server = "down"
      BY <1>1, <1>2, <2>5, GoesTo DEF Working
    <2> QED
      BY <1>1, <2>1, <2>2, <2>3, <2>4, <2>5, WorkerMoves
  <1>5. ASSUME NEW u \in Workers, Working(u)'
        PROVE  worker'[u].kept[VersionFile] >= current
    <2>1. CASE Working(u) /\ worker'[u].kept = worker[u].kept
      BY <2>1 DEF Working, UnderWay, WorkersAhead
    <2>2. CASE u = w /\ Begin(w)
      BY <1>1, <2>2, BeginSession DEF FilesAhead
    <2> QED
      BY <1>1, <1>5, <2>1, <2>2, BackupsStay
  <1>6. WorkersAhead'
    BY <1>4, <1>5 DEF WorkersAhead
  <1>7. server # "down" => UNCHANGED <<tree, manifest>>
    <2>1. CASE Working(w)
      BY <1>2, <2>1
    <2>2. CASE ~Working(w)
      <3>1. UNCHANGED tree
        BY <1>1, <2>2, VersionFileWritten
      <3>2. UNCHANGED manifest
        BY <2>2 DEF Work, Runs, ReadRequest, GiveUp, Begin, BackupFails, Remove, Copy,
           ReplaceFails, Sync, SyncFails, RecordManifest, RecordFails, Finish, StateFails,
           Restore, RestoreFails, RolledBack, Kill, At, Working
      <3> QED
        BY <3>1, <3>2
    <2> QED
      BY <2>1, <2>2
  <1> QED
    BY <1>3, <1>6, <1>7

\* The order of versions is kept by every step, no step lowers what runs, and the
\* files of a running server stay; but for a server beside a worker.
LEMMA AheadSteps ==
    ASSUME TypeOK, VersionKnown, TasksAhead, Ahead, [Next]_vars
    PROVE  /\ Ahead'
           /\ server' # "down" => beside \/ current' >= current
           /\ server # "down" /\ ~beside => UNCHANGED <<tree, manifest>>
  <1>0. current \in Nat
    BY ReleaseAssumption DEF TypeOK
  <1>1. ASSUME NEW c \in Tasks, AskCheck(c) \/ Enters(c) \/ Leaves(c)
               \/ (\E v \in Versions \cup {None} : AskInstall(c, v))
        PROVE  Ahead' /\ UNCHANGED <<current, tree, manifest>>
    BY <1>1, TaskStepWorkers
  <1>2. ASSUME NEW w \in Workers, Work(w), UNCHANGED serverVars
        PROVE  /\ Ahead' /\ UNCHANGED current
               /\ server # "down" /\ ~beside => UNCHANGED <<tree, manifest>>
    BY <1>2, WorkAhead DEF serverVars, Ahead
  <1>3. ASSUME NEW w \in Workers, RestartsServer(w) \/ RestartFails(w)
        PROVE  /\ Ahead' /\ (beside \/ current' >= current)
               /\ UNCHANGED <<tree, manifest>>
    <2>1. /\ ~UnderWay(w) /\ UNCHANGED <<tree, manifest>>
          /\ \A u \in Workers : UnderWay(u)' => /\ UnderWay(u) /\ worker'[u] = worker[u]
      BY <1>3 DEF RestartsServer, RestartFails, Restart, At, Ends, UnderWay, TypeOK, ApplyTypeOK
    <2>2. CASE Fresh
      BY <2>1, <2>2, FreshAhead
    <2>3. CASE UNCHANGED serverVars
      BY <1>0, <2>1, <2>3 DEF serverVars, Ahead, WorkersAhead, FilesAhead, Working
    <2> QED
      BY <1>3, <2>1, <2>2, <2>3 DEF RestartsServer, RestartFails
  <1>4. CASE Exit \/ Crash
    BY <1>0, <1>4, GoneAhead DEF Exit, Crash
  <1>5. CASE OperatorStarts
    <2>1. Fresh /\ UNCHANGED <<tree, manifest, worker>> /\ server = "down"
      BY <1>5 DEF OperatorStarts, applyVars
    <2>2. \A w \in Workers : UnderWay(w)' => UnderWay(w)
      BY <2>1 DEF UnderWay
    <2> QED
      BY <2>1, <2>2, FreshAhead
  <1>6. CASE Shutdown \/ UNCHANGED vars
    <2>1. /\ UNCHANGED <<tree, manifest, worker, current, beside>>
          /\ server # "down" <=> server' # "down"
      BY <1>6 DEF Shutdown, vars, applyVars, serverVars
    <2> QED
      BY <1>0, <2>1 DEF Ahead, WorkersAhead, FilesAhead, Working, UnderWay
  <1> QED
    BY <1>0, <1>1, <1>2, <1>3, <1>4, <1>5, <1>6, TaskAssumption
    DEF Next, WorkerSteps, Killed, Tasks, Work

LEMMA AlwaysAhead == Spec => []Ahead
  <1>1. Init => Ahead
    <2> SUFFICES ASSUME Init PROVE WorkersAhead /\ FilesAhead
      BY DEF Ahead
    <2>1. tree[VersionFile] \in Nat /\ current = tree[VersionFile]
      BY InitKnown, ReleaseAssumption DEF Init, VersionKnown
    <2> QED
      BY <2>1 DEF Init, ApplyInit, WorkersAhead, FilesAhead, UnderWay
  <1>2. TypeOK /\ VersionKnown /\ TasksAhead /\ Ahead /\ [Next]_vars => Ahead'
    BY AheadSteps
  <1> QED
    BY <1>1, <1>2, AlwaysKnown, AlwaysEntitled, PTL DEF Spec

\* A server runs the version that its files say.
RunsItsVersion == server = "down" \/ beside \/ current = tree[VersionFile]

\* While it runs nothing replaces them.
KeepsFiles == [][server # "down" /\ ~beside => UNCHANGED <<tree, manifest>>]_vars

\* With any number of updates under way and whatever fails, a running server has
\* the version it imported on disk, and no worker writes a file under it, nor the
\* manifest; unless it was started while a worker was at its update.
THEOREM ServerKeepsFiles == Spec => []RunsItsVersion /\ KeepsFiles
  <1>1. Ahead => RunsItsVersion
    BY DEF Ahead, FilesAhead, RunsItsVersion
  <1>2. TypeOK /\ VersionKnown /\ TasksAhead /\ Ahead /\ [Next]_vars
            => [server # "down" /\ ~beside => UNCHANGED <<tree, manifest>>]_vars
    BY AheadSteps
  <1> QED
    BY <1>1, <1>2, AlwaysAhead, AlwaysKnown, AlwaysEntitled, PTL DEF Spec, KeepsFiles

\* No step brings an older version up, with any number of updates under way, unless
\* the earlier server was started halfway an update.
THEOREM OnlyForward == Spec => RunsForward
  <1>1. TypeOK /\ VersionKnown /\ TasksAhead /\ Ahead /\ [Next]_vars
            => [server' # "down" => beside \/ current' >= current]_vars
    BY AheadSteps
  <1> QED
    BY <1>1, AlwaysAhead, AlwaysKnown, AlwaysEntitled, PTL DEF Spec, RunsForward

\* However many workers there are and whichever servers started them: one starts
\* only for a version newer than the running one, on offer, and confirmed by the
\* client whose install this ends.
THEOREM InstallsConfirmed == Spec => InstallsWhatWasAsked
  <1> DEFINE Confirmed == \A w \in Workers : worker[w] = None /\ worker'[w] # None =>
                /\ worker'[w].version > current
                /\ \E c \in Clients : /\ task[c].installs /\ task'[c] = Idle
                                      /\ task[c].wants \in {None, worker'[w].version}
  <1>1. TypeOK /\ TasksAhead /\ [Next]_vars => [Confirmed]_vars
    <2> SUFFICES ASSUME TypeOK, TasksAhead, Next, NEW w \in Workers,
                        worker[w] = None, worker'[w] # None
                 PROVE  /\ worker'[w].version > current
                        /\ \E c \in Clients : /\ task[c].installs /\ task'[c] = Idle
                                              /\ task[c].wants \in {None, worker'[w].version}
      BY DEF Confirmed
    <2>1. ASSUME NEW c \in Tasks, NEW u \in Workers, Launch(c, u) \/ LaunchRaises(c, u)
          PROVE  /\ worker'[w].version > current
                 /\ c \in Clients /\ task[c].installs /\ task'[c] = Idle
                 /\ task[c].wants \in {None, worker'[w].version}
      <3>1. u = w
        BY <2>1 DEF Launch, LaunchRaises, Spawn, TypeOK, ApplyTypeOK
      <3>2. worker'[w].version = task[c].picked /\ task'[c] = Idle
        BY <2>1, <3>1 DEF Launch, LaunchRaises, Spawn, Becomes, TypeOK, ApplyTypeOK
      <3> QED
        BY <2>1, <3>2 DEF Launch, LaunchRaises, TasksAhead
    <2>2. \E c \in Tasks, u \in Workers : Launch(c, u) \/ LaunchRaises(c, u)
      <3>1. CASE UNCHANGED worker
        BY <3>1
      <3>2. ~Gone
        BY DEF Gone, Orphan
      <3>3. ASSUME NEW u \in Workers, WorkerSteps(u) \/ Killed(u)
            PROVE  FALSE
        <4>1. CASE u = w
          BY <3>3, <4>1 DEF WorkerSteps, Killed, RestartsServer, RestartFails, Restart, Runs,
             ReadRequest, GiveUp, Begin, BackupFails, Remove, Copy, ReplaceFails, Sync,
             SyncFails, RecordManifest, RecordFails, Finish, StateFails, Restore,
             RestoreFails, RolledBack, Kill, At
        <4>2. CASE u # w /\ Work(u)
          BY <4>2, WorkerMoves DEF TypeOK
        <4>3. CASE u # w /\ Restart(u)
          BY <4>3 DEF Restart, Ends, TypeOK, ApplyTypeOK
        <4> QED
          BY <3>3, <4>1, <4>2, <4>3 DEF WorkerSteps, Killed, RestartsServer, RestartFails, Work
      <3>4. Shutdown \/ OperatorStarts => UNCHANGED worker
        BY DEF Shutdown, OperatorStarts, applyVars
      <3>5. ASSUME NEW c \in Tasks,
                   \/ AskCheck(c) \/ Enters(c) \/ Leaves(c)
                   \/ \E v \in Versions \cup {None} : AskInstall(c, v)
            PROVE  \/ UNCHANGED worker
                   \/ \E u \in Workers : Launch(c, u) \/ LaunchRaises(c, u)
        BY <3>5 DEF Enters, Leaves, AskCheck, BeginCheck, CheckFails, CheckRaises, Found,
                    AskInstall, Refuse, Prepare, PrepareRaises, InstallFails, LogFails, applyVars
      <3> QED
        BY <3>1, <3>2, <3>3, <3>4, <3>5, TaskAssumption DEF Next, Exit, Crash, Tasks
    <2> QED
      BY <2>1, <2>2
  <1> QED
    BY <1>1, TypeCorrect, AlwaysEntitled, PTL DEF Spec, InstallsWhatWasAsked

----------------------------------------------------------------------------
(* The lock, with any number of workers. *)

Holds(c) == task[c].pc \in {"checking", "downloading"}

\* What is being staged is the release of the last answer: available, newer than
\* what runs, and what the client confirmed.
StagesRelease(c) ==
    task[c].pc = "downloading" =>
        /\ available /\ release > current
        /\ task[c].picked = release
        /\ task[c].wants \in {None, release}

\* Only one task at a time checks or stages, and what it stages is still on offer.
OneReleaseAtATime ==
    /\ \A c, d \in Tasks : Holds(c) /\ Holds(d) => c = d
    /\ \A c \in Tasks : StagesRelease(c)

\* With the types that this needs, and the same of the release that is on offer.
Orderly ==
    /\ task \in [Tasks -> TaskStates]
    /\ release \in Versions \cup {None}
    /\ available => release > current
    /\ OneReleaseAtATime

\* A step of one task, which enters a free lock or leaves the lock it holds.
LEMMA TaskOrderly ==
    ASSUME Orderly, NEW c \in Tasks, NEW state \in TaskStates, Becomes(c, state),
           UNCHANGED current, release' \in Versions \cup {None},
           available' => release' > current',
           \/ UNCHANGED <<release, available>>
           \/ Holds(c) /\ state.pc # "downloading",
           \/ state.pc \notin {"checking", "downloading"}
           \/ ~Locked,
           state.pc = "downloading" =>
               available /\ state.picked = release /\ state.wants \in {None, release}
    PROVE  Orderly'
  <1>1. /\ task' \in [Tasks -> TaskStates] /\ task'[c] = state
        /\ \A d \in Tasks \ {c} : task'[d] = task[d]
    BY DEF Orderly, Becomes
  <1>2. ASSUME NEW d \in Tasks, NEW e \in Tasks, Holds(d)', Holds(e)'
        PROVE  d = e
    <2>1. CASE d # c /\ e # c
      BY <1>1, <1>2, <2>1 DEF Orderly, OneReleaseAtATime, Holds
    <2>2. CASE d = c /\ e # c
      <3>1. ~Locked /\ Holds(e)
        BY <1>1, <1>2, <2>2 DEF Holds
      <3> QED
        BY <3>1 DEF Locked, Holds
    <2>3. CASE d # c /\ e = c
      <3>1. ~Locked /\ Holds(d)
        BY <1>1, <1>2, <2>3 DEF Holds
      <3> QED
        BY <3>1 DEF Locked, Holds
    <2> QED
      BY <2>1, <2>2, <2>3
  <1>3. ASSUME NEW d \in Tasks
        PROVE  StagesRelease(d)'
    <2>1. CASE d = c
      <3>1. CASE UNCHANGED <<release, available>>
        BY <1>1, <2>1, <3>1 DEF StagesRelease
      <3>2. CASE state.pc # "downloading"
        BY <1>1, <2>1, <3>2 DEF StagesRelease
      <3> QED
        BY <3>1, <3>2
    <2>2. CASE d # c
      <3>1. CASE UNCHANGED <<release, available>>
        BY <1>1, <2>2, <3>1 DEF StagesRelease, Orderly, OneReleaseAtATime
      <3>2. CASE Holds(c)
        <4>1. ~Holds(d)
          BY <2>2, <3>2 DEF Orderly, OneReleaseAtATime
        <4> QED
          BY <1>1, <2>2, <4>1 DEF StagesRelease, Holds
      <3> QED
        BY <3>1, <3>2
    <2> QED
      BY <2>1, <2>2
  <1> QED
    BY <1>1, <1>2, <1>3 DEF Orderly, OneReleaseAtATime

LEMMA TaskStepsOrderly ==
    ASSUME Orderly, NEW c \in Tasks,
           AskCheck(c) \/ Enters(c) \/ Leaves(c)
               \/ (\E v \in Versions \cup {None} : AskInstall(c, v))
    PROVE  Orderly'
  <1>0. /\ task[c] \in TaskStates /\ release \in Versions \cup {None}
        /\ available => release > current
    BY DEF Orderly
  <1>1. Idle \in TaskStates /\ Idle.pc = "idle"
    BY DEF Idle, TaskStates
  <1>2. \A pc \in {"wantsCheck", "checking", "wantsPrepare"} :
            /\ [task[c] EXCEPT !.pc = pc] \in TaskStates
            /\ [task[c] EXCEPT !.pc = pc].pc = pc
    BY <1>0 DEF TaskStates
  <1>3. CASE AskCheck(c)
    <2>1. [Idle EXCEPT !.pc = "wantsCheck"] \in TaskStates
          /\ [Idle EXCEPT !.pc = "wantsCheck"].pc = "wantsCheck"
      BY DEF Idle, TaskStates
    <2> QED
      BY <1>0, <1>3, <2>1, TaskOrderly DEF AskCheck
  <1>4. CASE BeginCheck(c)
    BY <1>0, <1>2, <1>4, TaskOrderly DEF BeginCheck
  <1>5. ASSUME NEW state \in TaskStates, Becomes(c, state), UNCHANGED current,
               release' \in Versions \cup {None},
               available' => release' > current, task[c].pc \in {"checking", "downloading"},
               state.pc \notin {"checking", "downloading"}
        PROVE  Orderly'
    <2>1. Holds(c)
      BY <1>5 DEF Holds
    <2> QED
      BY <1>5, <2>1, TaskOrderly
  <1>6. ASSUME AfterCheck(c)
        PROVE  \E state \in TaskStates :
                    Becomes(c, state) /\ state.pc \notin {"checking", "downloading"}
    BY <1>1, <1>2, <1>6 DEF AfterCheck
  <1>7. ASSUME NEW v \in Versions, Found(c, v)
        PROVE  Orderly'
    BY <1>5, <1>6, <1>7 DEF Found, Newer
  <1>8. CASE CheckFails(c)
    BY <1>0, <1>5, <1>6, <1>8 DEF CheckFails
  <1>9. CASE InstallFails(c) \/ LogFails(c)
    BY <1>0, <1>1, <1>5, <1>9 DEF InstallFails, LogFails
  <1>10. ASSUME NEW w \in Workers, Launch(c, w) \/ LaunchRaises(c, w)
         PROVE  Orderly'
    BY <1>0, <1>1, <1>5, <1>10 DEF Launch, LaunchRaises
  <1>11. CASE Refuse(c) \/ PrepareRaises(c)
    BY <1>0, <1>1, <1>11, TaskOrderly DEF Refuse, PrepareRaises
  <1>12. CASE Prepare(c)
    <2> DEFINE state == [task[c] EXCEPT !.pc = "downloading", !.picked = release]
    <2>1. ~Locked /\ available /\ release # None /\ task[c].wants \in {None, release}
      BY <1>12 DEF Prepare, Refused
    <2>2. state \in TaskStates /\ state.pc = "downloading" /\ state.picked = release
          /\ state.wants = task[c].wants
      BY <1>0 DEF TaskStates
    <2>3. Becomes(c, state) /\ UNCHANGED <<current, release, available>>
      BY <1>12 DEF Prepare
    <2> HIDE DEF state
    <2> QED
      BY <1>0, <2>1, <2>2, <2>3, TaskOrderly
  <1>13. ASSUME NEW v \in Versions \cup {None}, AskInstall(c, v)
         PROVE  Orderly'
    <2> DEFINE pc == IF release = None \/ ~available THEN "wantsCheck" ELSE "wantsPrepare"
               state == [Idle EXCEPT !.pc = pc, !.installs = TRUE, !.wants = v]
    <2>1. state \in TaskStates /\ state.pc \in {"wantsCheck", "wantsPrepare"}
      BY DEF Idle, TaskStates
    <2>2. Becomes(c, state) /\ UNCHANGED <<current, release, available>>
      BY <1>13 DEF AskInstall
    <2> HIDE DEF state
    <2> QED
      BY <1>0, <2>1, <2>2, TaskOrderly
  <1>14. CASE CheckRaises(c)
    <2>1. /\ Becomes(c, Idle) /\ UNCHANGED current
          /\ task[c].pc \in {"checking", "downloading"}
      BY <1>14 DEF CheckRaises
    <2>2. /\ release' \in Versions \cup {None}
          /\ available' => release' > current
      <3>1. CASE \E v \in Versions : release' = v /\ available' = Newer(v)
        BY <2>1, <3>1 DEF Newer
      <3>2. CASE UNCHANGED <<release, available>>
        BY <1>0, <2>1, <3>2
      <3>3. CASE UNCHANGED release /\ available' = FALSE
        BY <1>0, <3>3
      <3> QED
        BY <1>14, <3>1, <3>2, <3>3, Zenon DEF CheckRaises
    <2> QED
      BY <1>1, <1>5, <2>1, <2>2
  <1> QED
    BY <1>3, <1>4, <1>7, <1>8, <1>9, <1>10, <1>11, <1>12, <1>13, <1>14 DEF Enters, Leaves

\* A process that ends, or begins, has no tasks.
LEMMA NobodyOrderly ==
    ASSUME task' = [c \in Tasks |-> Idle], available' = FALSE, release' \in Versions \cup {None}
    PROVE  Orderly'
  BY DEF Orderly, OneReleaseAtATime, StagesRelease, Holds, Idle, TaskStates

LEMMA StepOrderly == Orderly /\ [Next]_vars => Orderly'
  <1> SUFFICES ASSUME Orderly, [Next]_vars PROVE Orderly'
    OBVIOUS
  <1>1. CASE UNCHANGED serverVars
    BY <1>1 DEF serverVars, Orderly, OneReleaseAtATime, StagesRelease, Holds
  <1>2. CASE UNCHANGED vars
    BY <1>1, <1>2 DEF vars
  <1>3. CASE Gone \/ Fresh
    BY <1>3, NobodyOrderly DEF Gone, Fresh
  <1>4. CASE Shutdown
    BY <1>4 DEF Shutdown, Orderly, OneReleaseAtATime, StagesRelease, Holds
  <1>5. ASSUME NEW w \in Workers, WorkerSteps(w) \/ Killed(w)
        PROVE  Orderly'
    BY <1>1, <1>3, <1>5 DEF WorkerSteps, Killed, RestartsServer, RestartFails
  <1>6. ASSUME NEW c \in Tasks,
               AskCheck(c) \/ Enters(c) \/ Leaves(c)
                   \/ (\E v \in Versions \cup {None} : AskInstall(c, v))
        PROVE  Orderly'
    BY <1>6, TaskStepsOrderly
  <1> QED
    BY <1>2, <1>3, <1>4, <1>5, <1>6, TaskAssumption DEF Next, Exit, Crash, OperatorStarts, Tasks

\* However many workers there are: a check and a staging, or two stagings, never
\* overlap, though an install takes the lock twice; and what is staged is, from its
\* choice to the start of the worker, the release that the status offers.
THEOREM StagingIsExclusive == Spec => []OneReleaseAtATime
  <1>1. Init => Orderly
    BY DEF Init, Orderly, OneReleaseAtATime, StagesRelease, Holds, Idle, TaskStates
  <1>2. Orderly /\ [Next]_vars => Orderly'
    BY StepOrderly
  <1>3. Orderly => OneReleaseAtATime
    BY DEF Orderly
  <1> QED
    BY <1>1, <1>2, <1>3, PTL DEF Spec

=============================================================================
