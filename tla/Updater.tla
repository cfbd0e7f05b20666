------------------------------ MODULE Updater ------------------------------
(***************************************************************************)
(* The updater in the server (app/updater/manager.py), the server's        *)
(* shutdown (app/serve.py) and the update worker (ApplyUpdate).            *)
(*                                                                         *)
(* One asyncio.Lock covers a check, and the download and staging of an     *)
(* install; an install that has no release yet does a check first, outside *)
(* the lock, and takes the lock again.  When a release is staged the       *)
(* worker is started and the shutdown timer set, without a suspension in   *)
(* between.  The server goes on answering until the timer runs and until   *)
(* its open requests have ended or five seconds have passed.               *)
(*                                                                         *)
(* The release site may answer any version at any time, and the operator   *)
(* may start the server whenever there is none, also while a worker is at  *)
(* the files.                                                              *)
(***************************************************************************)
EXTENDS ApplyUpdate

CONSTANTS
    Checkers,  \* tasks that only check: the periodic one, a page's check
    Clients,   \* pages that ask for installs
    Confirms   \* what they ask for: a version that the page shows, None for a
               \* request without one

VARIABLES
    server,     \* "up", "leaving" (timer set), "stopping", "down"
    current,    \* __version__ of the process: app/version.py as it was imported
    release,    \* _release
    available,  \* status.update_available
    task,       \* the check or install each task is at
    beside      \* the process was started while a worker was at its update (no
                \* variable of the code: it only tells such a process apart)

serverVars == <<server, current, release, available, task, beside>>
vars == <<applyVars, serverVars>>

Tasks == Checkers \cup Clients

\* wants is the expected_version of an install, picked the release that
\* prepare_install reads once it has the lock.
TaskStates ==
    [pc : {"idle", "wantsCheck", "checking", "wantsPrepare", "downloading"},
     installs : BOOLEAN, wants : Versions \cup {None}, picked : Versions \cup {None}]

Idle == [pc |-> "idle", installs |-> FALSE, wants |-> None, picked |-> None]

ASSUME TaskAssumption ==
    /\ Checkers \cap Clients = {}
    /\ Confirms \subseteq Versions \cup {None}

TypeOK ==
    /\ ApplyTypeOK
    /\ server \in {"up", "leaving", "stopping", "down"}
    /\ current \in Versions
    /\ release \in Versions \cup {None}
    /\ available \in BOOLEAN
    /\ available => release \in Versions
    /\ task \in [Tasks -> TaskStates]
    /\ beside \in BOOLEAN
    /\ \A c \in Tasks : task[c].pc = "downloading" => task[c].picked \in Versions

\* A worker that still may write files.
UnderWay(w) == worker[w] # None /\ worker[w].pc # "restarting"

\* What a fresh process has: it imports what is there.
Fresh ==
    /\ server' = "up"
    /\ current' = tree[VersionFile]
    /\ release' = None
    /\ available' = FALSE
    /\ task' = [c \in Tasks |-> Idle]
    /\ beside' = \E w \in Workers : UnderWay(w)

Init ==
    /\ ApplyInit
    /\ server = "up"
    /\ current = tree[VersionFile]
    /\ release = None
    /\ available = FALSE
    /\ task = [c \in Tasks |-> Idle]
    /\ beside = FALSE

Serving == server \in {"up", "leaving"}

\* Mutant: an install does its check with the lock already taken.
Locked_ByInstall ==
    \E c \in Tasks : task[c].pc \in
        {"checking", "downloading"} \cup (IF task[c].installs THEN {"wantsCheck"} ELSE {})

\* The lock is held.
Locked == \E c \in Tasks : task[c].pc \in {"checking", "downloading"}

Becomes(c, state) == task' = [task EXCEPT ![c] = state]

----------------------------------------------------------------------------
(* Checks. *)

AskCheck(c) ==
    /\ Serving
    /\ task[c] = Idle
    /\ Becomes(c, [Idle EXCEPT !.pc = "wantsCheck"])
    /\ UNCHANGED <<applyVars, server, current, release, available, beside>>

BeginCheck(c) ==
    /\ server # "down"
    /\ task[c].pc = "wantsCheck"
    /\ ~Locked
    /\ Becomes(c, [task[c] EXCEPT !.pc = "checking"])
    /\ UNCHANGED <<applyVars, server, current, release, available, beside>>

\* Mutant: an install goes on as if it had looked at what was found.
AfterCheck_Staged(c) ==
    Becomes(c, IF task[c].installs THEN [task[c] EXCEPT !.pc = "downloading"] ELSE Idle)

\* An install goes on to the preparation, a check is over.
AfterCheck(c) ==
    Becomes(c, IF task[c].installs THEN [task[c] EXCEPT !.pc = "wantsPrepare"] ELSE Idle)

\* Mutant: any other version will do.
Newer_Other(v) == v # current

Newer(v) == v > current

Found(c, v) ==
    /\ server # "down"
    /\ task[c].pc = "checking"
    /\ release' = v
    /\ available' = Newer(v)
    /\ AfterCheck(c)
    /\ UNCHANGED <<applyVars, server, current, beside>>

\* _set_error: no answer, or a release that cannot be used.
CheckFails(c) ==
    /\ server # "down"
    /\ task[c].pc = "checking"
    /\ available' = FALSE
    /\ AfterCheck(c)
    /\ UNCHANGED <<applyVars, server, current, release, beside>>

\* An error that check does not catch: a status file that cannot be written,
\* after a release was found or after another error, or an answer of another
\* shape.  The check ends, and the install that asked for it.
CheckRaises(c) ==
    /\ "raise" \in Faults
    /\ server # "down"
    /\ task[c].pc = "checking"
    /\ \/ \E v \in Versions : release' = v /\ available' = Newer(v)
       \/ available' \in {available, FALSE} /\ UNCHANGED release
    /\ Becomes(c, Idle)
    /\ UNCHANGED <<applyVars, server, current, beside>>

----------------------------------------------------------------------------
(* Installs. *)

\* The page confirms the version it shows, which may be any it was told of; a
\* request without a version takes what there is.
AskInstall(c, v) ==
    /\ Serving
    /\ task[c] = Idle
    /\ Becomes(c, [Idle EXCEPT
            !.pc = IF release = None \/ ~available THEN "wantsCheck" ELSE "wantsPrepare",
            !.installs = TRUE, !.wants = v])
    /\ UNCHANGED <<applyVars, server, current, release, available, beside>>

\* Mutant: the confirmed version is not looked at.
Refused_AnyVersion(c) == release = None \/ ~available

\* Under the lock: is there a release, and is it the one that was confirmed?
Refused(c) ==
    \/ release = None \/ ~available
    \/ task[c].wants \notin {None, release}

Refuse(c) ==
    /\ server # "down"
    /\ task[c].pc = "wantsPrepare"
    /\ ~Locked
    /\ Refused(c)
    /\ Becomes(c, Idle)
    /\ UNCHANGED <<applyVars, server, current, release, available, beside>>

\* What an earlier attempt staged is removed, also from under its worker.
Prepare(c) ==
    /\ server # "down"
    /\ task[c].pc = "wantsPrepare"
    /\ ~Locked
    /\ ~Refused(c)
    /\ Becomes(c, [task[c] EXCEPT !.pc = "downloading", !.picked = release])
    /\ ready' = ready \ {release}
    /\ UNCHANGED <<tree, manifest, worker, torn, server, current, release, available, beside>>

\* The old directory cannot be removed, or the new one made: outside the try, so
\* that the release stays on offer.
PrepareRaises(c) ==
    /\ "raise" \in Faults
    /\ server # "down"
    /\ task[c].pc = "wantsPrepare"
    /\ ~Locked
    /\ ~Refused(c)
    /\ ready' \in {ready, ready \ {release}}
    /\ Becomes(c, Idle)
    /\ UNCHANGED <<tree, manifest, worker, torn, server, current, release, available, beside>>

\* A failure of the download, the checksum, the archive, the staging, or of the
\* start of the worker, which leaves the release staged.
InstallFails(c) ==
    /\ server # "down"
    /\ task[c].pc = "downloading"
    /\ ready' \in {ready, ready \cup {task[c].picked}}
    /\ available' = FALSE
    /\ Becomes(c, Idle)
    /\ UNCHANGED <<tree, manifest, worker, torn, server, current, release, beside>>

\* call_later(0.75, shutdown_callback)
SetTimer == server' = IF server = "up" THEN "leaving" ELSE server

\* The release is staged and the worker started.
Launch(c, w) ==
    /\ server # "down"
    /\ task[c].pc = "downloading"
    /\ ready' = ready \cup {task[c].picked}
    /\ Spawn(w, task[c].picked)
    /\ SetTimer
    /\ Becomes(c, Idle)
    /\ UNCHANGED <<tree, manifest, torn, current, release, available, beside>>

\* The worker's log cannot be opened: all is staged and still on offer.
LogFails(c) ==
    /\ "raise" \in Faults
    /\ server # "down"
    /\ task[c].pc = "downloading"
    /\ ready' = ready \cup {task[c].picked}
    /\ Becomes(c, Idle)
    /\ UNCHANGED <<tree, manifest, worker, torn, server, current, release, available, beside>>

\* The worker is started and the status cannot be written: the error comes before
\* the timer is set, and the worker waits for a server that nobody told to go.
LaunchRaises(c, w) ==
    /\ "raise" \in Faults
    /\ server # "down"
    /\ task[c].pc = "downloading"
    /\ ready' = ready \cup {task[c].picked}
    /\ Spawn(w, task[c].picked)
    /\ Becomes(c, Idle)
    /\ UNCHANGED <<tree, manifest, torn, server, current, release, available, beside>>

----------------------------------------------------------------------------
(* The server's process. *)

\* request_shutdown: no new requests from here on.
Shutdown ==
    /\ server = "leaving"
    /\ server' = "stopping"
    /\ UNCHANGED <<applyVars, current, release, available, task, beside>>

\* The process ends: requests that are still open are dropped.
Gone ==
    /\ server' = "down"
    /\ release' = None
    /\ available' = FALSE
    /\ task' = [c \in Tasks |-> Idle]
    /\ Orphan
    /\ UNCHANGED <<tree, manifest, ready, torn, current, beside>>

Exit == server = "stopping" /\ Gone

\* The operator stops it, or it crashes.
Crash == server \in {"up", "leaving"} /\ Gone

\* restart_app, when another server has not got the port already.
RestartsServer(w) ==
    /\ Restart(w)
    /\ IF server = "down" THEN Fresh ELSE UNCHANGED serverVars

\* app.serve does not come up.
RestartFails(w) ==
    /\ "restart" \in Faults
    /\ Restart(w)
    /\ UNCHANGED serverVars

\* The operator starts it (docs/TROUBLESHOOTING.md:152): nothing looks whether a
\* worker is under way.
OperatorStarts ==
    /\ server = "down"
    /\ Fresh
    /\ UNCHANGED applyVars

----------------------------------------------------------------------------
WorkerSteps(w) ==
    \/ Runs(w) /\ UNCHANGED serverVars
    \/ RestartsServer(w) \/ RestartFails(w)

Killed(w) == Kill(w) /\ UNCHANGED serverVars

\* The task waits for the lock, and has its turn.
Enters(c) == BeginCheck(c) \/ Refuse(c) \/ Prepare(c) \/ PrepareRaises(c)

\* It holds the lock, and is answered.
Leaves(c) ==
    \/ CheckFails(c) \/ CheckRaises(c) \/ InstallFails(c) \/ LogFails(c)
    \/ \E v \in Versions : Found(c, v)
    \/ \E w \in Workers : Launch(c, w) \/ LaunchRaises(c, w)

Next ==
    \/ \E c \in Checkers : AskCheck(c)
    \/ \E c \in Clients, v \in Confirms : AskInstall(c, v)
    \/ \E c \in Tasks : Enters(c) \/ Leaves(c)
    \/ Shutdown \/ Exit \/ Crash \/ OperatorStarts
    \/ \E w \in Workers : WorkerSteps(w) \/ Killed(w)

Spec == Init /\ [][Next]_vars

\* The lock wakes its waiters in the order they came; whoever holds it gets an
\* answer or a timeout (update_timeout_seconds); the timer runs and the shutdown is
\* bounded (timeout_graceful_shutdown); a worker is a process of its own, which need not be
\* killed.
FairSpec ==
    /\ Spec
    /\ \A c \in Tasks : SF_vars(Enters(c))
    /\ WF_vars(\E c \in Tasks : Leaves(c))
    /\ WF_vars(Shutdown \/ Exit)
    /\ \A w \in Workers : WF_vars(WorkerSteps(w))

----------------------------------------------------------------------------
(* Properties. *)

\* The files of a running server are, all of them, of the version that it
\* imported: nothing replaces them under it ("coordinates graceful shutdown",
\* docs/ARCHITECTURE.md:61).  A tree that was cut short is what it found, and a
\* server that is started while a worker is at its update has them changed.
RunsOneVersion ==
    server = "down" \/ beside \/ torn
    \/ /\ current = tree[VersionFile]
       /\ Atomic!OneVersion(tree)

\* From one server to the next the version never goes down, whatever the site
\* says, whatever is asked for and whatever fails; unless the earlier one was
\* started halfway an update, which then was rolled back.
RunsForward == [][server' # "down" => beside \/ current' >= current]_vars

\* A worker is only ever started for a version that was available, newer than
\* the running one, and the one its client had confirmed.
InstallsWhatWasAsked ==
    [][\A w \in Workers : worker[w] = None /\ worker'[w] # None =>
        /\ worker'[w].version > current
        /\ \E c \in Clients : /\ task[c].installs /\ task'[c] = Idle
                              /\ task[c].wants \in {None, worker'[w].version}]_vars

\* Every check and every install that a page or the timer asks for is answered,
\* or ends with its server: the lock that an install takes twice is never waited
\* for by its holder.
RequestsAnswered == \A c \in Tasks : task[c].pc # "idle" ~> task[c].pc = "idle"

\* Every worker ends, though nobody watches it: also the one whose server never
\* was told to go because the status could not be written once it had started,
\* and the one whose staged files are removed from under it.
WorkersEnd == \A w \in Workers : worker[w] # None ~> worker[w] = None

=============================================================================
