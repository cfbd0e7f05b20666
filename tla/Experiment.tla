----------------------------- MODULE Experiment -----------------------------
(***************************************************************************)
(* The experiment on disk: the authority's key and epoch, the memory files *)
(* with their ledger, the database; and the process that writes them.      *)
(*                                                                         *)
(* A memory is a file, then an entry of the ledger, then a row; a reset    *)
(* rotates the epoch, clears the tables one by one, unlinks the files and  *)
(* creates a world; a start reads what the last process left.  Each write  *)
(* is an action, so that the process may end, or a write fail, between any *)
(* two of them.  Worlds, epochs and keys are numbered in the order of      *)
(* their creation and 0 stands for none: `world` is a run_id with its      *)
(* world_generation_id, which are always drawn and compared together.      *)
(* Pausing is left to Engine.                                              *)
(***************************************************************************)
EXTENDS Naturals, FiniteSets

CONSTANTS
    Topics,             \* what a memory says; two about one topic are near duplicates
    Ticks,              \* the values of sim_time a memory is written at
    Rounded,            \* what :.3f leaves of them
    MaxLedger,          \* MAX_LEDGER_ENTRIES
    WorldExhaustsScan,  \* the world alone uses up the budget of state_contains_proofs
    Faults,             \* of "storage", "ledger", "epoch" and "key"
    MaxResets, MaxCrashes, MaxMemories, MaxFaults,  \* bounds
    None

ASSUME DataAssumption ==
    /\ Rounded \in [Ticks -> Ticks]
    /\ MaxLedger \in Nat \ {0}
    /\ WorldExhaustsScan \in BOOLEAN
    /\ Faults \subseteq {"storage", "ledger", "epoch", "key"}

ASSUME BoundAssumption == {MaxResets, MaxCrashes, MaxMemories, MaxFaults} \subseteq Nat

VARIABLES
    keyFile, epochFile,         \* the authority's files
    files,                      \* the memories that list_records reads
    ledger,                     \* memory-proofs.json
    rows, event,                \* the table memories, and the newest row of events
    saved, snapshot,            \* metadata current_state, a row of snapshots
    migrated,                   \* metadata memory_integrity_version
    stage,                      \* where the process is in its start or in a reset
    key, world,                 \* _ari_integrity_key; run_id and world_generation_id
    agent,                      \* what attach_key left on it, and whose proofs it carries
    writes,                     \* memory_writes
    asked,                      \* the authority that a waiting consolidation has taken
    job,                        \* the memories being written
    failed,                     \* how many reads and writes have failed, or keys got lost
    count,                      \* how many worlds, epochs, keys, memories, resets, crashes
    ended,                      \* the newest world ended by a rotation, if saved with an epoch
    torn,                       \* a failed write left something that no code repairs
    unsaved,                    \* the process runs what it loaded and failed to save
    replaced                    \* a key was made although a snapshot has proofs by another

disk == <<keyFile, epochFile>>
vault == <<files, ledger>>
database == <<rows, event, saved, snapshot, migrated>>
process == <<stage, key, world, agent, writes>>
work == <<asked, job>>
history == <<ended, torn, unsaved, replaced>>
vars == <<disk, vault, database, process, work, failed, count, history>>

Memories == [id : Nat, topic : Topics, time : Ticks, origin : Nat]
Contents == [id : Nat, topic : Topics, time : Ticks]
Digests == [key : Nat, epoch : Nat, world : Nat, content : Contents]
Proofs == [id : Nat, epoch : Nat, world : Nat, proof : Digests]
Images == [world : Nat, epoch : Nat, provers : SUBSET Nat, writes : SUBSET Memories]
Agents == [epoch : Nat, world : Nat, provers : SUBSET Nat]
Contexts == [key : Nat, epoch : Nat, world : Nat]
Jobs == [phase : {"writing", "sealing", "listing"}, key : Nat, epoch : Nat,
         world : Nat, left : Nat, memory : Memories \cup {None}, sealed : SUBSET Memories]
Counts == [world : Nat, epoch : Nat, key : Nat, memory : Nat, reset : Nat, crash : Nat]
Stages == {"down", "events", "snapshots", "memories", "state", "vault",
           "naming", "creating", "saving", "idle"}

ASSUME NoneAssumption ==
    None \notin Memories \cup Images \cup Agents \cup Contexts \cup Jobs

-----------------------------------------------------------------------------
(* The authority. *)

\* authority_context: an agent without a key has none.
Authority(k, e) == IF k = 0 THEN 0 ELSE e

\* record_payload: there is nothing to seal without a context.
HasPayload(k, e) == Authority(k, e) # 0

\* seal_record, on what an agent carries: the keys of its proofs.
SealRecord(provers, k, e) == IF HasPayload(k, e) THEN provers \cup {k} ELSE provers

\* seal_deterministic_starters: whatever else it carries, the starters are sealed again
\* by the key at hand.
SealStarters(provers, k, e) == IF k = 0 THEN provers ELSE SealRecord(provers, k, e)

\* current_epoch_id: what cannot be read counts as none.
LiveEpoch(readable) == IF readable THEN epochFile' ELSE 0

\* sign_event: what an event carries must be the agent's own context.
Signable == key # 0 /\ agent.epoch = epochFile /\ agent.world = world

\* _record stamps the world and the epoch of now; add_finalized_event inserts the row
\* and finalizes it, with its identifier, in one transaction.
Event == [world |-> world, signable |-> Signable]
Record == event' = Event

\* The file as list_records reads it: vault.write formats time and importance.
Stored(m) == [m EXCEPT !.time = Rounded[m.time]]

\* _memory_projection: what of a memory is digested.
Content(m) == [id |-> m.id, topic |-> m.topic, time |-> m.time]

\* _digest of the payload, whose fields are the context and the content; no two agree
\* unless all that goes into them does.
Digest(k, e, w, content) == [key |-> k, epoch |-> e, world |-> w, content |-> content]

ProofOf(m, k, e, w) ==
    [id |-> m.id, epoch |-> e, world |-> w, proof |-> Digest(k, e, w, Content(m))]

\* verify_memory_record on what the file says now.
Verified(f, k, e, w) == k # 0 /\ e # 0 /\ ProofOf(f, k, e, w) \in ledger

Accepted == {f \in files : Verified(f, key, agent.epoch, agent.world)}

\* What _load_memory_ledger, the new entry and _write_memory_ledger leave: entries are
\* sorted by random identifiers, so the one that a full ledger drops may be any.
Appended(p) ==
    IF Cardinality(ledger) < MaxLedger THEN {ledger \cup {p}}
    ELSE {(ledger \ {x}) \cup {p} : x \in ledger}

\* state_contains_proofs on what the last process saved.
NoticesProofs(image) ==
    image # None /\ image.provers # {} /\ ~WorldExhaustsScan

\* A read or a write that goes wrong, or a key that gets lost.
Fault(kind) == kind \in Faults /\ failed < MaxFaults /\ failed' = failed + 1

-----------------------------------------------------------------------------
(* The process. *)

Image == [world |-> world, epoch |-> epochFile, provers |-> agent.provers, writes |-> writes]

\* Mutant: the epoch of a saved state is not compared.
Restorable_AnyEpoch(image, live) == image # None

\* A state saved without an epoch is from before there were epochs, or from a process
\* that could not read it.
Restorable(image, live) == image # None /\ image.epoch \in {0, live}

\* Mutant: the agent is attached to the epoch it was saved under.
RestoreFrom_StoredEpoch(image, k, live) ==
    /\ world' = image.world
    /\ agent' = [epoch |-> Authority(k, image.epoch), world |-> image.world,
                 provers |-> SealStarters(image.provers, k, live)]
    /\ writes' = image.writes

\* _restore
RestoreFrom(image, k, live) ==
    /\ world' = image.world
    /\ agent' = [epoch |-> Authority(k, live), world |-> image.world,
                 provers |-> SealStarters(image.provers, k, live)]
    /\ writes' = image.writes

Halted ==
    /\ stage' = "down" /\ key' = 0 /\ world' = 0 /\ agent' = None /\ writes' = {}
    /\ asked' = None /\ job' = None

\* A fresh install, or one from before memories were sealed.
Init ==
    /\ keyFile = 0 /\ epochFile = 0 /\ ledger = {} /\ event = None /\ snapshot = None
    /\ \/ files = {} /\ saved = None
       \/ /\ files \in {{[id |-> 0, topic |-> t, time |-> i, origin |-> 1]} :
                            t \in Topics, i \in {Rounded[j] : j \in Ticks}}
          /\ saved = [world |-> 1, epoch |-> 0, provers |-> {}, writes |-> {}]
    /\ rows = files
    /\ migrated = FALSE
    /\ stage = "down" /\ key = 0 /\ world = 0 /\ agent = None /\ writes = {}
    /\ asked = None /\ job = None
    /\ count = [world |-> 1, epoch |-> 0, key |-> 0, memory |-> 0, reset |-> 0, crash |-> 0]
    /\ failed = 0
    /\ ended = 0
    /\ torn = FALSE /\ unsaved = FALSE /\ replaced = FALSE

\* A consolidation may be waiting, but nothing is being written.
Idle == stage = "idle" /\ job = None

-----------------------------------------------------------------------------
(* Starting. *)

\* _migrate_memory_integrity: unsealed memories are moved away, then forgotten.
Quarantine(f) ==
    /\ stage = "down" /\ ~migrated
    /\ files' = files \ {f}
    /\ UNCHANGED <<disk, ledger, database, process, work, failed, count, history>>

Migrate ==
    /\ stage = "down" /\ ~migrated /\ files = {}
    /\ rows' = {}
    /\ migrated' = TRUE
    /\ UNCHANGED <<disk, vault, event, saved, snapshot, process, work, failed, count,
                   history>>

\* load_or_create_key.  A key that is missing under proofs stays missing, a key file that
\* cannot be read is left alone, and an epoch that exists and cannot be read leaves the
\* process without a key.
LoadKey(legible, readable) ==
    LET kept == ~legible \/ (keyFile = 0 /\ NoticesProofs(saved))
        fresh == keyFile = 0 /\ ~kept
        born == epochFile = 0 /\ ~kept
    IN  /\ keyFile' = IF fresh THEN count.key + 1 ELSE keyFile
        /\ epochFile' = IF born THEN count.epoch + 1 ELSE epochFile
        /\ count' = [count EXCEPT !.key = IF fresh THEN @ + 1 ELSE @,
                                  !.epoch = IF born THEN @ + 1 ELSE @]
        /\ key' = IF kept \/ ~readable THEN 0 ELSE keyFile'

\* SimulationEngine.__init__: resume what was saved, or go on to create a world.
Boot(legible, readable) ==
    /\ stage = "down" /\ migrated
    /\ \/ legible /\ readable /\ UNCHANGED failed
       \/ ~legible /\ readable /\ keyFile # 0 /\ Fault("key")
       \/ legible /\ ~readable /\ epochFile # 0 /\ Fault("epoch")
    /\ LoadKey(legible, readable)
    /\ LET live == LiveEpoch(readable) IN
       \/ /\ Restorable(saved, live)
          /\ RestoreFrom(saved, key', live)
          /\ stage' = "idle"
          /\ event' = [world |-> world', signable |-> key' # 0 /\ agent'.epoch = epochFile']
       \/ /\ ~Restorable(saved, live)
          /\ stage' = "naming"
          /\ UNCHANGED <<world, agent, writes, event>>
    /\ replaced' = (replaced \/ (keyFile' # keyFile /\ snapshot # None /\ snapshot.provers # {}))
    /\ UNCHANGED <<vault, rows, saved, snapshot, migrated, work, ended, torn, unsaved>>

-----------------------------------------------------------------------------
(* Reset, and the creation of a world that it shares with a start. *)

\* rotate_authority_epoch does nothing without a key.
Reset ==
    /\ Idle
    /\ count.reset < MaxResets
    /\ IF key = 0
       THEN /\ count' = [count EXCEPT !.reset = @ + 1]
            /\ UNCHANGED <<epochFile, ended>>
       ELSE /\ count' = [count EXCEPT !.reset = @ + 1, !.epoch = @ + 1]
            /\ epochFile' = count.epoch + 1
            /\ ended' = IF saved # None /\ saved.epoch = 0 THEN ended ELSE count.world
    /\ stage' = "events"
    /\ UNCHANGED <<keyFile, vault, database, key, world, agent, writes, work, failed,
                   torn, unsaved, replaced>>

\* Mutant: the statement for the memories is forgotten.
ClearTable_KeepsMemories ==
    /\ \/ stage = "events" /\ event' = None /\ stage' = "snapshots"
          /\ UNCHANGED <<snapshot, rows, saved>>
       \/ stage = "snapshots" /\ snapshot' = None /\ stage' = "state"
          /\ UNCHANGED <<event, rows, saved>>
       \/ stage = "state" /\ saved' = None /\ stage' = "vault"
          /\ UNCHANGED <<event, snapshot, rows>>
    /\ UNCHANGED <<disk, vault, migrated, key, world, agent, writes, work, failed, count,
                   history>>

\* clear_experiment: executescript commits every statement by itself.
ClearTable ==
    /\ \/ stage = "events" /\ event' = None /\ stage' = "snapshots"
          /\ UNCHANGED <<snapshot, rows, saved>>
       \/ stage = "snapshots" /\ snapshot' = None /\ stage' = "memories"
          /\ UNCHANGED <<event, rows, saved>>
       \/ stage = "memories" /\ rows' = {} /\ stage' = "state"
          /\ UNCHANGED <<event, snapshot, saved>>
       \/ stage = "state" /\ saved' = None /\ stage' = "vault"
          /\ UNCHANGED <<event, snapshot, rows>>
    /\ UNCHANGED <<disk, vault, migrated, key, world, agent, writes, work, failed, count,
                   history>>

Unlink(f) ==
    /\ stage = "vault"
    /\ files' = files \ {f}
    /\ UNCHANGED <<disk, ledger, database, process, work, failed, count, history>>

Emptied ==
    /\ stage = "vault" /\ files = {}
    /\ stage' = "naming"
    /\ UNCHANGED <<disk, vault, database, key, world, agent, writes, work, failed, count,
                   history>>

\* New identifiers are drawn and written to metadata before the world exists.
Name ==
    /\ stage = "naming"
    /\ count' = [count EXCEPT !.world = @ + 1]
    /\ world' = count.world + 1
    /\ stage' = "creating"
    /\ UNCHANGED <<disk, vault, database, key, agent, writes, work, failed, history>>

\* The agent, its authority, its starters; the event that it awakes.
Create ==
    /\ stage = "creating"
    /\ agent' = [epoch |-> Authority(key, epochFile), world |-> world,
                 provers |-> SealStarters({}, key, epochFile)]
    /\ writes' = {}
    /\ event' = [world |-> world, signable |-> key # 0]
    /\ stage' = "saving"
    /\ UNCHANGED <<disk, vault, rows, saved, snapshot, migrated, key, world, work, failed,
                   count, history>>

Save ==
    /\ stage = "saving"
    /\ saved' = Image /\ unsaved' = FALSE
    /\ stage' = "idle"
    /\ UNCHANGED <<disk, vault, rows, event, snapshot, migrated, key, world, agent, writes,
                   work, failed, count, ended, torn, replaced>>

\* A database that stays locked, or a file that cannot be unlinked: the request fails and
\* the process goes on with what it has.
ResetFails ==
    /\ Fault("storage")
    /\ stage \notin {"down", "idle"} /\ agent # None
    /\ stage' = "idle"
    /\ torn' = TRUE
    /\ UNCHANGED <<disk, vault, database, key, world, agent, writes, work, count, ended,
                   unsaved, replaced>>

-----------------------------------------------------------------------------
(* Memories. *)

\* The authority of now.
Held == [key |-> key, epoch |-> agent.epoch, world |-> agent.world]

\* Up to so many memories are written by this authority.
NewJob(context, left) ==
    job' = [phase |-> "writing", key |-> context.key, epoch |-> context.epoch,
            world |-> context.world, left |-> left, memory |-> None, sealed |-> {}]

\* The outcome of an action verifies the memory proposed with it.
Resolve ==
    /\ Idle
    /\ NewJob(Held, 1)
    /\ UNCHANGED <<disk, vault, database, process, asked, failed, count, history>>

\* consolidate_sleep takes the key and the agent, then waits for the model.
Ask ==
    /\ Idle /\ asked = None
    /\ asked' = Held
    /\ UNCHANGED <<disk, vault, database, process, job, failed, count, history>>

Answered ==
    /\ Idle /\ asked # None
    /\ \E n \in 0..2 : NewJob(asked, n)
    /\ asked' = None
    /\ UNCHANGED <<disk, vault, database, process, failed, count, history>>

\* MemoryVault.validate compares with every file, also with those nobody accepts.
NearDuplicate(t) == \E f \in files : f.topic = t

WriteFile(t, time) ==
    /\ job # None /\ job.phase = "writing" /\ job.left > 0
    /\ count.memory < MaxMemories
    /\ ~NearDuplicate(t)
    /\ LET m == [id |-> count.memory + 1, topic |-> t, time |-> time, origin |-> job.world]
       IN  /\ files' = files \cup {Stored(m)}
           /\ job' = [job EXCEPT !.phase = "sealing", !.memory = m]
    /\ count' = [count EXCEPT !.memory = @ + 1]
    /\ UNCHANGED <<disk, ledger, database, process, asked, failed, history>>

\* A duplicate, the limit of writes a minute, unsafe text.
Reject ==
    /\ job # None /\ job.phase = "writing" /\ job.left > 0
    /\ job' = [job EXCEPT !.left = @ - 1]
    /\ UNCHANGED <<disk, vault, database, process, asked, failed, count, history>>

\* Mutant: the memory at hand is not put away.
Proceed_Holds(sealed) ==
    job' = [job EXCEPT !.phase = "writing", !.left = @ - 1, !.sealed = sealed]

Proceed(sealed) ==
    job' = [job EXCEPT !.phase = "writing", !.left = @ - 1, !.memory = None, !.sealed = sealed]

\* Mutant: sealed with the authority that is live when the answer arrives.
Proved_Live == ProofOf(job.memory, key, agent.epoch, agent.world)

\* seal_memory_record with the authority of the agent that was asked.
Proved == ProofOf(job.memory, job.key, job.epoch, job.world)

\* Mutant: files that are found without a proof get one, too.
Seal_Adopts ==
    /\ job # None /\ job.phase = "sealing"
    /\ job.key # 0 /\ job.epoch # 0
    /\ ledger' = ledger \cup {ProofOf(f, job.key, job.epoch, job.world) : f \in files}
    /\ Proceed(job.sealed \cup {job.memory})
    /\ UNCHANGED <<disk, files, database, process, asked, failed, count, history>>

Seal ==
    /\ job # None /\ job.phase = "sealing"
    /\ job.key # 0 /\ job.epoch # 0
    /\ ledger' \in Appended(Proved)
    /\ Proceed(job.sealed \cup {job.memory})
    /\ UNCHANGED <<disk, files, database, process, asked, failed, count, history>>

\* Mutant: what seal_memory_record returns is not looked at.
SealFails_Unseen ==
    /\ job # None /\ job.phase = "sealing"
    /\ \/ (job.key = 0 \/ job.epoch = 0) /\ UNCHANGED failed
       \/ Fault("storage")
    /\ Proceed(job.sealed \cup {job.memory})
    /\ UNCHANGED <<disk, vault, database, process, asked, count, history>>

\* Without a key, or when the ledger cannot be written, the file stays without a proof.
SealFails ==
    /\ job # None /\ job.phase = "sealing"
    /\ \/ (job.key = 0 \/ job.epoch = 0) /\ UNCHANGED failed
       \/ Fault("storage")
    /\ Proceed(job.sealed)
    /\ UNCHANGED <<disk, vault, database, process, asked, count, history>>

\* A ledger that cannot be read counts as empty, and is written back so.
SealAlone ==
    /\ Fault("ledger")
    /\ job # None /\ job.phase = "sealing"
    /\ job.key # 0 /\ job.epoch # 0
    /\ ledger' = {Proved}
    /\ torn' = TRUE
    /\ Proceed(job.sealed \cup {job.memory})
    /\ UNCHANGED <<disk, files, database, process, asked, count, ended, unsaved, replaced>>

AllWritten ==
    /\ job # None /\ job.phase = "writing" /\ job.left = 0
    /\ job' = [job EXCEPT !.phase = "listing"]
    /\ UNCHANGED <<disk, vault, database, process, asked, failed, count, history>>

\* add_memory, then memory_writes.
List(m) ==
    /\ job # None /\ job.phase = "listing" /\ m \in job.sealed
    /\ rows' = rows \cup {m}
    /\ writes' = writes \cup {m}
    /\ job' = [job EXCEPT !.sealed = @ \ {m}]
    /\ UNCHANGED <<disk, vault, event, saved, snapshot, migrated, stage, key, world, agent,
                   asked, failed, count, history>>

Finish ==
    /\ job # None /\ job.phase = "listing" /\ job.sealed = {}
    /\ Record
    /\ job' = None
    /\ UNCHANGED <<disk, vault, rows, saved, snapshot, migrated, process, asked, failed, count,
                   history>>

\* Only MemoryValidationError is caught: what was sealed stays without its row.
JobFails ==
    /\ Fault("storage")
    /\ job # None /\ job.phase \in {"writing", "listing"}
    /\ job' = None
    /\ UNCHANGED <<disk, vault, database, process, asked, count, history>>

-----------------------------------------------------------------------------
(* Saved states. *)

Persist ==
    /\ Idle
    /\ saved' = Image /\ unsaved' = FALSE
    /\ UNCHANGED <<disk, vault, rows, event, snapshot, migrated, process, work, failed, count,
                   ended, torn, replaced>>

SaveSnapshot ==
    /\ Idle
    /\ snapshot' = Image
    /\ Record
    /\ saved' = Image /\ unsaved' = FALSE
    /\ UNCHANGED <<disk, vault, rows, migrated, process, work, failed, count, ended, torn,
                   replaced>>

\* The snapshot is written, and the event or the state that follow are not.
SaveFails ==
    /\ Fault("storage")
    /\ Idle
    /\ snapshot' = Image
    /\ event' \in {event, Event}
    /\ UNCHANGED <<disk, vault, rows, saved, migrated, process, work, count, history>>

\* Mutant: what was loaded is not saved.
LoadSnapshot_Unsaved ==
    /\ Idle
    /\ Restorable(snapshot, epochFile)
    /\ RestoreFrom(snapshot, key, epochFile)
    /\ UNCHANGED <<disk, vault, database, stage, key, work, failed, count, history>>

LoadSnapshot ==
    /\ Idle
    /\ Restorable(snapshot, epochFile)
    /\ RestoreFrom(snapshot, key, epochFile)
    /\ saved' = [world |-> world', epoch |-> epochFile, provers |-> agent'.provers,
                 writes |-> writes']
    /\ unsaved' = FALSE
    /\ UNCHANGED <<disk, vault, rows, event, snapshot, migrated, stage, key, work, failed, count,
                   ended, torn, replaced>>

\* The loaded state runs already when it cannot be written: the request fails, the
\* process goes on with it.
LoadFails ==
    /\ Fault("storage")
    /\ Idle
    /\ Restorable(snapshot, epochFile)
    /\ RestoreFrom(snapshot, key, epochFile)
    /\ unsaved' = TRUE
    /\ UNCHANGED <<disk, vault, database, stage, key, work, count, ended, torn, replaced>>

-----------------------------------------------------------------------------
(* The end of the process, and what an operator does to the key meanwhile. *)

Crash ==
    /\ stage # "down"
    /\ count.crash < MaxCrashes
    /\ Halted /\ unsaved' = FALSE
    /\ count' = [count EXCEPT !.crash = @ + 1]
    /\ UNCHANGED <<disk, vault, database, failed, ended, torn, replaced>>

LoseKey ==
    /\ Fault("key")
    /\ stage = "down" /\ keyFile # 0
    /\ keyFile' = 0
    /\ UNCHANGED <<epochFile, vault, database, process, work, count, history>>

\* The operator puts the last key back where there is none.
RestoreKey ==
    /\ "key" \in Faults
    /\ stage = "down" /\ keyFile = 0 /\ count.key > 0
    /\ keyFile' = count.key
    /\ UNCHANGED <<epochFile, vault, database, process, work, failed, count, history>>

Start == (\E f \in files : Quarantine(f)) \/ Migrate \/ (\E l, r \in BOOLEAN : Boot(l, r))

ResetSteps ==
    Reset \/ ClearTable \/ (\E f \in files : Unlink(f)) \/ Emptied
    \/ Name \/ Create \/ Save \/ ResetFails

MemorySteps ==
    \/ Resolve \/ Ask \/ Answered \/ Reject
    \/ \E t \in Topics, i \in Ticks : WriteFile(t, i)
    \/ Seal \/ SealFails \/ SealAlone \/ AllWritten
    \/ \E m \in IF job = None THEN {} ELSE job.sealed : List(m)
    \/ Finish \/ JobFails

Next ==
    \/ Start
    \/ ResetSteps
    \/ MemorySteps
    \/ Persist \/ SaveSnapshot \/ SaveFails \/ LoadSnapshot \/ LoadFails
    \/ Crash \/ LoseKey \/ RestoreKey

Spec == Init /\ [][Next]_vars

-----------------------------------------------------------------------------
(* Properties. *)

\* Every variable has its type, and a process has an agent unless it is being started.
TypeOK ==
    /\ {keyFile, epochFile, key, world, failed, ended} \subseteq Nat
    /\ files \subseteq Memories /\ rows \subseteq Memories /\ writes \subseteq Memories
    /\ ledger \subseteq Proofs
    /\ event \in [world : Nat, signable : BOOLEAN] \cup {None}
    /\ {saved, snapshot} \subseteq Images \cup {None}
    /\ {migrated, torn, unsaved, replaced} \subseteq BOOLEAN
    /\ stage \in Stages
    /\ agent \in Agents \cup {None}
    /\ stage \in {"idle", "saving"} => agent # None
    /\ stage = "down" => agent = None /\ asked = None /\ job = None
    /\ asked \in Contexts \cup {None}
    /\ job \in Jobs \cup {None}
    /\ job # None => (job.phase = "sealing" <=> job.memory # None)
    /\ count \in Counts

\* The live authority accepts no memory of another world, also not one that an answer
\* asked for before a reset, a load or a new start writes afterwards (consolidation.py
\* seals with the agent it was given, verify_memory_record compares epoch and world).
AcceptedIsOwn == stage = "idle" => \A f \in Accepted : f.origin = agent.world

\* A memory that the database lists is a file: file, proof and row are written in this
\* order, and cleared rows first (add_memory, clear_experiment before vault.clear).
RowNamesFile ==
    stage = "idle" => \A m \in rows : \E f \in files : f.id = m.id

\* A process that ended here would start again with the same authority and accept the
\* same memories: the saved state, the epoch file and the live agent agree (_persist_current,
\* _restore, attach_key), through resets, loads and starts that were cut short.  Only a
\* state that was loaded and could not be written is lost with its process.
RestartKeepsMemories ==
    stage = "idle" /\ ~torn /\ ~unsaved /\ key # 0 =>
        /\ Restorable(saved, epochFile)
        /\ {f \in files : Verified(f, keyFile, epochFile, saved.world)} = Accepted

\* Once a reset has rotated the epoch no crash, start or load brings its world back.
ResetEndsWorlds == stage = "idle" /\ ~torn => world > ended

\* A start never signs with another key what carries proofs already: a key that is missing
\* under proofs is noticed, and nothing is signed (load_or_create_key, state_contains_proofs).
\* Only the saved state is looked into: proofs that come back with a snapshot are not meant.
FailsClosed ==
    [][stage = "down" /\ stage' = "idle" /\ saved.provers # {} /\ ~replaced
         => agent'.provers = saved.provers]_vars

\* Nothing was torn, no key replaced and no entry of the ledger given up.
Undisturbed == ~torn /\ agent.provers = {key} /\ Cardinality(ledger) < MaxLedger

\* A memory of this world that was announced as written is accepted by retrieval, until
\* the ledger is full or the key replaced (memory_writes, "Ari wrote verified memory").
AnnouncedIsAccepted ==
    stage = "idle" /\ Undisturbed =>
        \A m \in writes : m.origin = agent.world => \E f \in Accepted : f.id = m.id

\* The same for those whose time three decimals give back: over resets, loads, failing
\* writes and restarts the file's rounding is the only thing that makes retrieval
\* refuse what was announced (vault.write, seal_memory_record, verify_memory_record).
Exact(m) == Rounded[m.time] = m.time

ExactIsAccepted ==
    stage = "idle" /\ Undisturbed =>
        \A m \in writes :
            m.origin = agent.world /\ Exact(m) => \E f \in Accepted : f.id = m.id

\* While there is a key, every event is recorded under the agent's own authority
\* (sign_event refuses one whose epoch or world is not the agent's).
EventsAreSignable ==
    [][event' \notin {event, None} => event'.signable \/ key' = 0 \/ torn]_vars

\* A proof that the epoch on record gives a file for its own world.
Backs(p, f) ==
    p.proof.content = Content(f) /\ p.epoch = epochFile /\ p.world = f.origin

View(f) == [id |-> f.id, topic |-> f.topic, origin |-> f.origin]

\* The memories that the epoch on record accepts for their worlds.
Kept == {View(f) : f \in {f \in files : \E p \in ledger : Backs(p, f)}}

\* The newest memory that was accepted or given up.
Newest == IF job # None /\ job.phase = "sealing" THEN count.memory - 1 ELSE count.memory

Store == INSTANCE DurableMemory WITH kept <- Kept, last <- Newest

\* Files, ledger and epoch together behave like DurableMemory: a memory is accepted in one
\* step, a rotation takes all away in one step, and none returns.
MemoriesAtomic == Store!Spec

=============================================================================
