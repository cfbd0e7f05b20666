--------------------------- MODULE ExperimentProofs ---------------------------
(***************************************************************************)
(* Proofs about Experiment, for any topics, ticks, rounding, bounds, size  *)
(* of the ledger and faults.                                               *)
(***************************************************************************)
EXTENDS Experiment, FiniteSetTheorems, TLAPS

USE DataAssumption, NoneAssumption
    DEF disk, vault, database, process, work, history, Counts

-----------------------------------------------------------------------------
(* Types. *)

\* Where the process is when a memory is being written, and what is left to write.
Working ==
    /\ job # None => stage = "idle"
    /\ job # None /\ job.phase = "sealing" => job.left > 0
    /\ stage # "down" => migrated

Typed == TypeOK /\ Working

\* Keys and epochs are counted together, resets with the epochs.
LEMMA CountsTyped ==
    ASSUME NEW c \in Counts, NEW a \in Nat, NEW b \in Nat
    PROVE  /\ [c EXCEPT !.key = a, !.epoch = b] \in Counts
           /\ [c EXCEPT !.key = a, !.epoch = b].key = a
           /\ [c EXCEPT !.key = a, !.epoch = b].epoch = b
           /\ [c EXCEPT !.key = a, !.epoch = b].world = c.world
           /\ [c EXCEPT !.key = a, !.epoch = b].memory = c.memory
           /\ [c EXCEPT !.reset = a, !.epoch = b] \in Counts
           /\ [c EXCEPT !.reset = a, !.epoch = b].key = c.key
           /\ [c EXCEPT !.reset = a, !.epoch = b].epoch = b
           /\ [c EXCEPT !.reset = a, !.epoch = b].world = c.world
           /\ [c EXCEPT !.reset = a, !.epoch = b].memory = c.memory
           /\ [c EXCEPT !.reset = a] \in Counts
           /\ [c EXCEPT !.reset = a].key = c.key
           /\ [c EXCEPT !.reset = a].epoch = c.epoch
           /\ [c EXCEPT !.reset = a].world = c.world
           /\ [c EXCEPT !.reset = a].memory = c.memory
  OBVIOUS

LEMMA SealStartersTyped ==
    ASSUME NEW provers \in SUBSET Nat, NEW k \in Nat, NEW e \in Nat
    PROVE  /\ SealStarters(provers, k, e) \in SUBSET Nat
           /\ k = 0 => SealStarters(provers, k, e) = provers
           /\ k # 0 /\ e # 0 => SealStarters(provers, k, e) = provers \cup {k}
           /\ SealStarters(provers, k, e) \in {provers, provers \cup {k}}
  BY DEF SealStarters, SealRecord, HasPayload, Authority

LEMMA AuthorityTyped ==
    ASSUME NEW k \in Nat, NEW e \in Nat
    PROVE  Authority(k, e) \in Nat /\ (k # 0 => Authority(k, e) = e)
  BY DEF Authority

\* What a load, or a start, makes of an image.
LEMMA RestoredTyped ==
    ASSUME NEW image \in Images, NEW k \in Nat, NEW live \in Nat, RestoreFrom(image, k, live)
    PROVE  /\ world' = image.world /\ world' \in Nat
           /\ writes' = image.writes /\ writes' \subseteq Memories
           /\ agent' \in Agents /\ agent'.world = image.world
           /\ agent'.epoch = Authority(k, live)
           /\ agent'.provers = SealStarters(image.provers, k, live)
<1>1. image.provers \in SUBSET Nat /\ image.world \in Nat /\ image.writes \subseteq Memories
  BY DEF Images
<1>2. SealStarters(image.provers, k, live) \in SUBSET Nat /\ Authority(k, live) \in Nat
  BY <1>1, SealStartersTyped, AuthorityTyped
<1>3. QED
  BY <1>1, <1>2 DEF RestoreFrom, Agents

LEMMA ImageTyped ==
    ASSUME TypeOK, agent # None
    PROVE  /\ Image \in Images
           /\ Image.world = world /\ Image.epoch = epochFile
           /\ Image.provers = agent.provers /\ Image.writes = writes
  BY DEF TypeOK, Image, Images, Agents

LEMMA ProofTyped ==
    ASSUME NEW m \in Memories, NEW k \in Nat, NEW e \in Nat, NEW w \in Nat
    PROVE  ProofOf(m, k, e, w) \in Proofs
<1>1. Content(m) \in Contents
  BY DEF Memories, Contents, Content
<1>2. Digest(k, e, w, Content(m)) \in Digests
  BY <1>1 DEF Digest, Digests
<1>3. QED
  BY <1>2 DEF ProofOf, Proofs, Memories

\* A full ledger loses one entry for the new one.
LEMMA AppendedSubset ==
    ASSUME NEW p, NEW l \in Appended(p)
    PROVE  l \subseteq ledger \cup {p}
  BY DEF Appended

LEMMA InitTyped == Init => Typed
<1> SUFFICES ASSUME Init PROVE Typed
  OBVIOUS
<1>1. files \subseteq Memories
  <2>1. CASE files = {}
    BY <2>1
  <2>2. ASSUME NEW t \in Topics, NEW j \in Ticks,
               files = {[id |-> 0, topic |-> t, time |-> Rounded[j], origin |-> 1]}
        PROVE  files \subseteq Memories
    BY <2>2 DEF Memories
  <2>3. QED
    BY <2>1, <2>2 DEF Init
<1>2. saved \in Images \cup {None}
  BY DEF Init, Images
<1>3. count \in Counts
  BY DEF Init
<1>4. QED
  BY <1>1, <1>2, <1>3 DEF Init, Typed, TypeOK, Working, Stages

-----------------------------------------------------------------------------
(* What is counted. *)

\* A start makes a key where there is none, unless it notices proofs, and so an epoch; it
\* makes neither when the key cannot be read, and holds a key only if it can read both.
LEMMA BootNumbers ==
    ASSUME TypeOK, NEW l \in BOOLEAN, NEW r \in BOOLEAN, Boot(l, r)
    PROVE  /\ count' \in Counts /\ keyFile' \in Nat /\ epochFile' \in Nat /\ key' \in Nat
           /\ count'.world = count.world /\ count'.memory = count.memory
           /\ \/ keyFile' = keyFile /\ count'.key = count.key
              \/ keyFile = 0 /\ keyFile' = count.key + 1 /\ count'.key = count.key + 1
           /\ \/ epochFile' = epochFile /\ count'.epoch = count.epoch
                  /\ (epochFile = 0 => keyFile # 0 \/ NoticesProofs(saved))
              \/ epochFile = 0 /\ epochFile' = count.epoch + 1 /\ count'.epoch = count.epoch + 1
           /\ key' \in {0, keyFile'} /\ (key' # 0 => r)
<1> DEFINE kept == ~l \/ (keyFile = 0 /\ NoticesProofs(saved))
<1> DEFINE k == IF keyFile = 0 /\ ~kept THEN count.key + 1 ELSE count.key
<1> DEFINE e == IF epochFile = 0 /\ ~kept THEN count.epoch + 1 ELSE count.epoch
<1>1. LoadKey(l, r) /\ count \in Counts /\ count.key \in Nat /\ count.epoch \in Nat
      /\ keyFile \in Nat /\ epochFile \in Nat /\ (~l => keyFile # 0)
  BY DEF Boot, TypeOK
<1>2. count' = [count EXCEPT !.key = k, !.epoch = e]
  BY <1>1, Zenon DEF LoadKey
<1>3. k \in Nat /\ e \in Nat
  BY <1>1
<1> HIDE DEF k, e
<1>4. /\ count' \in Counts /\ count'.world = count.world /\ count'.memory = count.memory
      /\ count'.key = k /\ count'.epoch = e
  BY <1>1, <1>2, <1>3, CountsTyped, Zenon
<1>5. QED
  BY <1>1, <1>3, <1>4 DEF LoadKey, k, e

\* A reset makes an epoch if there is a key, and ends the worlds there are.
LEMMA ResetNumbers ==
    ASSUME TypeOK, Reset
    PROVE  /\ count' \in Counts /\ epochFile' \in Nat /\ ended' \in Nat
           /\ count'.world = count.world /\ count'.memory = count.memory
           /\ count'.key = count.key
           /\ \/ /\ key = 0 /\ epochFile' = epochFile /\ ended' = ended
                 /\ count'.epoch = count.epoch
              \/ /\ key # 0 /\ epochFile' = count.epoch + 1
                 /\ ended' = IF saved # None /\ saved.epoch = 0 THEN ended ELSE count.world
                 /\ count'.epoch = count.epoch + 1
<1> DEFINE a == count.reset + 1
<1> DEFINE b == count.epoch + 1
<1>1. count \in Counts /\ a \in Nat /\ b \in Nat /\ epochFile \in Nat /\ ended \in Nat
  BY DEF TypeOK
<1>2. CASE key = 0
  <2>1. count' = [count EXCEPT !.reset = a]
    BY <1>2, Zenon DEF Reset
  <2> HIDE DEF a, b
  <2>2. /\ count' \in Counts /\ count'.world = count.world /\ count'.memory = count.memory
        /\ count'.key = count.key /\ count'.epoch = count.epoch
    BY <1>1, <2>1, CountsTyped, Zenon
  <2>3. QED
    BY <1>1, <1>2, <2>2 DEF Reset
<1>3. CASE key # 0
  <2>1. count' = [count EXCEPT !.reset = a, !.epoch = b]
    BY <1>3, Zenon DEF Reset
  <2> HIDE DEF a, b
  <2>2. /\ count' \in Counts /\ count'.world = count.world /\ count'.memory = count.memory
        /\ count'.key = count.key /\ count'.epoch = b
    BY <1>1, <2>1, CountsTyped, Zenon
  <2>3. QED
    BY <1>1, <1>3, <2>2 DEF Reset, b
<1>4. QED
  BY <1>2, <1>3

-----------------------------------------------------------------------------
LEMMA StartTyped == Typed /\ Start => Typed'
<1> SUFFICES ASSUME Typed, Start PROVE Typed'
  OBVIOUS
<1> USE DEF Typed
<1>1. ASSUME NEW f \in files, Quarantine(f)
      PROVE  Typed'
  BY <1>1 DEF Quarantine, TypeOK, Working
<1>2. CASE Migrate
  BY <1>2 DEF Migrate, TypeOK, Working
<1>3. ASSUME NEW l \in BOOLEAN, NEW r \in BOOLEAN, Boot(l, r)
      PROVE  Typed'
  <2>1. keyFile' \in Nat /\ epochFile' \in Nat /\ key' \in Nat /\ count' \in Counts
    BY <1>3, BootNumbers
  <2>2. LiveEpoch(r) \in Nat
    BY <2>1 DEF LiveEpoch
  <2>3. replaced' \in BOOLEAN
    BY <1>3 DEF Boot, TypeOK
  <2>4. UNCHANGED <<vault, rows, saved, snapshot, migrated, asked, job, ended, torn, unsaved>>
        /\ stage = "down" /\ migrated /\ failed' \in Nat
    BY <1>3 DEF Boot, Fault, TypeOK
  <2>5. CASE /\ Restorable(saved, LiveEpoch(r))
             /\ RestoreFrom(saved, key', LiveEpoch(r))
             /\ stage' = "idle"
             /\ event' = [world |-> world', signable |-> key' # 0 /\ agent'.epoch = epochFile']
    <3>1. saved \in Images
      BY <2>5 DEF Restorable, TypeOK
    <3>2. world' \in Nat /\ writes' \subseteq Memories /\ agent' \in Agents
      BY <2>1, <2>2, <2>5, <3>1, RestoredTyped
    <3>3. event' \in [world : Nat, signable : BOOLEAN]
      BY <2>5, <3>2
    <3>4. TypeOK'
      BY <2>1, <2>3, <2>4, <2>5, <3>2, <3>3 DEF TypeOK, Stages
    <3>5. QED
      BY <2>4, <2>5, <3>4 DEF Working, TypeOK
  <2>6. CASE stage' = "naming" /\ UNCHANGED <<world, agent, writes, event>>
    BY <2>1, <2>3, <2>4, <2>6 DEF TypeOK, Working, Stages
  <2>7. QED
    BY <1>3, <2>5, <2>6 DEF Boot
<1>4. QED
  BY <1>1, <1>2, <1>3 DEF Start

LEMMA ResetStepsTyped == Typed /\ ResetSteps => Typed'
<1> SUFFICES ASSUME Typed, ResetSteps PROVE Typed'
  OBVIOUS
<1> USE DEF Typed
<1>1. CASE Reset
  <2>1. count' \in Counts /\ epochFile' \in Nat /\ ended' \in Nat
    BY <1>1, ResetNumbers
  <2>2. QED
    BY <1>1, <2>1 DEF Reset, Idle, TypeOK, Working, Stages
<1>2. CASE ClearTable
  BY <1>2 DEF ClearTable, TypeOK, Working, Stages
<1>3. ASSUME NEW f \in files, Unlink(f)
      PROVE  Typed'
  BY <1>3 DEF Unlink, TypeOK, Working
<1>4. CASE Emptied
  BY <1>4 DEF Emptied, TypeOK, Working, Stages
<1>5. CASE Name
  <2>1. count' \in Counts /\ world' \in Nat
    BY <1>5 DEF Name, TypeOK
  <2>2. QED
    BY <1>5, <2>1 DEF Name, TypeOK, Working, Stages
<1>6. CASE Create
  <2>1. agent' \in Agents
    BY <1>6, SealStartersTyped, AuthorityTyped DEF Create, Agents, TypeOK
  <2>2. event' \in [world : Nat, signable : BOOLEAN]
    BY <1>6 DEF Create, TypeOK
  <2>3. QED
    BY <1>6, <2>1, <2>2 DEF Create, TypeOK, Working, Stages
<1>7. CASE Save
  BY <1>7, ImageTyped DEF Save, TypeOK, Working, Stages
<1>8. CASE ResetFails
  BY <1>8 DEF ResetFails, Fault, TypeOK, Working, Stages
<1>9. QED
  BY <1>1, <1>2, <1>3, <1>4, <1>5, <1>6, <1>7, <1>8 DEF ResetSteps

-----------------------------------------------------------------------------
LEMMA JobsTyped ==
    ASSUME NEW context \in Contexts, NEW left \in Nat, NewJob(context, left)
    PROVE  /\ job' \in Jobs
           /\ job'.phase = "writing" /\ job'.left = left
           /\ job'.memory = None /\ job'.sealed = {}
           /\ job'.key = context.key /\ job'.epoch = context.epoch
           /\ job'.world = context.world
  BY DEF NewJob, Jobs, Contexts

LEMMA HeldTyped ==
    ASSUME TypeOK, agent # None
    PROVE  /\ Held \in Contexts
           /\ Held.key = key /\ Held.epoch = agent.epoch /\ Held.world = agent.world
  BY DEF TypeOK, Held, Contexts, Agents

\* What is left of a job after a memory.
LEMMA ProceedTyped ==
    ASSUME Typed, job # None, job.phase = "sealing", NEW sealed \in SUBSET Memories,
           Proceed(sealed)
    PROVE  /\ job' \in Jobs
           /\ job'.phase = "writing" /\ job'.memory = None /\ job'.sealed = sealed
           /\ job'.key = job.key /\ job'.epoch = job.epoch /\ job'.world = job.world
<1>1. job \in Jobs /\ job.left \in Nat /\ job.left > 0
  BY DEF Typed, TypeOK, Working, Jobs
<1>2. job.left - 1 \in Nat
  BY <1>1
<1>3. job' = [phase |-> "writing", key |-> job.key, epoch |-> job.epoch, world |-> job.world,
              left |-> job.left - 1, memory |-> None, sealed |-> sealed]
  BY <1>1 DEF Proceed, Jobs
<1>4. QED
  BY <1>1, <1>2, <1>3 DEF Jobs

LEMMA SealingTyped ==
    ASSUME Typed, job # None, job.phase = "sealing"
    PROVE  /\ job \in Jobs /\ job.memory \in Memories
           /\ job.sealed \cup {job.memory} \in SUBSET Memories
           /\ job.sealed \in SUBSET Memories
           /\ Proved \in Proofs
<1>1. job \in Jobs /\ job.memory # None
  BY DEF Typed, TypeOK
<1>2. /\ job.memory \in Memories /\ job.sealed \in SUBSET Memories
      /\ job.key \in Nat /\ job.epoch \in Nat /\ job.world \in Nat
  BY <1>1 DEF Jobs
<1>3. QED
  BY <1>1, <1>2, ProofTyped DEF Proved

LEMMA SealStepsTyped == Typed /\ (Seal \/ SealFails \/ SealAlone) => Typed'
<1> SUFFICES ASSUME Typed, Seal \/ SealFails \/ SealAlone PROVE Typed'
  OBVIOUS
<1>1. job # None /\ job.phase = "sealing" /\ stage = "idle"
  BY DEF Seal, SealFails, SealAlone, Typed, Working
<1>2. \E sealed \in SUBSET Memories : Proceed(sealed)
  BY <1>1, SealingTyped DEF Seal, SealFails, SealAlone
<1>3. /\ job' \in Jobs /\ job'.phase = "writing" /\ job'.memory = None
  BY <1>1, <1>2, ProceedTyped
<1>4. ledger' \subseteq Proofs
  BY <1>1, SealingTyped, AppendedSubset DEF Seal, SealFails, SealAlone, Typed, TypeOK
<1>5. torn' \in BOOLEAN
  BY DEF Seal, SealFails, SealAlone, Typed, TypeOK
<1>6. UNCHANGED <<disk, files, database, process, asked, count, ended, unsaved, replaced>>
  BY DEF Seal, SealFails, SealAlone
<1>7. failed' \in Nat
  BY DEF Seal, SealFails, SealAlone, Fault, Typed, TypeOK
<1>8. QED
  BY <1>1, <1>3, <1>4, <1>5, <1>6, <1>7 DEF Typed, TypeOK, Working

LEMMA WriteFileTyped ==
    ASSUME Typed, NEW t \in Topics, NEW time \in Ticks, WriteFile(t, time)
    PROVE  Typed'
<1> DEFINE m == [id |-> count.memory + 1, topic |-> t, time |-> time, origin |-> job.world]
<1>1. job \in Jobs /\ job.world \in Nat /\ job.left > 0 /\ stage = "idle" /\ count \in Counts
  BY DEF WriteFile, Typed, TypeOK, Working, Jobs
<1>2. m \in Memories
  BY <1>1 DEF Memories
<1>3. Stored(m) \in Memories
  BY <1>1 DEF Memories, Stored
<1>4. job' = [job EXCEPT !.phase = "sealing", !.memory = m] /\ files' = files \cup {Stored(m)}
  BY DEF WriteFile
<1> HIDE DEF m
<1>5. /\ job' \in Jobs /\ job'.phase = "sealing" /\ job'.memory = m /\ job'.left = job.left
  BY <1>1, <1>2, <1>4 DEF Jobs
<1>6. count' \in Counts
  BY <1>1 DEF WriteFile
<1>7. QED
  BY <1>1, <1>2, <1>3, <1>4, <1>5, <1>6 DEF WriteFile, Typed, TypeOK, Working

LEMMA MemoryStepsTyped == Typed /\ MemorySteps => Typed'
<1> SUFFICES ASSUME Typed, MemorySteps PROVE Typed'
  OBVIOUS
<1>0. /\ job # None => job \in Jobs /\ job.left \in Nat /\ job.sealed \in SUBSET Memories
  BY DEF Typed, TypeOK, Jobs
<1>1. CASE Resolve
  <2>1. /\ job' \in Jobs /\ job'.phase = "writing"
        /\ job'.memory = None /\ job'.sealed = {} /\ stage = "idle"
    BY <1>1, JobsTyped, HeldTyped DEF Resolve, Idle, Typed, TypeOK
  <2>2. QED
    BY <1>1, <2>1 DEF Resolve, Typed, TypeOK, Working
<1>2. CASE Answered
  <2>1. PICK n \in 0..2 : NewJob(asked, n)
    BY <1>2 DEF Answered
  <2>2. asked \in Contexts /\ stage = "idle" /\ n \in Nat
    BY <1>2 DEF Answered, Idle, Typed, TypeOK
  <2>3. /\ job' \in Jobs /\ job'.phase = "writing" /\ job'.memory = None
    BY <2>1, <2>2, JobsTyped
  <2>4. QED
    BY <1>2, <2>2, <2>3 DEF Answered, Typed, TypeOK, Working
<1>12. CASE Ask
  BY <1>12, HeldTyped DEF Ask, Idle, Typed, TypeOK, Working
<1>3. CASE Reject
  <2>1. /\ job' \in Jobs /\ job'.phase = "writing" /\ job'.memory = job.memory
        /\ stage = "idle" /\ job.phase = "writing"
    BY <1>0, <1>3 DEF Reject, Jobs, Typed, Working
  <2>2. QED
    BY <1>3, <2>1 DEF Reject, Typed, TypeOK, Working
<1>4. ASSUME NEW t \in Topics, NEW i \in Ticks, WriteFile(t, i)
      PROVE  Typed'
  BY <1>4, WriteFileTyped
<1>5. CASE Seal \/ SealFails \/ SealAlone
  BY <1>5, SealStepsTyped
<1>6. CASE AllWritten
  <2>1. /\ job' \in Jobs /\ job'.phase = "listing" /\ job'.memory = job.memory
        /\ stage = "idle" /\ job.phase = "writing"
    BY <1>0, <1>6 DEF AllWritten, Jobs, Typed, Working
  <2>2. QED
    BY <1>6, <2>1 DEF AllWritten, Typed, TypeOK, Working
<1>7. ASSUME job # None, NEW m \in job.sealed, List(m)
      PROVE  Typed'
  <2>1. /\ job' \in Jobs /\ job'.phase = "listing" /\ job'.memory = job.memory
        /\ stage = "idle" /\ job.phase = "listing" /\ m \in Memories
    BY <1>0, <1>7 DEF List, Jobs, Typed, Working
  <2>2. QED
    BY <1>7, <2>1 DEF List, Typed, TypeOK, Working
<1>8. CASE Finish
  <2>1. event' \in [world : Nat, signable : BOOLEAN]
    BY <1>8 DEF Finish, Record, Event, Signable, Typed, TypeOK
  <2>2. QED
    BY <1>8, <2>1 DEF Finish, Typed, TypeOK, Working
<1>9. CASE JobFails
  BY <1>9 DEF JobFails, Fault, Typed, TypeOK, Working
<1>10. ASSUME NEW m \in IF job = None THEN {} ELSE job.sealed, List(m)
       PROVE  Typed'
  BY <1>7, <1>10
<1>11. QED
  BY <1>1, <1>2, <1>3, <1>4, <1>5, <1>6, <1>8, <1>9, <1>10, <1>12 DEF MemorySteps

LEMMA StatesTyped ==
    Typed /\ (Persist \/ SaveSnapshot \/ SaveFails \/ LoadSnapshot \/ LoadFails) => Typed'
<1> SUFFICES ASSUME Typed, Persist \/ SaveSnapshot \/ SaveFails \/ LoadSnapshot \/ LoadFails
             PROVE  Typed'
  OBVIOUS
<1>1. stage = "idle" /\ agent # None /\ TypeOK
  BY DEF Persist, SaveSnapshot, SaveFails, LoadSnapshot, LoadFails, Idle, Typed, TypeOK
<1>2. CASE Persist
  BY <1>1, <1>2, ImageTyped DEF Persist, Typed, TypeOK, Working
<1>3. Event \in [world : Nat, signable : BOOLEAN]
  BY <1>1 DEF Event, Signable, TypeOK
<1>4. CASE SaveSnapshot
  BY <1>1, <1>3, <1>4, ImageTyped DEF SaveSnapshot, Record, Typed, TypeOK, Working
<1>5. CASE SaveFails
  BY <1>1, <1>3, <1>5, ImageTyped DEF SaveFails, Fault, Typed, TypeOK, Working
<1>6. CASE LoadSnapshot \/ LoadFails
  <2>1. /\ snapshot \in Images /\ key \in Nat /\ epochFile \in Nat
        /\ RestoreFrom(snapshot, key, epochFile)
    BY <1>1, <1>6 DEF LoadSnapshot, LoadFails, Restorable, TypeOK
  <2>2. world' \in Nat /\ writes' \subseteq Memories /\ agent' \in Agents
    BY <2>1, RestoredTyped
  <2>3. CASE LoadSnapshot
    <3>1. saved' \in Images
      BY <2>1, <2>2, <2>3 DEF LoadSnapshot, Images, Agents
    <3>2. QED
      BY <1>1, <2>2, <2>3, <3>1 DEF LoadSnapshot, Typed, TypeOK, Working
  <2>4. CASE LoadFails
    <3>1. unsaved' \in BOOLEAN /\ failed' \in Nat
      BY <1>1, <2>4 DEF LoadFails, Fault, TypeOK
    <3>2. UNCHANGED <<disk, vault, database, stage, key, work, count, ended, torn, replaced>>
      BY <2>4 DEF LoadFails
    <3>3. QED
      BY <1>1, <2>2, <3>1, <3>2 DEF Typed, TypeOK, Working
  <2>5. QED
    BY <1>6, <2>3, <2>4
<1>7. QED
  BY <1>2, <1>4, <1>5, <1>6

LEMMA FaultsTyped == Typed /\ (Crash \/ LoseKey \/ RestoreKey) => Typed'
<1> SUFFICES ASSUME Typed, Crash \/ LoseKey \/ RestoreKey PROVE Typed'
  OBVIOUS
<1>1. CASE Crash
  <2>1. count' \in Counts
    BY <1>1 DEF Crash, Typed, TypeOK
  <2>2. /\ UNCHANGED <<disk, vault, database, failed, ended, torn, replaced>>
        /\ unsaved' \in BOOLEAN /\ Halted
    BY <1>1 DEF Crash
  <2>3. TypeOK'
    BY <2>1, <2>2 DEF Halted, Typed, TypeOK, Stages
  <2>4. QED
    BY <2>2, <2>3 DEF Halted, Typed, Working
<1>2. CASE LoseKey \/ RestoreKey
  BY <1>2 DEF LoseKey, RestoreKey, Fault, Typed, TypeOK, Working
<1>3. QED
  BY <1>1, <1>2

LEMMA StepTyped == Typed /\ [Next]_vars => Typed'
<1>1. Typed /\ UNCHANGED vars => Typed'
  BY DEF vars, Typed, TypeOK, Working
<1>2. QED
  BY <1>1, StartTyped, ResetStepsTyped, MemoryStepsTyped, StatesTyped, FaultsTyped DEF Next

LEMMA AlwaysTyped == Spec => []Typed
  BY InitTyped, StepTyped, PTL DEF Spec

\* With any number of memories, resets and crashes every variable keeps its type, so
\* whatever is saved can be restored, and no job outlives its process (_restore, stop).
THEOREM TypeCorrect == Spec => []TypeOK
<1>1. Typed => TypeOK
  BY DEF Typed
<1>2. QED
  BY <1>1, AlwaysTyped, PTL

-----------------------------------------------------------------------------
(* What is sealed is sealed for the world that it was written in. *)

\* A number stands for one file, and its proof is for the world of that file.
Identified ==
    /\ \A f \in files : f.id <= count.memory
    /\ \A f, g \in files : f.id = g.id => f = g
    /\ \A p \in ledger :
          /\ p.id # 0 /\ p.id <= count.memory
          /\ p.proof.content.id = p.id
          /\ \A f \in files : f.id = p.id => f.origin = p.world

\* The memory at hand: nothing else has its number yet.
AtHand ==
    job # None /\ job.phase = "sealing" =>
        /\ job.memory.id = count.memory /\ count.memory # 0
        /\ job.memory.origin = job.world
        /\ \A f \in files : f.id = count.memory => f = Stored(job.memory)
        /\ \A p \in ledger : p.id # count.memory

Own == Typed /\ Identified /\ AtHand

LEMMA InitOwn == Init => Own
<1> SUFFICES ASSUME Init PROVE Own
  OBVIOUS
<1>1. Typed
  BY InitTyped
<1>2. \A f \in files : f.id = 0
  BY DEF Init
<1>3. \A f, g \in files : f = g
  BY DEF Init
<1>4. QED
  BY <1>1, <1>2, <1>3 DEF Init, Own, Identified, AtHand

\* Steps that at most remove files, and go on with no memory at hand or with the same.
LEMMA OwnWithoutWriting ==
    ASSUME Own, Typed', files' \subseteq files, ledger' = ledger,
           count'.memory = count.memory,
           job' = job \/ job' = None \/ job'.phase # "sealing"
    PROVE  Own'
  BY DEF Own, Identified, AtHand, Stored

LEMMA SealOwn ==
    ASSUME Own, Typed', Seal \/ SealFails \/ SealAlone
    PROVE  Own'
<1>1. job # None /\ job.phase = "sealing" /\ job.memory \in Memories
      /\ Proved.id = job.memory.id /\ Proved.world = job.world
      /\ Proved.proof.content.id = job.memory.id
  BY SealingTyped DEF Own, Seal, SealFails, SealAlone, Proved, ProofOf, Digest, Content
<1>2. job'.phase = "writing"
  BY <1>1, SealingTyped, ProceedTyped DEF Own, Seal, SealFails, SealAlone
<1>3. files' = files /\ count' = count
  BY DEF Seal, SealFails, SealAlone
<1>4. ledger' \subseteq ledger \cup {Proved}
  BY AppendedSubset DEF Seal, SealFails, SealAlone
<1>5. \A f \in files : f.id = Proved.id => f.origin = Proved.world
  BY <1>1 DEF Own, AtHand, Stored, Memories
<1>6. Proved.id # 0 /\ Proved.id <= count.memory
  BY <1>1 DEF Own, AtHand, Typed, TypeOK
<1>7. Identified'
  BY <1>1, <1>3, <1>4, <1>5, <1>6 DEF Own, Identified
<1>8. QED
  BY <1>2, <1>7 DEF Own, AtHand

LEMMA WriteFileOwn ==
    ASSUME Own, Typed', NEW t \in Topics, NEW time \in Ticks, WriteFile(t, time)
    PROVE  Own'
<1> DEFINE m == [id |-> count.memory + 1, topic |-> t, time |-> time, origin |-> job.world]
<1>1. count \in Counts /\ count.memory \in Nat /\ job \in Jobs
  BY DEF Own, Typed, TypeOK, WriteFile
<1>2. count'.memory = count.memory + 1 /\ ledger' = ledger
  BY <1>1 DEF WriteFile
<1>3. /\ m.id = count'.memory /\ m.origin = job.world
      /\ Stored(m).id = count'.memory /\ Stored(m).origin = job.world
  BY <1>2 DEF Stored
<1>4. files' = files \cup {Stored(m)} /\ job' = [job EXCEPT !.phase = "sealing", !.memory = m]
  BY DEF WriteFile
<1> HIDE DEF m
<1>5. job'.memory = m /\ job'.world = job.world
  BY <1>1, <1>4 DEF Jobs
<1>6. \A f \in files : f.id <= count.memory /\ f.id \in Nat
  BY DEF Own, Identified, Typed, TypeOK, Memories
<1>7. \A p \in ledger : p.id <= count.memory /\ p.id \in Nat
  BY DEF Own, Identified, Typed, TypeOK, Proofs
<1>8. \A f \in files : f.id # count'.memory
  BY <1>1, <1>2, <1>6
<1>9. \A p \in ledger : p.id # count'.memory
  BY <1>1, <1>2, <1>7
<1>10. \A f \in files' : f.id <= count'.memory
  BY <1>1, <1>2, <1>3, <1>4, <1>6
<1>11. Identified'
  <2>1. \A f, g \in files' : f.id = g.id => f = g
    BY <1>3, <1>4, <1>8 DEF Own, Identified
  <2>2. ASSUME NEW p \in ledger
        PROVE  /\ p.id # 0 /\ p.id <= count'.memory
               /\ p.proof.content.id = p.id
               /\ \A f \in files' : f.id = p.id => f.origin = p.world
    BY <1>1, <1>2, <1>3, <1>4, <1>7, <1>9 DEF Own, Identified
  <2>3. QED
    BY <1>2, <1>10, <2>1, <2>2 DEF Identified
<1>12. AtHand'
  BY <1>1, <1>2, <1>3, <1>4, <1>5, <1>8, <1>9 DEF AtHand
<1>13. QED
  BY <1>11, <1>12 DEF Own

LEMMA StepOwn == Own /\ [Next]_vars => Own'
<1> SUFFICES ASSUME Own, [Next]_vars PROVE Own'
  OBVIOUS
<1>0. Typed /\ Typed' /\ TypeOK /\ count \in Counts
  BY StepTyped DEF Own, Typed, TypeOK
<1>1. CASE UNCHANGED vars
  BY <1>0, <1>1, OwnWithoutWriting DEF vars
<1>2. CASE Start
  <2>1. ASSUME NEW f \in files, Quarantine(f)
        PROVE  Own'
    BY <1>0, <2>1, OwnWithoutWriting DEF Quarantine
  <2>2. CASE Migrate
    BY <1>0, <2>2, OwnWithoutWriting DEF Migrate
  <2>3. ASSUME NEW l \in BOOLEAN, NEW r \in BOOLEAN, Boot(l, r)
        PROVE  Own'
    <3>1. count'.memory = count.memory
      BY <1>0, <2>3, BootNumbers
    <3>2. UNCHANGED <<vault, job>>
      BY <2>3 DEF Boot
    <3>3. QED
      BY <1>0, <3>1, <3>2, OwnWithoutWriting
  <2>4. QED
    BY <1>2, <2>1, <2>2, <2>3 DEF Start
<1>3. CASE ResetSteps
  <2>1. count'.memory = count.memory
    <3>1. CASE Reset
      BY <1>0, <3>1, ResetNumbers
    <3>2. CASE ~Reset
      BY <1>0, <1>3, <3>2 DEF ResetSteps, ClearTable, Unlink, Emptied, Name, Create, Save, ResetFails
    <3>3. QED
      BY <3>1, <3>2
  <2>2. files' \subseteq files /\ UNCHANGED <<ledger, job>>
    BY <1>3 DEF ResetSteps, Reset, ClearTable, Unlink, Emptied, Name, Create, Save, ResetFails
  <2>3. QED
    BY <1>0, <2>1, <2>2, OwnWithoutWriting
<1>4. CASE MemorySteps
  <2>1. CASE Resolve \/ Answered
    <3>1. job'.phase # "sealing"
      BY <1>0, <2>1 DEF Resolve, Answered, NewJob
    <3>2. QED
      BY <1>0, <2>1, <3>1, OwnWithoutWriting DEF Resolve, Answered
  <2>2. CASE Ask \/ Reject \/ AllWritten
    <3>1. job' = job \/ job'.phase # "sealing"
      BY <1>0, <2>2 DEF Ask, Reject, AllWritten, TypeOK, Jobs
    <3>2. QED
      BY <1>0, <2>2, <3>1, OwnWithoutWriting DEF Ask, Reject, AllWritten
  <2>3. ASSUME NEW t \in Topics, NEW i \in Ticks, WriteFile(t, i)
        PROVE  Own'
    BY <1>0, <2>3, WriteFileOwn
  <2>4. CASE Seal \/ SealFails \/ SealAlone
    BY <1>0, <2>4, SealOwn
  <2>5. ASSUME NEW m \in IF job = None THEN {} ELSE job.sealed, List(m)
        PROVE  Own'
    <3>1. job \in Jobs /\ job'.phase # "sealing"
      BY <1>0, <2>5 DEF List, TypeOK, Jobs
    <3>2. QED
      BY <1>0, <2>5, <3>1, OwnWithoutWriting DEF List
  <2>6. CASE Finish \/ JobFails
    BY <1>0, <2>6, OwnWithoutWriting DEF Finish, JobFails
  <2>7. QED
    BY <1>4, <2>1, <2>2, <2>3, <2>4, <2>5, <2>6 DEF MemorySteps
<1>5. CASE \/ Persist \/ SaveSnapshot \/ SaveFails \/ LoadSnapshot \/ LoadFails
           \/ LoseKey \/ RestoreKey
  BY <1>0, <1>5, OwnWithoutWriting
     DEF Persist, SaveSnapshot, SaveFails, LoadSnapshot, LoadFails, LoseKey, RestoreKey
<1>6. CASE Crash
  BY <1>0, <1>6, OwnWithoutWriting DEF Crash, Halted
<1>7. QED
  BY <1>1, <1>2, <1>3, <1>4, <1>5, <1>6 DEF Next

LEMMA AlwaysOwn == Spec => []Own
  BY InitOwn, StepOwn, PTL DEF Spec

\* With any number of resets, crashes, loads and lost keys, and answers that arrive however
\* late: retrieval never accepts a memory of another world (verify_memory_record).
THEOREM NothingForeign == Spec => []AcceptedIsOwn
<1>1. Own => AcceptedIsOwn
  BY DEF Own, Identified, AcceptedIsOwn, Accepted, Verified, ProofOf
<1>2. QED
  BY <1>1, AlwaysOwn, PTL

-----------------------------------------------------------------------------
(* Epochs, worlds and what is saved of them. *)

\* There is an epoch as soon as there is a process or a key; only what was saved before
\* there were epochs has none.
Epochal ==
    /\ epochFile <= count.epoch
    /\ \A image \in {saved, snapshot} : image # None => image.epoch <= count.epoch
    /\ stage # "down" \/ keyFile # 0 \/ count.key > 0 => epochFile # 0
    /\ epochFile = 0 /\ saved # None => saved.provers = {}
    /\ saved # None /\ saved.epoch = 0 => ended = 0
    /\ snapshot # None => snapshot.epoch # 0

\* Worlds come to an end in the order of their creation.
Ended ==
    /\ ended <= count.world
    /\ \A image \in {saved, snapshot} : image # None =>
          /\ ~torn => image.world # 0
          /\ ~torn /\ image.epoch # 0 /\ image.epoch = epochFile => image.world > ended
    /\ stage \in {"creating", "saving", "idle"} /\ ~torn => world > ended

\* The agent, the files of the authority and the saved state agree, unless what was loaded
\* could not be saved.
Attached ==
    /\ stage # "down" => key \in {0, keyFile}
    /\ stage \in {"saving", "idle"} /\ ~torn =>
          agent.world = world /\ (key # 0 => agent.epoch = epochFile)
    /\ stage = "idle" /\ ~torn /\ ~unsaved =>
          saved # None /\ saved.world = world /\ (key # 0 => saved.epoch \in {0, epochFile})

Dated == Typed /\ Epochal /\ Ended /\ Attached

LEMMA InitDated == Init => Dated
<1> SUFFICES ASSUME Init PROVE Dated
  OBVIOUS
<1>1. Typed
  BY InitTyped
<1>2. QED
  BY <1>1 DEF Init, Dated, Epochal, Ended, Attached

\* Steps of a running process, or of nobody, that leave epochs, worlds and saved states.
LEMMA DatedUntouched ==
    ASSUME Dated, Typed', UNCHANGED <<epochFile, saved, snapshot, key, world, agent, ended>>,
           count'.epoch = count.epoch, count'.world = count.world, count'.key = count.key,
           UNCHANGED <<keyFile, stage>>, torn => torn', unsaved => unsaved'
    PROVE  Dated'
  BY DEF Dated, Epochal, Ended, Attached

LEMMA BootDated ==
    ASSUME Dated, Typed', NEW l \in BOOLEAN, NEW r \in BOOLEAN, Boot(l, r)
    PROVE  Dated'
<1>1. /\ TypeOK /\ stage = "down" /\ UNCHANGED <<saved, snapshot, ended, torn, unsaved>>
      /\ count.epoch \in Nat /\ epochFile \in Nat /\ count.world \in Nat /\ ended \in Nat
  BY DEF Boot, Dated, Typed, TypeOK
<1>2. /\ count'.world = count.world /\ key' \in {0, keyFile'} /\ (key' # 0 => r)
      /\ \/ epochFile' = epochFile /\ count'.epoch = count.epoch
             /\ (epochFile = 0 => keyFile # 0 \/ NoticesProofs(saved))
         \/ epochFile = 0 /\ epochFile' = count.epoch + 1 /\ count'.epoch = count.epoch + 1
  BY <1>1, BootNumbers
<1>3. epochFile' # 0 /\ epochFile' <= count'.epoch /\ count.epoch <= count'.epoch
  BY <1>1, <1>2 DEF NoticesProofs, Dated, Epochal
<1>4. \A image \in {saved, snapshot} : image # None =>
        /\ image.epoch \in Nat /\ image.world \in Nat /\ image.epoch <= count.epoch
        /\ image.epoch # 0 /\ image.epoch = epochFile' => epochFile' = epochFile
  BY <1>1, <1>2 DEF Dated, Epochal, TypeOK, Images
<1>5. Epochal'
  <2>1. \A image \in {saved, snapshot} : image # None => image.epoch <= count'.epoch
    BY <1>1, <1>2, <1>4
  <2>2. /\ saved # None /\ saved.epoch = 0 => ended = 0
        /\ snapshot # None => snapshot.epoch # 0
    BY DEF Dated, Epochal
  <2>3. QED
    BY <1>1, <1>3, <2>1, <2>2 DEF Epochal
<1>6. CASE /\ Restorable(saved, LiveEpoch(r))
           /\ RestoreFrom(saved, key', LiveEpoch(r))
           /\ stage' = "idle"
  <2>1. /\ saved \in Images /\ saved.epoch \in {0, LiveEpoch(r)} /\ LiveEpoch(r) \in {0, epochFile'}
        /\ (r => LiveEpoch(r) = epochFile') /\ LiveEpoch(r) \in Nat /\ key' \in Nat
    BY <1>1, <1>6 DEF Restorable, LiveEpoch, TypeOK, Typed
  <2>2. /\ world' = saved.world /\ agent'.world = saved.world
        /\ agent'.epoch = Authority(key', LiveEpoch(r))
    BY <1>6, <2>1, RestoredTyped
  <2>3. key' # 0 => agent'.epoch = epochFile'
    BY <1>2, <2>1, <2>2, AuthorityTyped
  <2>4. ~torn => saved.world > ended
    <3>1. CASE saved.epoch = 0
      BY <1>1, <2>1, <3>1 DEF Dated, Epochal, Ended, Images
    <3>2. CASE saved.epoch # 0
      BY <1>4, <2>1, <3>2 DEF Dated, Ended
    <3>3. QED
      BY <3>1, <3>2
  <2>5. Ended'
    BY <1>1, <1>2, <1>4, <2>2, <2>4 DEF Dated, Ended
  <2>6. Attached'
    BY <1>1, <1>2, <1>6, <2>1, <2>2, <2>3 DEF Attached
  <2>7. QED
    BY <1>5, <2>5, <2>6 DEF Dated
<1>7. CASE stage' = "naming"
  <2>1. Ended'
    BY <1>1, <1>2, <1>4, <1>7 DEF Dated, Ended
  <2>2. QED
    BY <1>2, <1>5, <1>7, <2>1 DEF Dated, Attached
<1>8. QED
  BY <1>6, <1>7 DEF Boot

LEMMA ResetStepsDated ==
    ASSUME Dated, Typed', ResetSteps
    PROVE  Dated'
<1> USE DEF Dated
<1>0. /\ TypeOK /\ count \in Counts /\ count.epoch \in Nat /\ count.world \in Nat
      /\ epochFile \in Nat /\ ended \in Nat /\ key \in Nat /\ world \in Nat
      /\ \A image \in {saved, snapshot} : image # None => image.epoch \in Nat /\ image.world \in Nat
  BY DEF Typed, TypeOK, Images
<1>1. CASE Reset
  <2>1. /\ count'.world = count.world
        /\ \/ /\ key = 0 /\ epochFile' = epochFile /\ ended' = ended
              /\ count'.epoch = count.epoch
           \/ /\ key # 0 /\ epochFile' = count.epoch + 1
              /\ ended' = IF saved # None /\ saved.epoch = 0 THEN ended ELSE count.world
              /\ count'.epoch = count.epoch + 1
    BY <1>0, <1>1, ResetNumbers
  <2>2. /\ UNCHANGED <<keyFile, saved, snapshot, key, world, agent, torn>>
        /\ stage = "idle" /\ stage' = "events"
    BY <1>1 DEF Reset, Idle
  <2>3. Epochal'
    BY <1>0, <2>1, <2>2 DEF Epochal
  <2>4. \A image \in {saved, snapshot} : image # None =>
          (epochFile' = epochFile /\ ended' = ended) \/ image.epoch # epochFile'
    BY <1>0, <2>1 DEF Epochal
  <2>5. Ended'
    BY <1>0, <2>1, <2>2, <2>4 DEF Ended
  <2>6. QED
    BY <2>2, <2>3, <2>5 DEF Attached
<1>2. CASE ClearTable
  <2>1. /\ UNCHANGED <<disk, key, world, agent, count, history>>
        /\ saved' \in {saved, None} /\ snapshot' \in {snapshot, None}
        /\ stage # "down" /\ stage' \in {"snapshots", "memories", "state", "vault"}
    BY <1>2 DEF ClearTable
  <2>2. Epochal' /\ Ended' /\ Attached'
    BY <2>1 DEF Epochal, Ended, Attached
  <2>3. QED
    BY <2>2
<1>3. ASSUME NEW f \in files, Unlink(f)
      PROVE  Dated'
  BY <1>3, DatedUntouched DEF Unlink
<1>4. CASE Emptied
  BY <1>4 DEF Emptied, Epochal, Ended, Attached
<1>5. CASE Name
  <2>1. count'.world = count.world + 1 /\ count'.epoch = count.epoch
    BY <1>0, <1>5 DEF Name
  <2>2. Ended'
    BY <1>0, <1>5, <2>1 DEF Name, Ended
  <2>3. QED
    BY <1>5, <2>1, <2>2 DEF Name, Epochal, Attached
<1>6. CASE Create
  <2>1. agent'.world = world /\ (key # 0 => agent'.epoch = epochFile)
    BY <1>0, <1>6, AuthorityTyped DEF Create
  <2>2. QED
    BY <1>6, <2>1 DEF Create, Epochal, Ended, Attached
<1>7. CASE Save
  <2>1. Image.world = world /\ Image.epoch = epochFile /\ Image # None
    BY <1>0, <1>7, ImageTyped DEF Save, TypeOK
  <2>2. saved' = Image /\ stage = "saving" /\ stage' = "idle"
        /\ UNCHANGED <<disk, snapshot, key, world, agent, count, ended, torn>>
    BY <1>7 DEF Save
  <2>3. Epochal'
    BY <2>1, <2>2 DEF Epochal
  <2>4. Ended'
    BY <1>0, <2>1, <2>2 DEF Ended
  <2>5. QED
    BY <2>1, <2>2, <2>3, <2>4 DEF Attached
<1>8. CASE ResetFails
  BY <1>8 DEF ResetFails, Epochal, Ended, Attached
<1>9. QED
  BY <1>1, <1>2, <1>3, <1>4, <1>5, <1>6, <1>7, <1>8 DEF ResetSteps

LEMMA StatesDated ==
    ASSUME Dated, Typed',
           Persist \/ SaveSnapshot \/ SaveFails \/ LoadSnapshot \/ LoadFails
    PROVE  Dated'
<1>0. /\ stage = "idle" /\ agent # None /\ TypeOK /\ epochFile # 0
      /\ epochFile \in Nat /\ key \in Nat /\ world \in Nat /\ ended \in Nat
  BY DEF Persist, SaveSnapshot, SaveFails, LoadSnapshot, LoadFails, Idle, Dated, Typed,
         TypeOK, Epochal
<1>1. Image.world = world /\ Image.epoch = epochFile /\ Image # None
  BY <1>0, ImageTyped
<1>2. CASE Persist \/ SaveSnapshot \/ SaveFails
  <2>1. /\ saved' = Image \/ (saved' = saved /\ unsaved' = unsaved)
        /\ snapshot' \in {Image, snapshot}
        /\ UNCHANGED <<disk, process, count, ended, torn>>
    BY <1>2 DEF Persist, SaveSnapshot, SaveFails
  <2>2. Epochal'
    BY <1>0, <1>1, <2>1 DEF Dated, Epochal
  <2>3. Ended'
    BY <1>0, <1>1, <2>1 DEF Dated, Ended
  <2>4. Attached'
    BY <1>0, <1>1, <2>1 DEF Dated, Attached
  <2>5. QED
    BY <2>2, <2>3, <2>4 DEF Dated
<1>3. CASE LoadSnapshot \/ LoadFails
  <2>1. snapshot \in Images /\ snapshot.epoch = epochFile /\ RestoreFrom(snapshot, key, epochFile)
    BY <1>0, <1>3 DEF LoadSnapshot, LoadFails, Restorable, Dated, Epochal, TypeOK
  <2>2. /\ world' = snapshot.world /\ agent'.world = snapshot.world
        /\ agent'.epoch = Authority(key, epochFile)
    BY <1>0, <2>1, RestoredTyped
  <2>3. key # 0 => agent'.epoch = epochFile
    BY <1>0, <2>2, AuthorityTyped
  <2>4. /\ \/ saved' # None /\ saved'.world = world' /\ saved'.epoch = epochFile
           \/ saved' = saved /\ unsaved'
        /\ UNCHANGED <<disk, snapshot, stage, key, count, ended, torn>>
    <3>1. CASE LoadSnapshot
      <4>1. world' \in Nat /\ writes' \subseteq Memories /\ agent'.provers \in SUBSET Nat
        BY <1>0, <2>1, RestoredTyped DEF Agents
      <4>2. saved' \in Images
        BY <1>0, <3>1, <4>1 DEF LoadSnapshot, Images
      <4>3. QED
        BY <3>1, <4>2 DEF LoadSnapshot
    <3>2. CASE LoadFails
      BY <3>2 DEF LoadFails
    <3>3. QED
      BY <1>3, <3>1, <3>2
  <2>5. world' \in Nat /\ (~torn => world' > ended)
    BY <1>0, <2>1, <2>2, <2>4 DEF Dated, Ended, Images
  <2>6. Epochal'
    BY <1>0, <2>4 DEF Dated, Epochal
  <2>7. Ended'
    BY <1>0, <2>4, <2>5 DEF Dated, Ended
  <2>8. Attached'
    BY <1>0, <2>2, <2>3, <2>4 DEF Dated, Attached
  <2>9. QED
    BY <2>6, <2>7, <2>8 DEF Dated
<1>4. QED
  BY <1>2, <1>3

LEMMA StepDated == Dated /\ [Next]_vars => Dated'
<1> SUFFICES ASSUME Dated, [Next]_vars PROVE Dated'
  OBVIOUS
<1>0. Typed' /\ count \in Counts
  BY StepTyped DEF Dated, Typed, TypeOK
<1>1. CASE UNCHANGED vars
  BY <1>0, <1>1, DatedUntouched DEF vars
<1>2. ASSUME NEW f \in files, Quarantine(f)
      PROVE  Dated'
  BY <1>0, <1>2, DatedUntouched DEF Quarantine
<1>3. CASE Migrate
  BY <1>0, <1>3, DatedUntouched DEF Migrate
<1>4. CASE Start
  BY <1>0, <1>2, <1>3, <1>4, BootDated DEF Start
<1>5. CASE ResetSteps
  BY <1>0, <1>5, ResetStepsDated
<1>6. CASE MemorySteps
  <2>1. ASSUME NEW t \in Topics, NEW i \in Ticks, WriteFile(t, i)
        PROVE  Dated'
    BY <1>0, <2>1, DatedUntouched DEF WriteFile
  <2>2. ASSUME NEW m, List(m)
        PROVE  Dated'
    BY <1>0, <2>2, DatedUntouched DEF List
  <2>3. CASE Resolve \/ Ask \/ Answered \/ Reject \/ AllWritten \/ Finish \/ JobFails
    BY <1>0, <2>3, DatedUntouched
       DEF Resolve, Ask, Answered, Reject, AllWritten, Finish, JobFails
  <2>4. CASE Seal \/ SealFails \/ SealAlone
    BY <1>0, <2>4, DatedUntouched DEF Seal, SealFails, SealAlone
  <2>5. QED
    BY <1>6, <2>1, <2>2, <2>3, <2>4 DEF MemorySteps
<1>7. CASE Persist \/ SaveSnapshot \/ SaveFails \/ LoadSnapshot \/ LoadFails
  BY <1>0, <1>7, StatesDated
<1>8. CASE Crash
  <2>1. count'.epoch = count.epoch /\ count'.world = count.world /\ count'.key = count.key
    BY <1>0, <1>8 DEF Crash
  <2>2. QED
    BY <1>0, <1>8, <2>1 DEF Crash, Halted, Dated, Epochal, Ended, Attached
<1>9. CASE LoseKey \/ RestoreKey
  BY <1>0, <1>9 DEF LoseKey, RestoreKey, Dated, Epochal, Ended, Attached
<1>10. QED
  BY <1>1, <1>4, <1>5, <1>6, <1>7, <1>8, <1>9 DEF Next

LEMMA AlwaysDated == Spec => []Dated
  BY InitDated, StepDated, PTL DEF Spec

\* Wherever a reset is cut short, and whatever is loaded or started afterwards: a world
\* that has ended never runs again (rotate_authority_epoch, _restore).
THEOREM NoWorldReturns == Spec => []ResetEndsWorlds
<1>1. Dated => ResetEndsWorlds
  BY DEF Dated, Ended, ResetEndsWorlds
<1>2. QED
  BY <1>1, AlwaysDated, PTL

\* A process may end at any moment, and any write before that may fail: the next one has the
\* same authority over the same memories, unless what the process had loaded could not be
\* written (_persist_current, _restore, load_snapshot).
THEOREM MemoriesOutliveProcess == Spec => []RestartKeepsMemories
<1>1. Dated => RestartKeepsMemories
  BY DEF Dated, Attached, RestartKeepsMemories, Restorable, Accepted, Typed, TypeOK
<1>2. QED
  BY <1>1, AlwaysDated, PTL

LEMMA StepSignable ==
    ASSUME Dated, Next, event' \notin {event, None}
    PROVE  event'.signable \/ key' = 0 \/ torn
<1>1. ASSUME stage = "idle", Record, UNCHANGED key
      PROVE  event'.signable \/ key' = 0 \/ torn
  BY <1>1 DEF Record, Event, Signable, Dated, Attached
<1>2. CASE Finish
  BY <1>1, <1>2 DEF Finish, Dated, Typed, Working
<1>3. CASE SaveSnapshot \/ SaveFails
  <2>1. Record /\ stage = "idle" /\ UNCHANGED key
    BY <1>3 DEF SaveSnapshot, SaveFails, Record, Idle
  <2>2. QED
    BY <1>1, <2>1
<1>4. CASE Create
  BY <1>4 DEF Create
<1>5. ASSUME NEW l \in BOOLEAN, NEW r \in BOOLEAN, Boot(l, r)
      PROVE  event'.signable \/ key' = 0 \/ torn
  <2>1. /\ Restorable(saved, LiveEpoch(r)) /\ RestoreFrom(saved, key', LiveEpoch(r))
        /\ event' = [world |-> world', signable |-> key' # 0 /\ agent'.epoch = epochFile']
    BY <1>5 DEF Boot
  <2>2. key' # 0 => r
    BY <1>5, BootNumbers DEF Dated, Typed
  <2>3. key' # 0 => agent'.epoch = epochFile'
    BY <2>1, <2>2 DEF RestoreFrom, Authority, LiveEpoch
  <2>4. QED
    BY <2>1, <2>3
<1>6. CASE Migrate \/ Reset \/ ClearTable \/ Emptied \/ Name \/ Save \/ ResetFails
  BY <1>6 DEF Migrate, Reset, ClearTable, Emptied, Name, Save, ResetFails
<1>7. ASSUME NEW f, Quarantine(f) \/ Unlink(f)
      PROVE  FALSE
  BY <1>7 DEF Quarantine, Unlink
<1>8. ASSUME NEW t, NEW i, WriteFile(t, i)
      PROVE  FALSE
  BY <1>8 DEF WriteFile
<1>9. ASSUME NEW m, List(m)
      PROVE  FALSE
  BY <1>9 DEF List
<1>10. CASE Resolve \/ Ask \/ Answered \/ Reject \/ Seal \/ SealFails \/ SealAlone
            \/ AllWritten \/ JobFails
  BY <1>10 DEF Resolve, Ask, Answered, Reject, Seal, SealFails, SealAlone, AllWritten, JobFails
<1>11. CASE Persist \/ LoadSnapshot \/ LoadFails \/ Crash \/ LoseKey \/ RestoreKey
  BY <1>11 DEF Persist, LoadSnapshot, LoadFails, Crash, LoseKey, RestoreKey
<1>12. QED
  BY <1>2, <1>3, <1>4, <1>5, <1>6, <1>7, <1>8, <1>9, <1>10, <1>11
     DEF Next, Start, ResetSteps, MemorySteps

\* No event is ever recorded that its own process could not sign (_record, sign_event).
THEOREM NoEventUnsigned == Spec => EventsAreSignable
<1>1. Dated /\ [Next]_vars =>
        [event' \notin {event, None} => event'.signable \/ key' = 0 \/ torn]_vars
  BY StepSignable
<1>2. QED
  BY <1>1, AlwaysDated, PTL DEF Spec, EventsAreSignable

-----------------------------------------------------------------------------
(* What the database lists is there. *)

Filed(id) == \E f \in files : f.id = id

Listed ==
    /\ migrated => \A m \in rows : Filed(m.id)
    /\ stage \in {"state", "vault"} => rows = {}
    /\ job # None => \A m \in job.sealed : Filed(m.id)
    /\ job # None /\ job.phase = "sealing" => Filed(job.memory.id)

LEMMA InitListed == Init => Typed /\ Listed
<1> SUFFICES ASSUME Init PROVE Listed
  BY InitTyped
<1>1. ~migrated /\ stage = "down" /\ job = None
  BY DEF Init
<1>2. QED
  BY <1>1 DEF Listed

\* Steps that keep the files, list nothing new and change no job.
LEMMA ListedUntouched ==
    ASSUME Listed, files \subseteq files', rows' = rows \/ rows' = {},
           migrated' = migrated \/ rows' = {}, job' = job \/ job' = None,
           stage' \in {"state", "vault"} => stage \in {"state", "vault"} \/ rows' = {}
    PROVE  Listed'
  BY DEF Listed, Filed

\* Steps of a job that write no file.
LEMMA ListedOfJob ==
    ASSUME Listed, UNCHANGED <<files, migrated, stage>>, job' # None, job'.phase # "sealing",
           \A m \in job'.sealed : Filed(m.id), \A m \in rows' \ rows : Filed(m.id),
           rows' = rows \/ stage = "idle"
    PROVE  Listed'
  BY DEF Listed, Filed

LEMMA MemoryStepsListed ==
    ASSUME Typed, Listed, MemorySteps
    PROVE  Listed'
<1>0. job # None => job \in Jobs /\ stage = "idle"
  BY DEF Typed, TypeOK, Working
<1>1. CASE Resolve \/ Answered
  <2>1. \E context \in Contexts, n \in Nat : NewJob(context, n)
    BY <1>1, HeldTyped DEF Resolve, Answered, Idle, Typed, TypeOK
  <2>2. job' # None /\ job'.phase # "sealing" /\ job'.sealed = {}
    BY <2>1, JobsTyped
  <2>3. QED
    BY <1>1, <2>2, ListedOfJob DEF Resolve, Answered
<1>2. CASE Reject \/ AllWritten
  <2>1. job # None /\ job \in Jobs /\ UNCHANGED <<files, migrated, stage, rows>>
    BY <1>0, <1>2 DEF Reject, AllWritten
  <2>2. job.left \in Nat /\ job.phase = "writing"
    BY <1>2, <2>1 DEF Reject, AllWritten, Jobs
  <2>3. job' \in Jobs /\ job'.phase # "sealing" /\ job'.sealed = job.sealed
    BY <1>2, <2>1, <2>2 DEF Reject, AllWritten, Jobs
  <2>4. job' # None /\ \A m \in job.sealed : Filed(m.id)
    BY <2>1, <2>3, NoneAssumption DEF Listed
  <2>5. QED
    BY <2>1, <2>3, <2>4, ListedOfJob
<1>9. CASE Ask
  BY <1>9, ListedUntouched DEF Ask
<1>3. ASSUME NEW t \in Topics, NEW i \in Ticks, WriteFile(t, i)
      PROVE  Listed'
  <2> DEFINE m == [id |-> count.memory + 1, topic |-> t, time |-> i, origin |-> job.world]
  <2>1. /\ files' = files \cup {Stored(m)} /\ Stored(m).id = m.id
        /\ job' = [job EXCEPT !.phase = "sealing", !.memory = m] /\ UNCHANGED <<rows, migrated, stage>>
    BY <1>3 DEF WriteFile, Stored
  <2>2. job \in Jobs
    BY <1>0, <1>3 DEF WriteFile
  <2> HIDE DEF m
  <2>3. job'.memory = m /\ job'.sealed = job.sealed /\ job # None
    BY <1>3, <2>1, <2>2 DEF WriteFile, Jobs
  <2>4. QED
    BY <2>1, <2>3 DEF Listed, Filed
<1>4. CASE Seal \/ SealFails \/ SealAlone
  <2>1. job # None /\ job.phase = "sealing"
    BY <1>4 DEF Seal, SealFails, SealAlone
  <2>2. \A m \in job.sealed \cup {job.memory} : Filed(m.id)
    BY <2>1 DEF Listed
  <2>3. /\ job' \in Jobs /\ job'.phase = "writing"
        /\ job'.sealed \in {job.sealed, job.sealed \cup {job.memory}}
    BY <1>4, <2>1, SealingTyped, ProceedTyped DEF Seal, SealFails, SealAlone
  <2>4. UNCHANGED <<files, migrated, stage, rows>>
    BY <1>4 DEF Seal, SealFails, SealAlone
  <2>5. QED
    BY <2>2, <2>3, <2>4, ListedOfJob
<1>5. ASSUME job # None, NEW m \in job.sealed, List(m)
      PROVE  Listed'
  <2>1. /\ job' \in Jobs /\ job'.phase # "sealing" /\ job'.sealed = job.sealed \ {m}
        /\ rows' = rows \cup {m} /\ UNCHANGED <<files, migrated, stage>> /\ stage = "idle"
    BY <1>0, <1>5 DEF List, Jobs
  <2>2. \A n \in job.sealed : Filed(n.id)
    BY <1>5 DEF Listed
  <2>3. QED
    BY <1>5, <2>1, <2>2, ListedOfJob
<1>6. ASSUME NEW m \in IF job = None THEN {} ELSE job.sealed, List(m)
      PROVE  Listed'
  BY <1>5, <1>6
<1>7. CASE Finish \/ JobFails
  BY <1>7, ListedUntouched DEF Finish, JobFails
<1>8. QED
  BY <1>1, <1>2, <1>3, <1>4, <1>6, <1>7, <1>9 DEF MemorySteps

LEMMA StepListed == Typed /\ Listed /\ [Next]_vars => Typed' /\ Listed'
<1> SUFFICES ASSUME Typed, Listed, [Next]_vars PROVE Listed'
  BY StepTyped
<1>1. CASE UNCHANGED vars
  BY <1>1, ListedUntouched DEF vars
<1>2. CASE Start
  <2>1. ASSUME NEW f \in files, Quarantine(f)
        PROVE  Listed'
    BY <2>1 DEF Quarantine, Listed, Filed, Typed, TypeOK
  <2>2. CASE Migrate
    BY <2>2, ListedUntouched DEF Migrate
  <2>3. ASSUME NEW l \in BOOLEAN, NEW r \in BOOLEAN, Boot(l, r)
        PROVE  Listed'
    BY <2>3, ListedUntouched DEF Boot
  <2>4. QED
    BY <1>2, <2>1, <2>2, <2>3 DEF Start
<1>3. CASE ResetSteps
  <2>1. ASSUME NEW f \in files, Unlink(f)
        PROVE  Listed'
    <3>1. stage = "vault" /\ rows = {} /\ UNCHANGED <<rows, migrated, stage, job>>
      BY <2>1 DEF Unlink, Listed
    <3>2. job # None => job.sealed = {} /\ job.phase # "sealing"
      BY <3>1 DEF Typed, Working
    <3>3. QED
      BY <3>1, <3>2 DEF Listed
  <2>2. CASE ~\E f \in files : Unlink(f)
    BY <1>3, <2>2, ListedUntouched
       DEF ResetSteps, Reset, ClearTable, Emptied, Name, Create, Save, ResetFails, Listed
  <2>3. QED
    BY <2>1, <2>2
<1>4. CASE MemorySteps
  BY <1>4, MemoryStepsListed
<1>5. CASE \/ Persist \/ SaveSnapshot \/ SaveFails \/ LoadSnapshot \/ LoadFails
           \/ Crash \/ LoseKey \/ RestoreKey
  BY <1>5, ListedUntouched
     DEF Persist, SaveSnapshot, SaveFails, LoadSnapshot, LoadFails, Crash, Halted, LoseKey,
         RestoreKey
<1>6. QED
  BY <1>1, <1>2, <1>3, <1>4, <1>5 DEF Next

\* Wherever a write or a reset is cut short: the database never lists a memory whose file
\* is missing (add_memory, clear_experiment, vault.clear).
THEOREM RowsAreFiles == Spec => []RowNamesFile
<1>1. Typed /\ Listed => RowNamesFile
  BY DEF Typed, Working, Listed, Filed, RowNamesFile
<1>2. QED
  BY <1>1, InitListed, StepListed, PTL DEF Spec

-----------------------------------------------------------------------------
(* Files, ledger and epoch together are a DurableMemory. *)

\* No proof is for an epoch to come.
Past ==
    /\ epochFile <= count.epoch
    /\ agent # None => agent.epoch <= count.epoch
    /\ asked # None => asked.epoch <= count.epoch
    /\ job # None => job.epoch <= count.epoch
    /\ \A p \in ledger : p.epoch <= count.epoch

Sound == Own /\ Past

LEMMA InitPast == Init => Past
<1> SUFFICES ASSUME Init PROVE Past
  OBVIOUS
<1>1. /\ epochFile = 0 /\ count.epoch = 0 /\ ledger = {}
      /\ agent = None /\ asked = None /\ job = None
  BY DEF Init
<1>2. QED
  BY <1>1 DEF Past

\* Steps that make no epoch and give no agent, job or proof another one.
LEMMA PastUntouched ==
    ASSUME Typed, Typed', Past, epochFile' = epochFile, count'.epoch = count.epoch,
           agent' = agent \/ agent' = None \/ agent'.epoch <= count.epoch,
           asked' = asked \/ asked' = None \/ asked'.epoch <= count.epoch,
           job' = job \/ job' = None \/ job'.epoch <= count.epoch,
           \A p \in ledger' : p \in ledger \/ p.epoch <= count.epoch
    PROVE  Past'
  BY DEF Past

LEMMA BootPast ==
    ASSUME Typed, Typed', Past, NEW l \in BOOLEAN, NEW r \in BOOLEAN, Boot(l, r)
    PROVE  Past'
<1>1. /\ stage = "down" /\ agent = None /\ asked = None /\ job = None
      /\ UNCHANGED <<asked, job, ledger>>
      /\ count.epoch \in Nat /\ epochFile \in Nat /\ epochFile' \in Nat /\ count'.epoch \in Nat
  BY DEF Boot, Typed, TypeOK
<1>2. /\ key' \in Nat
      /\ \/ epochFile' = epochFile /\ count'.epoch = count.epoch
         \/ epochFile' = count.epoch + 1 /\ count'.epoch = count.epoch + 1
  BY BootNumbers DEF Typed
<1>3. agent' # None => agent'.epoch \in {0, epochFile'}
  <2>1. CASE /\ Restorable(saved, LiveEpoch(r))
             /\ RestoreFrom(saved, key', LiveEpoch(r))
    <3>1. saved \in Images /\ LiveEpoch(r) \in {0, epochFile'} /\ LiveEpoch(r) \in Nat
      BY <1>1, <2>1 DEF Restorable, LiveEpoch, Typed, TypeOK
    <3>2. agent'.epoch = Authority(key', LiveEpoch(r))
      BY <1>2, <2>1, <3>1, RestoredTyped
    <3>3. QED
      BY <3>1, <3>2 DEF Authority
  <2>2. CASE UNCHANGED agent
    BY <1>1, <2>2
  <2>3. QED
    BY <2>1, <2>2 DEF Boot
<1>4. \A p \in ledger : p.epoch \in Nat /\ p.epoch <= count.epoch
  BY DEF Past, Typed, TypeOK, Proofs
<1>5. epochFile' <= count'.epoch /\ count.epoch <= count'.epoch
  BY <1>1, <1>2 DEF Past
<1>6. QED
  BY <1>1, <1>3, <1>4, <1>5 DEF Past


LEMMA ResetStepsPast ==
    ASSUME Typed, Typed', Past, ResetSteps
    PROVE  Past'
<1>0. /\ count \in Counts /\ count.epoch \in Nat /\ epochFile \in Nat
      /\ agent # None => agent.epoch \in Nat
      /\ asked # None => asked.epoch \in Nat
      /\ job # None => job.epoch \in Nat
      /\ \A p \in ledger : p.epoch \in Nat
  BY DEF Typed, TypeOK, Agents, Contexts, Jobs, Proofs
<1>1. CASE Reset
  <2>1. /\ epochFile' \in {epochFile, count'.epoch}
        /\ count'.epoch \in {count.epoch, count.epoch + 1}
    BY <1>0, <1>1, ResetNumbers DEF Typed
  <2>2. UNCHANGED <<agent, asked, job, ledger>>
    BY <1>1 DEF Reset
  <2>3. QED
    BY <1>0, <2>1, <2>2 DEF Past
<1>2. CASE Create
  <2>1. agent'.epoch \in {0, epochFile}
    BY <1>2 DEF Create, Authority
  <2>2. agent'.epoch <= count.epoch
    BY <1>0, <2>1 DEF Past
  <2>3. QED
    BY <1>2, <2>2, PastUntouched DEF Create
<1>3. CASE ~Reset /\ ~Create
  <2>1. /\ UNCHANGED <<epochFile, ledger, agent, asked, job>> /\ count'.epoch = count.epoch
    BY <1>0, <1>3 DEF ResetSteps, ClearTable, Unlink, Emptied, Name, Save, ResetFails
  <2>2. QED
    BY <2>1, PastUntouched
<1>4. QED
  BY <1>1, <1>2, <1>3

LEMMA MemoryStepsPast ==
    ASSUME Typed, Typed', Past, MemorySteps
    PROVE  Past'
<1>0. UNCHANGED <<epochFile, agent>> /\ count'.epoch = count.epoch
  <2>1. ASSUME NEW t \in Topics, NEW i \in Ticks, WriteFile(t, i)
        PROVE  UNCHANGED <<epochFile, agent>> /\ count'.epoch = count.epoch
    BY <2>1 DEF WriteFile, Typed, TypeOK
  <2>2. QED
    BY <2>1 DEF MemorySteps, Resolve, Ask, Answered, Reject, Seal, SealFails, SealAlone,
               AllWritten, List, Finish, JobFails
<1>1. CASE Resolve \/ Ask
  <2>1. /\ agent # None /\ Held.epoch = agent.epoch /\ ledger' = ledger
        /\ job' = job \/ job'.epoch = Held.epoch
        /\ asked' = asked \/ asked' = Held
    BY <1>1, HeldTyped DEF Resolve, Ask, Idle, NewJob, Typed, TypeOK
  <2>2. QED
    BY <1>0, <2>1, PastUntouched DEF Past
<1>7. CASE Answered
  <2>1. job'.epoch = asked.epoch /\ asked # None /\ asked' = None /\ ledger' = ledger
    BY <1>7 DEF Answered, NewJob
  <2>2. QED
    BY <1>0, <2>1, PastUntouched DEF Past
<1>2. CASE Reject \/ AllWritten \/ \E t \in Topics, i \in Ticks : WriteFile(t, i)
  <2>1. job # None /\ job \in Jobs /\ ledger' = ledger /\ asked' = asked
    BY <1>2 DEF Reject, AllWritten, WriteFile, Typed, TypeOK
  <2>2. job'.epoch = job.epoch
    <3>2. CASE Reject \/ AllWritten
      BY <2>1, <3>2 DEF Reject, AllWritten, Jobs
    <3>3. ASSUME NEW t \in Topics, NEW i \in Ticks, WriteFile(t, i)
          PROVE  job'.epoch = job.epoch
      <4> DEFINE m == [id |-> count.memory + 1, topic |-> t, time |-> i, origin |-> job.world]
      <4>1. job' = [job EXCEPT !.phase = "sealing", !.memory = m]
        BY <3>3 DEF WriteFile
      <4> HIDE DEF m
      <4>2. QED
        BY <2>1, <4>1 DEF Jobs
    <3>4. QED
      BY <1>2, <3>2, <3>3
  <2>3. QED
    BY <1>0, <2>1, <2>2, PastUntouched DEF Past
<1>3. CASE Seal \/ SealFails \/ SealAlone
  <2>1. job # None /\ job.phase = "sealing" /\ asked' = asked
    BY <1>3 DEF Seal, SealFails, SealAlone
  <2>2. job'.epoch = job.epoch /\ Proved.epoch = job.epoch
    BY <1>3, <2>1, SealingTyped, ProceedTyped DEF Seal, SealFails, SealAlone, Proved, ProofOf
  <2>3. ledger' \subseteq ledger \cup {Proved}
    BY <1>3, AppendedSubset DEF Seal, SealFails, SealAlone
  <2>4. job.epoch <= count.epoch
    BY <2>1 DEF Past
  <2>5. QED
    BY <1>0, <2>1, <2>2, <2>3, <2>4, PastUntouched
<1>4. ASSUME NEW m \in IF job = None THEN {} ELSE job.sealed, List(m)
      PROVE  Past'
  <2>1. job # None /\ job'.epoch = job.epoch /\ ledger' = ledger /\ asked' = asked
    BY <1>4 DEF List, Typed, TypeOK, Jobs
  <2>2. QED
    BY <1>0, <2>1, PastUntouched DEF Past
<1>5. CASE Finish \/ JobFails
  BY <1>0, <1>5, PastUntouched DEF Finish, JobFails
<1>6. QED
  BY <1>1, <1>2, <1>3, <1>4, <1>5, <1>7 DEF MemorySteps

LEMMA StepPast ==
    ASSUME Typed, Typed', Past, [Next]_vars
    PROVE  Past'
<1>1. CASE UNCHANGED vars
  BY <1>1, PastUntouched DEF vars
<1>2. CASE Start
  <2>1. ASSUME NEW f \in files, Quarantine(f)
        PROVE  Past'
    BY <2>1, PastUntouched DEF Quarantine
  <2>2. CASE Migrate
    BY <2>2, PastUntouched DEF Migrate
  <2>3. QED
    BY <1>2, <2>1, <2>2, BootPast DEF Start
<1>3. CASE ResetSteps
  BY <1>3, ResetStepsPast
<1>4. CASE MemorySteps
  BY <1>4, MemoryStepsPast
<1>5. CASE LoadSnapshot \/ LoadFails
  <2>1. /\ snapshot \in Images /\ key \in Nat /\ epochFile \in Nat /\ count.epoch \in Nat
        /\ RestoreFrom(snapshot, key, epochFile)
        /\ UNCHANGED <<epochFile, ledger, asked, job, count>>
    BY <1>5 DEF LoadSnapshot, LoadFails, Restorable, Typed, TypeOK
  <2>2. agent'.epoch \in {0, epochFile}
    BY <2>1, RestoredTyped DEF Authority
  <2>3. agent'.epoch <= count.epoch
    BY <2>1, <2>2 DEF Past
  <2>4. QED
    BY <2>1, <2>3, PastUntouched
<1>6. CASE Persist \/ SaveSnapshot \/ SaveFails \/ LoseKey \/ RestoreKey
  BY <1>6, PastUntouched DEF Persist, SaveSnapshot, SaveFails, LoseKey, RestoreKey
<1>7. CASE Crash
  <2>1. count'.epoch = count.epoch
    BY <1>7 DEF Crash, Typed, TypeOK
  <2>2. QED
    BY <1>7, <2>1, PastUntouched DEF Crash, Halted
<1>8. QED
  BY <1>1, <1>2, <1>3, <1>4, <1>5, <1>6, <1>7 DEF Next


\* What is accepted changes only with the files, the ledger or the epoch.
LEMMA KeptUntouched ==
    ASSUME UNCHANGED <<files, ledger, epochFile>>
    PROVE  Kept' = Kept
  BY DEF Kept, Backs, View, Content

LEMMA KeptWithout ==
    ASSUME Sound, NEW f \in files, files' = files \ {f}, UNCHANGED <<ledger, epochFile>>
    PROVE  Kept' = Kept \ {View(f)}
<1>1. \A g \in files : View(g) = View(f) => g = f
  BY DEF Sound, Own, Identified, View
<1>2. QED
  BY <1>1 DEF Kept, Backs, View, Content

LEMMA KeptUnderNewEpoch ==
    ASSUME Sound, UNCHANGED ledger, epochFile' = count.epoch + 1
    PROVE  Kept' = {}
<1>1. count.epoch \in Nat /\ \A p \in ledger : p.epoch \in Nat /\ p.epoch <= count.epoch
  BY DEF Sound, Own, Past, Typed, TypeOK, Proofs, Counts
<1>2. \A p \in ledger' : p.epoch # epochFile'
  BY <1>1
<1>3. QED
  BY <1>2 DEF Kept, Backs

\* A file that was just written has no proof.
LEMMA KeptWithNewFile ==
    ASSUME Sound, Typed', NEW t \in Topics, NEW time \in Ticks, WriteFile(t, time)
    PROVE  Kept' = Kept /\ Newest' = Newest
<1> DEFINE m == [id |-> count.memory + 1, topic |-> t, time |-> time, origin |-> job.world]
<1>1. count \in Counts /\ count.memory \in Nat /\ job \in Jobs /\ job.phase = "writing"
  BY DEF Sound, Own, Typed, TypeOK, WriteFile
<1>2. count'.memory = count.memory + 1 /\ UNCHANGED <<ledger, epochFile>>
  BY <1>1 DEF WriteFile
<1>3. Stored(m).id = count.memory + 1
  BY DEF Stored
<1>4. files' = files \cup {Stored(m)} /\ job' = [job EXCEPT !.phase = "sealing", !.memory = m]
  BY DEF WriteFile
<1>4a. m \in Memories
  BY <1>1 DEF Memories, Jobs
<1> HIDE DEF m
<1>5. job' # None /\ job'.phase = "sealing"
  <2>1. job' \in Jobs /\ job'.phase = "sealing"
    BY <1>1, <1>4, <1>4a DEF Jobs
  <2>2. QED
    BY <2>1, NoneAssumption
<1>6. Newest' = Newest
  BY <1>1, <1>2, <1>5 DEF Newest, WriteFile
<1>7. \A p \in ledger : p.proof.content.id # count.memory + 1
  BY <1>1 DEF Sound, Own, Identified, Typed, TypeOK, Proofs
<1>8. \A p \in ledger : ~Backs(p, Stored(m))
  BY <1>3, <1>7 DEF Backs, Content
<1>9. \A p, f : Backs(p, f)' <=> Backs(p, f)
  BY <1>2 DEF Backs
<1>10. QED
  BY <1>2, <1>4, <1>6, <1>8, <1>9 DEF Kept, View


\* A proof adds at most the memory that it was made for, whatever is lost for it.
LEMMA KeptWithProof ==
    ASSUME Sound, job # None, job.phase = "sealing", UNCHANGED <<files, epochFile>>,
           ledger' \subseteq ledger \cup {Proved}
    PROVE  \/ Kept' \subseteq Kept
           \/ \E m \in Kept' : m.id = count.memory /\ Kept' \ {m} \subseteq Kept
<1>1. job.memory.id = count.memory
  BY DEF Sound, Own, AtHand
<1>2. \A f \in files : Backs(Proved, f) => f.id = count.memory
  BY <1>1 DEF Backs, Proved, ProofOf, Digest, Content
<1>3. \A p, f : Backs(p, f)' <=> Backs(p, f)
  BY DEF Backs
<1>4. \A m \in Kept' : m \in Kept \/ m.id = count.memory
  BY <1>2, <1>3 DEF Kept, View
<1>5. \A m, n \in Kept' : m.id = n.id => m = n
  BY DEF Sound, Own, Identified, Kept, View
<1>6. CASE \E m \in Kept' : m.id = count.memory
  BY <1>4, <1>5, <1>6
<1>7. CASE ~\E m \in Kept' : m.id = count.memory
  BY <1>4, <1>7
<1>8. QED
  BY <1>6, <1>7

Atomic == [Store!Next]_<<Kept, Newest>>

LEMMA SameIsAtomic ==
    ASSUME Kept' = Kept, Newest' = Newest
    PROVE  Atomic
  BY DEF Atomic

\* A step that touches neither files, proofs nor epoch, and numbers or seals no memory.
LEMMA UntouchedIsAtomic ==
    ASSUME UNCHANGED <<files, ledger, epochFile>>, count'.memory = count.memory,
           \/ job' = job
           \/ /\ job' = None \/ job'.phase # "sealing"
              /\ job = None \/ job.phase # "sealing"
    PROVE  Atomic
<1>1. Newest' = Newest
  BY DEF Newest
<1>2. QED
  BY <1>1, KeptUntouched, SameIsAtomic

LEMMA RemovalIsAtomic ==
    ASSUME Sound, NEW f \in files, files' = files \ {f}, UNCHANGED <<ledger, epochFile, count, job>>
    PROVE  Atomic
<1>1. Kept' = Kept \ {View(f)} /\ Newest' = Newest
  BY KeptWithout DEF Newest
<1>2. CASE View(f) \in Kept
  BY <1>1, <1>2 DEF Atomic, Store!Next, Store!Remove
<1>3. CASE View(f) \notin Kept
  BY <1>1, <1>3, SameIsAtomic
<1>4. QED
  BY <1>2, <1>3

LEMMA RenounceIsAtomic ==
    ASSUME Sound, UNCHANGED <<ledger, job>>, count'.memory = count.memory,
           epochFile' = count.epoch + 1
    PROVE  Atomic
<1>1. Kept' = {} /\ Newest' = Newest
  BY KeptUnderNewEpoch DEF Newest
<1>2. QED
  BY <1>1 DEF Atomic, Store!Next, Store!Renounce

\* What is left of the memory at hand when it is sealed, or given up.
LEMMA SealIsAtomic ==
    ASSUME Sound, job # None, job.phase = "sealing", UNCHANGED <<files, epochFile>>,
           ledger' \subseteq ledger \cup {Proved}, count'.memory = count.memory,
           job' = None \/ job'.phase # "sealing"
    PROVE  Atomic
<1>1. count.memory \in Nat /\ count.memory # 0
  BY DEF Sound, Own, AtHand, Typed, TypeOK
<1>2. Newest' = count.memory /\ Newest' > Newest
  BY <1>1 DEF Newest
<1>3. CASE Kept' \subseteq Kept
  BY <1>2, <1>3 DEF Atomic, Store!Next, Store!Skip
<1>4. CASE \E m \in Kept' : m.id = count.memory /\ Kept' \ {m} \subseteq Kept
  BY <1>2, <1>4 DEF Atomic, Store!Next, Store!Commit
<1>5. QED
  BY <1>3, <1>4, KeptWithProof

LEMMA MemoryStepsAtomic ==
    ASSUME Sound, Typed', MemorySteps
    PROVE  Atomic
<1>0. Typed /\ (job # None => job \in Jobs)
  BY DEF Sound, Own, Typed, TypeOK
<1>1. CASE Resolve \/ Answered
  <2>1. job = None /\ job'.phase # "sealing"
    BY <1>1 DEF Resolve, Answered, NewJob, Idle
  <2>2. QED
    BY <1>1, <2>1, UntouchedIsAtomic DEF Resolve, Answered
<1>2. CASE Ask \/ Reject \/ AllWritten
  <2>1. job' = job \/ (job # None /\ job.phase # "sealing" /\ job'.phase # "sealing")
    BY <1>0, <1>2 DEF Ask, Reject, AllWritten, Jobs
  <2>2. QED
    BY <1>2, <2>1, UntouchedIsAtomic DEF Ask, Reject, AllWritten
<1>3. ASSUME NEW t \in Topics, NEW i \in Ticks, WriteFile(t, i)
      PROVE  Atomic
  BY <1>3, KeptWithNewFile, SameIsAtomic
<1>4. CASE Seal \/ SealFails \/ SealAlone
  <2>1. /\ job # None /\ job.phase = "sealing" /\ UNCHANGED <<files, epochFile, count>>
        /\ ledger' \subseteq ledger \cup {Proved}
    BY <1>4, AppendedSubset DEF Seal, SealFails, SealAlone
  <2>2. job'.phase # "sealing"
    BY <1>0, <1>4, <2>1, SealingTyped, ProceedTyped DEF Seal, SealFails, SealAlone
  <2>3. QED
    BY <2>1, <2>2, SealIsAtomic
<1>5. ASSUME NEW m \in IF job = None THEN {} ELSE job.sealed, List(m)
      PROVE  Atomic
  <2>1. job # None /\ job.phase = "listing" /\ job'.phase # "sealing"
    BY <1>0, <1>5 DEF List, Jobs
  <2>2. QED
    BY <1>5, <2>1, UntouchedIsAtomic DEF List
<1>6. CASE Finish \/ JobFails
  BY <1>6, UntouchedIsAtomic DEF Finish, JobFails
<1>7. QED
  BY <1>1, <1>2, <1>3, <1>4, <1>5, <1>6 DEF MemorySteps


LEMMA StepAtomic ==
    ASSUME Sound, Typed', [Next]_vars
    PROVE  Atomic
<1>0. Typed /\ TypeOK
  BY DEF Sound, Own, Typed
<1>1. CASE UNCHANGED vars
  BY <1>1, UntouchedIsAtomic DEF vars
<1>2. CASE Start
  <2>1. ASSUME NEW f \in files, Quarantine(f)
        PROVE  Atomic
    BY <2>1, RemovalIsAtomic DEF Quarantine
  <2>2. CASE Migrate
    BY <2>2, UntouchedIsAtomic DEF Migrate
  <2>3. ASSUME NEW l \in BOOLEAN, NEW r \in BOOLEAN, Boot(l, r)
        PROVE  Atomic
    <3>1. /\ UNCHANGED <<files, ledger, job>> /\ count'.memory = count.memory
          /\ epochFile' \in {epochFile, count.epoch + 1}
      BY <1>0, <2>3, BootNumbers DEF Boot
    <3>2. QED
      BY <3>1, UntouchedIsAtomic, RenounceIsAtomic
  <2>4. QED
    BY <1>2, <2>1, <2>2, <2>3 DEF Start
<1>3. CASE ResetSteps
  <2>1. CASE Reset
    <3>1. /\ UNCHANGED <<files, ledger, job>> /\ count'.memory = count.memory
          /\ epochFile' \in {epochFile, count.epoch + 1}
      BY <1>0, <2>1, ResetNumbers DEF Reset
    <3>2. QED
      BY <3>1, UntouchedIsAtomic, RenounceIsAtomic
  <2>2. ASSUME NEW f \in files, Unlink(f)
        PROVE  Atomic
    BY <2>2, RemovalIsAtomic DEF Unlink
  <2>3. CASE Name
    BY <1>0, <2>3, UntouchedIsAtomic DEF Name, TypeOK
  <2>4. CASE ClearTable \/ Emptied \/ Create \/ Save \/ ResetFails
    BY <2>4, UntouchedIsAtomic DEF ClearTable, Emptied, Create, Save, ResetFails
  <2>5. QED
    BY <1>3, <2>1, <2>2, <2>3, <2>4 DEF ResetSteps
<1>4. CASE MemorySteps
  BY <1>4, MemoryStepsAtomic
<1>5. CASE \/ Persist \/ SaveSnapshot \/ SaveFails \/ LoadSnapshot \/ LoadFails
           \/ LoseKey \/ RestoreKey
  BY <1>5, UntouchedIsAtomic
     DEF Persist, SaveSnapshot, SaveFails, LoadSnapshot, LoadFails, LoseKey, RestoreKey
<1>6. CASE Crash
  <2>1. /\ UNCHANGED <<files, ledger, epochFile>> /\ count'.memory = count.memory
        /\ job' = None
    BY <1>0, <1>6 DEF Crash, Halted, TypeOK
  <2>2. CASE job # None /\ job.phase = "sealing"
    BY <2>1, <2>2, SealIsAtomic
  <2>3. CASE job = None \/ job.phase # "sealing"
    BY <2>1, <2>3, UntouchedIsAtomic
  <2>4. QED
    BY <2>2, <2>3
<1>7. QED
  BY <1>1, <1>2, <1>3, <1>4, <1>5, <1>6 DEF Next

\* Of all the steps in which a memory is written, sealed, given up, removed or lost with its
\* epoch, a reader of the three files sees only those of DurableMemory
\* (vault.write, seal_memory_record, verify_memory_record, rotate_authority_epoch).
THEOREM StoresAreAtomic == Spec => MemoriesAtomic
<1>1. Init => Store!Init
  BY DEF Init, Store!Init, Kept, Newest
<1>2. Init => Sound
  BY InitOwn, InitPast DEF Sound
<1>3. Sound /\ [Next]_vars => Sound' /\ Atomic
  BY StepOwn, StepPast, StepAtomic DEF Sound, Own
<1>4. QED
  BY <1>1, <1>2, <1>3, PTL DEF Spec, MemoriesAtomic, Store!Spec, Atomic

\* A memory that was up for acceptance and is not among those that are kept.
GivenUp(n) == n <= Newest /\ \A m \in Kept : m.id # n

LEMMA StepGivenUp ==
    ASSUME NEW n \in Nat, Sound, Sound', Atomic, GivenUp(n)
    PROVE  GivenUp(n)'
<1>1. Newest \in Nat /\ Newest' \in Nat
  <2>1. /\ count.memory \in Nat
        /\ job # None /\ job.phase = "sealing" => count.memory # 0
        /\ count'.memory \in Nat
        /\ job' # None /\ job'.phase = "sealing" => count'.memory # 0
    BY DEF Sound, Own, AtHand, Typed, TypeOK
  <2>2. QED
    BY <2>1 DEF Newest
<1>2. CASE Store!Commit
  <2>1. PICK m \in Kept' : m.id = Newest' /\ Kept' \ {m} \subseteq Kept /\ Newest' > Newest
    BY <1>2 DEF Store!Commit
  <2>2. m.id # n /\ n <= Newest'
    BY <1>1, <2>1 DEF GivenUp
  <2>3. QED
    BY <2>1, <2>2 DEF GivenUp
<1>3. CASE Store!Skip
  BY <1>1, <1>3 DEF Store!Skip, GivenUp
<1>4. CASE Store!Renounce
  BY <1>4 DEF Store!Renounce, GivenUp
<1>5. ASSUME NEW m \in Kept, Store!Remove(m)
      PROVE  GivenUp(n)'
  BY <1>5 DEF Store!Remove, GivenUp
<1>6. CASE UNCHANGED <<Kept, Newest>>
  BY <1>6 DEF GivenUp
<1>7. QED
  BY <1>2, <1>3, <1>4, <1>5, <1>6 DEF Atomic, Store!Next

\* What DurableMemory is for, of the files themselves: a memory that was rejected, dropped
\* by a full ledger, removed, or lost with its epoch is not accepted ever again under the
\* authority on record, whatever resets, loads, starts and keys put back come later.
THEOREM NoMemoryReturns ==
    ASSUME NEW n \in Nat
    PROVE  Spec => [](GivenUp(n) => []GivenUp(n))
<1>1. Init => Sound
  BY InitOwn, InitPast DEF Sound
<1>2. Sound /\ [Next]_vars => Sound'
  BY StepOwn, StepPast DEF Sound, Own
<1>3. Sound /\ Sound' /\ [Next]_vars /\ GivenUp(n) => GivenUp(n)'
  <2>1. Sound /\ Sound' /\ [Next]_vars => Atomic
    BY StepAtomic DEF Sound, Own
  <2>2. QED
    BY <2>1, StepGivenUp
<1>4. QED
  BY <1>1, <1>2, <1>3, PTL DEF Spec

-----------------------------------------------------------------------------
(* What is announced stays accepted, if the file keeps its time. *)

Proven(m, k, e, fs, l) == Exact(m) => m \in fs /\ ProofOf(m, k, e, m.origin) \in l

\* Whoever takes this image up with this key alone accepts what it announces of its world.
Announced(image, fs, l) ==
    \A k \in Nat : image.provers \subseteq {k} =>
        \A m \in image.writes : m.origin = image.world => Proven(m, k, image.epoch, fs, l)

\* A key seals whatever it is attached to; what was saved without an epoch announces nothing.
Attaching ==
    /\ \A carrier \in {saved, snapshot, agent} : carrier # None => 0 \notin carrier.provers
    /\ agent # None /\ key # 0 => key \in agent.provers
    /\ \A image \in {saved, snapshot} : image # None /\ image.epoch = 0 => image.writes = {}
    /\ ~migrated => snapshot = None /\ (saved # None => saved.epoch = 0)

\* When files are unlinked there is nothing saved that could name them.
Cleared ==
    /\ stage \in {"memories", "state", "vault"} => snapshot = None
    /\ stage = "vault" => saved = None

\* No world is younger than the newest.
Counted ==
    /\ world <= count.world
    /\ \A carrier \in {saved, snapshot, agent, asked, job} :
          carrier # None => carrier.world <= count.world

\* An authority that was taken before a rotation is for a world that is older than the live
\* one and than any that could be loaded.
JobDated ==
    \A context \in {asked, job} : context # None /\ context.key # 0 =>
        /\ context.key = key
        /\ ~torn /\ context.epoch # epochFile =>
              /\ stage \in {"creating", "saving", "idle"} => context.world < world
              /\ snapshot # None /\ stage \notin {"events", "snapshots"}
                    => context.world < snapshot.world

Bound == Own /\ Dated /\ Attaching /\ Cleared /\ Counted /\ JobDated

LEMMA InitBound == Init => Bound
<1> SUFFICES ASSUME Init PROVE Bound
  OBVIOUS
<1>1. Own /\ Dated
  BY InitOwn, InitDated
<1>2. /\ stage = "down" /\ snapshot = None /\ agent = None /\ asked = None /\ job = None
      /\ count.world = 1 /\ world = 0
      /\ (saved # None => saved.epoch = 0 /\ saved.writes = {} /\ saved.provers = {}
                            /\ saved.world = 1)
  BY DEF Init
<1>3. QED
  BY <1>1, <1>2 DEF Bound, Attaching, Cleared, Counted, JobDated

\* What the steps need of the types.
LEMMA BoundTyped ==
    ASSUME Bound
    PROVE  /\ Typed /\ TypeOK /\ Working /\ count \in Counts /\ count.world \in Nat
           /\ key \in Nat /\ world \in Nat /\ epochFile \in Nat
           /\ \A carrier \in {saved, snapshot, agent, asked, job} :
                 carrier # None => carrier.world \in Nat
           /\ \A image \in {saved, snapshot} : image # None =>
                 /\ image \in Images /\ image.world \in Nat /\ image.epoch \in Nat
                 /\ image.provers \in SUBSET Nat /\ image.writes \in SUBSET Memories
           /\ agent # None => agent \in Agents /\ agent.provers \in SUBSET Nat
                              /\ agent.world \in Nat /\ agent.epoch \in Nat
           /\ job # None => job \in Jobs /\ job.world \in Nat /\ job.key \in Nat
                              /\ job.sealed \in SUBSET Memories
<1>1. Typed /\ TypeOK /\ Working
  BY DEF Bound, Own, Typed
<1>2. QED
  BY <1>1 DEF TypeOK, Images, Agents, Contexts, Jobs

\* Steps that go on in the same stage, with the same worlds and no other authority at work.
LEMMA BoundUntouched ==
    ASSUME Bound, Own', Dated',
           UNCHANGED <<epochFile, saved, snapshot, key, agent, world>>,
           count'.world = count.world, stage' = stage, torn \in BOOLEAN, torn => torn',
           migrated => migrated',
           \A context \in {asked', job'} : context # None =>
               \E taken \in {asked, job} :
                   /\ taken # None /\ context.key = taken.key
                   /\ context.epoch = taken.epoch /\ context.world = taken.world
    PROVE  Bound'
  BY DEF Bound, Attaching, Cleared, Counted, JobDated

\* Whoever attaches a key that can read its epoch leaves no proof by no key.
LEMMA AttachedProvers ==
    ASSUME NEW provers \in SUBSET Nat, NEW k \in Nat, NEW e \in Nat, k # 0 => e # 0,
           0 \notin provers
    PROVE  /\ 0 \notin SealStarters(provers, k, e)
           /\ k # 0 => k \in SealStarters(provers, k, e)
           /\ provers \subseteq SealStarters(provers, k, e)
  BY SealStartersTyped

LEMMA BootBound ==
    ASSUME Bound, Own', Dated', NEW l \in BOOLEAN, NEW r \in BOOLEAN, Boot(l, r)
    PROVE  Bound'
<1>1. /\ TypeOK /\ stage = "down" /\ asked = None /\ job = None /\ migrated
      /\ UNCHANGED <<saved, snapshot, migrated, asked, job, torn>>
      /\ stage' \in {"idle", "naming"}
  BY BoundTyped DEF Boot, TypeOK
<1>2. /\ count'.world = count.world /\ key' \in Nat /\ epochFile' \in Nat /\ (key' # 0 => r)
  BY <1>1, BootNumbers
<1>3. epochFile' # 0
  BY <1>1 DEF Dated, Epochal
<1>4. Cleared' /\ JobDated'
  BY <1>1 DEF Cleared, JobDated
<1>5. CASE stage' = "naming"
  <2>1. agent' = None /\ world' = world
    BY <1>1, <1>5 DEF Boot, TypeOK
  <2>2. QED
    BY <1>1, <1>2, <1>4, <1>5, <2>1 DEF Bound, Attaching, Counted
<1>6. CASE stage' = "idle"
  <2>1. /\ saved # None /\ RestoreFrom(saved, key', LiveEpoch(r)) /\ LiveEpoch(r) \in Nat
        /\ (r => LiveEpoch(r) # 0)
    BY <1>1, <1>2, <1>3, <1>6 DEF Boot, Restorable, LiveEpoch
  <2>2. saved \in Images /\ saved.provers \in SUBSET Nat /\ saved.world <= count.world
        /\ 0 \notin saved.provers
    BY <2>1, BoundTyped DEF Bound, Attaching, Counted
  <2>3. /\ world' = saved.world /\ agent'.world = saved.world
        /\ agent'.provers = SealStarters(saved.provers, key', LiveEpoch(r))
    BY <1>2, <2>1, <2>2, RestoredTyped
  <2>4. 0 \notin agent'.provers /\ (key' # 0 => key' \in agent'.provers)
    BY <1>2, <2>1, <2>2, <2>3, AttachedProvers
  <2>5. Attaching'
    BY <1>1, <2>4 DEF Bound, Attaching
  <2>6. Counted'
    BY <1>1, <1>2, <2>2, <2>3 DEF Bound, Counted
  <2>7. QED
    BY <1>4, <2>5, <2>6 DEF Bound
<1>7. QED
  BY <1>1, <1>5, <1>6

LEMMA ResetStepsBound ==
    ASSUME Bound, Own', Dated', ResetSteps
    PROVE  Bound'
<1>0. /\ TypeOK /\ Working /\ count \in Counts /\ count.world \in Nat
      /\ key \in Nat /\ epochFile \in Nat /\ world \in Nat /\ torn \in BOOLEAN
      /\ \A carrier \in {saved, snapshot, agent, asked, job} :
            carrier # None => carrier.world \in Nat
  BY BoundTyped DEF TypeOK
<1>1. CASE Reset
  <2>1. count'.world = count.world
    BY <1>0, <1>1, ResetNumbers
  <2>2. /\ UNCHANGED <<saved, snapshot, migrated, key, world, agent, work, torn>>
        /\ stage' = "events"
    BY <1>1 DEF Reset
  <2>3. QED
    BY <2>1, <2>2 DEF Bound, Attaching, Cleared, Counted, JobDated
<1>2. CASE ClearTable
  <2>1. /\ UNCHANGED <<disk, migrated, key, world, agent, work, count, torn>>
        /\ \/ stage' = "snapshots" /\ UNCHANGED <<snapshot, saved>>
           \/ stage' = "memories" /\ snapshot' = None /\ UNCHANGED saved
           \/ stage = "memories" /\ stage' = "state" /\ UNCHANGED <<snapshot, saved>>
           \/ stage = "state" /\ stage' = "vault" /\ UNCHANGED snapshot /\ saved' = None
    BY <1>2 DEF ClearTable
  <2>2. QED
    BY <2>1 DEF Bound, Attaching, Cleared, Counted, JobDated
<1>3. ASSUME NEW f \in files, Unlink(f)
      PROVE  Bound'
  BY <1>0, <1>3, BoundUntouched DEF Unlink
<1>4. CASE Emptied
  <2>1. /\ UNCHANGED <<disk, saved, snapshot, migrated, key, world, agent, work, count, torn>>
        /\ stage = "vault" /\ stage' = "naming"
    BY <1>4 DEF Emptied
  <2>2. QED
    BY <2>1 DEF Bound, Attaching, Cleared, Counted, JobDated
<1>5. CASE Name
  <2>1. count'.world = count.world + 1 /\ world' = count.world + 1
    BY <1>0, <1>5 DEF Name
  <2>2. /\ UNCHANGED <<disk, saved, snapshot, migrated, key, agent, work, torn>>
        /\ stage = "naming" /\ stage' = "creating"
    BY <1>5 DEF Name
  <2>3. Counted'
    <3>1. \A carrier \in {saved, snapshot, agent, asked, job} : carrier # None =>
            carrier.world <= count.world
      BY Zenon DEF Bound, Counted
    <3>2. \A carrier \in {saved, snapshot, agent, asked, job} : carrier # None =>
            carrier.world <= count'.world
      BY <1>0, <2>1, <3>1
    <3>3. QED
      BY <1>0, <2>1, <2>2, <3>2 DEF Counted
  <2>4. JobDated'
    BY <1>0, <2>1, <2>2 DEF Bound, Counted, JobDated
  <2>5. QED
    BY <2>2, <2>3, <2>4 DEF Bound, Attaching, Cleared
<1>6. CASE Create
  <2>1. /\ UNCHANGED <<disk, saved, snapshot, migrated, key, world, work, count, torn>>
        /\ agent'.provers = SealStarters({}, key, epochFile)
        /\ stage = "creating" /\ stage' = "saving"
    BY <1>6 DEF Create
  <2>2. epochFile # 0
    BY <2>1 DEF Bound, Dated, Epochal
  <2>3. 0 \notin agent'.provers /\ (key # 0 => key \in agent'.provers)
    BY <2>1, <2>2 DEF SealStarters, SealRecord, HasPayload, Authority
  <2>4. agent'.world = world
    BY <1>0, <1>6, AuthorityTyped DEF Create
  <2>5. QED
    BY <2>1, <2>3, <2>4 DEF Bound, Attaching, Cleared, Counted, JobDated
<1>7. CASE Save
  <2>1. agent # None /\ stage = "saving" /\ epochFile # 0 /\ migrated
    BY <1>0, <1>7 DEF Save, TypeOK, Bound, Dated, Epochal, Working
  <2>2. /\ Image # None /\ Image.provers = agent.provers /\ Image.epoch # 0
        /\ Image.world = world
    BY <1>0, <2>1, ImageTyped
  <2>3. /\ UNCHANGED <<disk, snapshot, migrated, key, world, agent, work, count, torn>>
        /\ saved' = Image /\ stage' = "idle"
    BY <1>7 DEF Save
  <2>4. Attaching'
    BY <2>1, <2>2, <2>3 DEF Bound, Attaching
  <2>5. Cleared'
    BY <2>3 DEF Cleared
  <2>6. Counted'
    BY <2>2, <2>3 DEF Bound, Counted
  <2>7. JobDated'
    BY <2>1, <2>3 DEF Bound, JobDated
  <2>8. QED
    BY <2>4, <2>5, <2>6, <2>7 DEF Bound
<1>8. CASE ResetFails
  BY <1>0, <1>8 DEF ResetFails, Bound, Attaching, Cleared, Counted, JobDated
<1>9. QED
  BY <1>1, <1>2, <1>3, <1>4, <1>5, <1>6, <1>7, <1>8 DEF ResetSteps

LEMMA MemoryStepsBound ==
    ASSUME Bound, Own', Dated', MemorySteps
    PROVE  Bound'
<1>0. /\ Typed /\ torn \in BOOLEAN /\ count \in Counts
      /\ job # None => job \in Jobs
  BY BoundTyped DEF TypeOK
<1>1. CASE Resolve \/ Ask
  <2>1. /\ Held.key = key /\ Held.epoch = agent.epoch /\ Held.world = agent.world
        /\ stage = "idle" /\ agent # None
    BY <1>0, <1>1, HeldTyped DEF Resolve, Ask, Idle, Typed, TypeOK
  <2>2. UNCHANGED <<disk, vault, database, process, failed, count, history>>
    BY <1>1 DEF Resolve, Ask
  <2>3. ~torn /\ key # 0 => agent.epoch = epochFile
    BY <2>1 DEF Bound, Dated, Attached
  <2>4. \A context \in {asked', job'} : \/ context \in {asked, job}
                                       \/ /\ context.key = key /\ context.epoch = agent.epoch
                                          /\ context.world = agent.world
    BY <1>1, <2>1 DEF Resolve, Ask, NewJob
  <2>5. JobDated'
    BY <1>0, <2>2, <2>3, <2>4 DEF Bound, JobDated
  <2>6. Counted'
    BY <2>1, <2>2, <2>4 DEF Bound, Counted
  <2>7. QED
    BY <2>2, <2>5, <2>6 DEF Bound, Attaching, Cleared
<1>2. CASE Answered
  <2>1. /\ asked # None /\ asked' = None /\ job'.key = asked.key /\ job'.epoch = asked.epoch
        /\ job'.world = asked.world /\ UNCHANGED <<disk, vault, database, process, count, history>>
    BY <1>2 DEF Answered, NewJob
  <2>2. QED
    BY <1>0, <2>1, BoundUntouched
<1>8. CASE Reject \/ AllWritten
  <2>1. job # None /\ job'.key = job.key /\ job'.epoch = job.epoch /\ job'.world = job.world
    BY <1>0, <1>8 DEF Reject, AllWritten, Jobs
  <2>2. QED
    BY <1>0, <1>8, <2>1, BoundUntouched DEF Reject, AllWritten
<1>3. ASSUME NEW t \in Topics, NEW i \in Ticks, WriteFile(t, i)
      PROVE  Bound'
  <2>1. count'.world = count.world
    BY <1>0, <1>3 DEF WriteFile
  <2>2. job # None /\ job'.key = job.key /\ job'.epoch = job.epoch /\ job'.world = job.world
    BY <1>0, <1>3 DEF WriteFile, Jobs
  <2>3. QED
    BY <1>0, <1>3, <2>1, <2>2, BoundUntouched DEF WriteFile
<1>4. CASE Seal \/ SealFails \/ SealAlone
  <2>1. job # None /\ job'.key = job.key /\ job'.epoch = job.epoch /\ job'.world = job.world
    BY <1>0, <1>4, SealingTyped, ProceedTyped DEF Seal, SealFails, SealAlone
  <2>2. /\ UNCHANGED <<disk, database, process, asked, count>> /\ (torn => torn')
    BY <1>4 DEF Seal, SealFails, SealAlone
  <2>3. QED
    BY <1>0, <2>1, <2>2, BoundUntouched
<1>5. ASSUME NEW m, List(m)
      PROVE  Bound'
  <2>1. job # None /\ job'.key = job.key /\ job'.epoch = job.epoch /\ job'.world = job.world
    BY <1>0, <1>5 DEF List, Jobs
  <2>2. QED
    BY <1>0, <1>5, <2>1, BoundUntouched DEF List
<1>6. CASE Finish \/ JobFails
  BY <1>0, <1>6, BoundUntouched DEF Finish, JobFails
<1>7. QED
  BY <1>1, <1>2, <1>3, <1>4, <1>5, <1>6, <1>8 DEF MemorySteps

LEMMA StatesBound ==
    ASSUME Bound, Own', Dated',
           Persist \/ SaveSnapshot \/ SaveFails \/ LoadSnapshot \/ LoadFails
    PROVE  Bound'
<1>0. /\ Typed /\ TypeOK /\ stage = "idle" /\ agent # None /\ epochFile # 0 /\ migrated
      /\ epochFile \in Nat /\ key \in Nat /\ torn \in BOOLEAN
  BY BoundTyped DEF Persist, SaveSnapshot, SaveFails, LoadSnapshot, LoadFails, Idle, TypeOK,
                    Working, Bound, Dated, Epochal
<1>1. CASE Persist \/ SaveSnapshot \/ SaveFails
  <2>1. /\ Image # None /\ Image.provers = agent.provers /\ Image.epoch # 0
        /\ Image.world = world
    BY <1>0, ImageTyped
  <2>2. /\ saved' \in {Image, saved} /\ snapshot' \in {Image, snapshot}
        /\ UNCHANGED <<disk, migrated, process, work, count, torn>>
    BY <1>1 DEF Persist, SaveSnapshot, SaveFails
  <2>3. Attaching'
    BY <1>0, <2>1, <2>2 DEF Bound, Attaching
  <2>4. Cleared' /\ Counted'
    BY <1>0, <2>1, <2>2 DEF Bound, Cleared, Counted
  <2>5. JobDated'
    BY <1>0, <2>1, <2>2 DEF Bound, JobDated
  <2>6. QED
    BY <2>3, <2>4, <2>5 DEF Bound
<1>2. CASE LoadSnapshot \/ LoadFails
  <2>1. snapshot # None /\ snapshot \in Images /\ RestoreFrom(snapshot, key, epochFile)
    BY <1>0, <1>2 DEF LoadSnapshot, LoadFails, Restorable, TypeOK
  <2>2. /\ world' = snapshot.world /\ agent'.world = snapshot.world
        /\ agent'.provers = SealStarters(snapshot.provers, key, epochFile)
        /\ snapshot.provers \in SUBSET Nat
    BY <1>0, <2>1, RestoredTyped DEF Images
  <2>3. /\ UNCHANGED <<disk, snapshot, migrated, stage, key, work, count, torn>>
        /\ \/ saved' = saved
           \/ saved' = [world |-> world', epoch |-> epochFile, provers |-> agent'.provers,
                        writes |-> writes']
    BY <1>2 DEF LoadSnapshot, LoadFails
  <2>4. 0 \notin agent'.provers /\ (key # 0 => key \in agent'.provers)
    BY <1>0, <2>1, <2>2, AttachedProvers DEF Bound, Attaching
  <2>5. Attaching'
    BY <1>0, <2>1, <2>3, <2>4 DEF Bound, Attaching
  <2>6. Cleared' /\ Counted'
    BY <1>0, <2>1, <2>2, <2>3 DEF Bound, Cleared, Counted
  <2>7. JobDated'
    BY <1>0, <2>1, <2>2, <2>3 DEF Bound, JobDated
  <2>8. QED
    BY <2>5, <2>6, <2>7 DEF Bound
<1>3. QED
  BY <1>1, <1>2

LEMMA StepBound == Bound /\ [Next]_vars => Bound'
<1> SUFFICES ASSUME Bound, [Next]_vars PROVE Bound'
  OBVIOUS
<1>0. /\ Own' /\ Dated' /\ torn \in BOOLEAN /\ migrated \in BOOLEAN /\ count \in Counts
      /\ TypeOK
  BY BoundTyped, StepOwn, StepDated DEF Bound, TypeOK
<1>1. CASE UNCHANGED vars
  BY <1>0, <1>1 DEF vars, Bound, Attaching, Cleared, Counted, JobDated
<1>2. ASSUME NEW f \in files, Quarantine(f)
      PROVE  Bound'
  BY <1>0, <1>2 DEF Quarantine, Bound, Attaching, Cleared, Counted, JobDated
<1>3. CASE Migrate
  BY <1>0, <1>3 DEF Migrate, Bound, Attaching, Cleared, Counted, JobDated
<1>4. CASE Start
  BY <1>0, <1>2, <1>3, <1>4, BootBound DEF Start
<1>5. CASE ResetSteps
  BY <1>0, <1>5, ResetStepsBound
<1>6. CASE MemorySteps
  BY <1>0, <1>6, MemoryStepsBound
<1>7. CASE Persist \/ SaveSnapshot \/ SaveFails \/ LoadSnapshot \/ LoadFails
  BY <1>0, <1>7, StatesBound
<1>8. CASE Crash
  <2>1. count'.world = count.world /\ count.world \in Nat
    BY <1>0, <1>8 DEF Crash
  <2>2. /\ UNCHANGED <<disk, database, ended, torn>> /\ stage' = "down" /\ key' = 0
        /\ world' = 0 /\ agent' = None /\ asked' = None /\ job' = None
    BY <1>8 DEF Crash, Halted
  <2>3. QED
    BY <1>0, <2>1, <2>2 DEF Bound, Attaching, Cleared, Counted, JobDated
<1>9. CASE LoseKey \/ RestoreKey
  BY <1>0, <1>9 DEF LoseKey, RestoreKey, Bound, Attaching, Cleared, Counted, JobDated
<1>10. QED
  BY <1>1, <1>4, <1>5, <1>6, <1>7, <1>8, <1>9 DEF Next

LEMMA AlwaysBound == Spec => []Bound
  BY InitBound, StepBound, PTL DEF Spec

\* Nothing has been torn and the ledger has not been full: no entry was given up.
Lasting == ~torn /\ Cardinality(ledger) < MaxLedger

\* A full ledger stays full, since a proof is never written twice.
LEMMA LedgerLasts ==
    ASSUME Own, IsFiniteSet(ledger), [Next]_vars
    PROVE  IsFiniteSet(ledger') /\ (Lasting' => Lasting /\ ledger \subseteq ledger')
<1>0. Typed /\ torn \in BOOLEAN /\ MaxLedger \in Nat /\ Cardinality(ledger) \in Nat
  BY FS_CardinalityType DEF Own, Typed, TypeOK
<1>1. CASE ledger' = ledger /\ (torn' = torn \/ torn')
  BY <1>0, <1>1 DEF Lasting
<1>2. CASE Seal
  <2>1. job # None /\ job.phase = "sealing" /\ ledger' \in Appended(Proved) /\ torn' = torn
    BY <1>2 DEF Seal
  <2>2. Proved \notin ledger
    <3>1. Proved.id = count.memory
      BY <2>1 DEF Own, AtHand, Proved, ProofOf
    <3>2. QED
      BY <2>1, <3>1 DEF Own, AtHand
  <2>3. CASE Cardinality(ledger) < MaxLedger
    <3>1. ledger' = ledger \cup {Proved}
      BY <2>1, <2>3 DEF Appended
    <3>2. QED
      BY <2>1, <2>3, <3>1, FS_AddElement DEF Lasting
  <2>4. CASE ~(Cardinality(ledger) < MaxLedger)
    <3>1. PICK x \in ledger : ledger' = (ledger \ {x}) \cup {Proved}
      BY <2>1, <2>4 DEF Appended
    <3>2. /\ IsFiniteSet(ledger \ {x}) /\ Cardinality(ledger \ {x}) = Cardinality(ledger) - 1
          /\ Proved \notin ledger \ {x}
      BY <2>2, FS_RemoveElement
    <3>3. /\ IsFiniteSet(ledger')
          /\ Cardinality(ledger') = Cardinality(ledger) - 1 + 1
      BY <3>1, <3>2, FS_AddElement
    <3>4. ~(Cardinality(ledger') < MaxLedger)
      BY <1>0, <2>4, <3>3
    <3>5. QED
      BY <3>3, <3>4 DEF Lasting
  <2>5. QED
    BY <2>3, <2>4
<1>3. CASE SealAlone
  BY <1>3, FS_Singleton DEF SealAlone, Lasting
<1>4. CASE ~Seal /\ ~SealAlone
  <2>1. ledger' = ledger /\ (torn' = torn \/ torn')
    <3>1. CASE UNCHANGED vars
      BY <3>1 DEF vars
    <3>2. CASE Start
      BY <3>2 DEF Start, Quarantine, Migrate, Boot
    <3>3. CASE ResetSteps
      BY <3>3 DEF ResetSteps, Reset, ClearTable, Unlink, Emptied, Name, Create, Save, ResetFails
    <3>4. CASE MemorySteps
      BY <1>4, <3>4 DEF MemorySteps, Resolve, Ask, Answered, Reject, WriteFile, SealFails,
                        AllWritten, List, Finish, JobFails
    <3>5. CASE \/ Persist \/ SaveSnapshot \/ SaveFails \/ LoadSnapshot \/ LoadFails
               \/ Crash \/ LoseKey \/ RestoreKey
      BY <3>5 DEF Persist, SaveSnapshot, SaveFails, LoadSnapshot, LoadFails, Crash, LoseKey,
                  RestoreKey
    <3>6. QED
      BY <3>1, <3>2, <3>3, <3>4, <3>5 DEF Next
  <2>2. QED
    BY <1>1, <2>1
<1>5. QED
  BY <1>2, <1>3, <1>4

\* What a job has sealed is proven by the authority that it took.
JobProven ==
    job # None =>
        /\ job.phase = "sealing" /\ Exact(job.memory) => job.memory \in files
        /\ \A m \in job.sealed :
              m.origin = job.world /\ job.key # 0 /\ Proven(m, job.key, job.epoch, files, ledger)

Announcing ==
    /\ \A image \in {saved, snapshot} : image # None => Announced(image, files, ledger)
    /\ stage \in {"saving", "idle"} => Announced(Image, files, ledger)
    /\ JobProven

Backed == Bound /\ IsFiniteSet(ledger) /\ (Lasting => Announcing)

\* More files and more proofs back what fewer did.
LEMMA AnnouncedByMore ==
    ASSUME NEW image, NEW fs, NEW l, NEW fs2, NEW l2, fs \subseteq fs2, l \subseteq l2,
           Announced(image, fs, l)
    PROVE  Announced(image, fs2, l2)
  BY DEF Announced, Proven

\* What is made of an image announces no more, if it has its epoch and what it carried.
LEMMA AnnouncedOfSame ==
    ASSUME NEW image, NEW other, NEW fs, NEW l, Announced(image, fs, l),
           other.world = image.world, other.writes = image.writes,
           image.provers \subseteq other.provers,
           other.epoch = image.epoch \/ image.writes = {}
    PROVE  Announced(other, fs, l)
  BY DEF Announced

LEMMA InitBacked == Init => Backed
<1> SUFFICES ASSUME Init PROVE Backed
  OBVIOUS
<1>1. Bound
  BY InitBound
<1>2. /\ ledger = {} /\ stage = "down" /\ snapshot = None /\ job = None
      /\ (saved # None => saved.writes = {})
  BY DEF Init
<1>3. QED
  BY <1>1, <1>2, FS_EmptySet DEF Backed, Announcing, Announced, JobProven

\* Steps that leave the process and its states, and at most add to files and ledger.
LEMMA AnnouncingUntouched ==
    ASSUME Announcing, UNCHANGED <<saved, snapshot, epochFile, world, agent, writes>>,
           files \subseteq files', ledger \subseteq ledger',
           stage' = stage \/ stage' \notin {"saving", "idle"},
           JobProven'
    PROVE  Announcing'
<1>1. \A image \in {saved, snapshot} : image # None => Announced(image, files', ledger')
  BY AnnouncedByMore DEF Announcing
<1>2. stage' \in {"saving", "idle"} => Announced(Image, files', ledger')
  BY AnnouncedByMore DEF Announcing
<1>3. Image' = Image
  BY DEF Image
<1>4. QED
  BY <1>1, <1>2, <1>3 DEF Announcing

LEMMA JobProvenUntouched ==
    ASSUME JobProven, job' \in {job, None}, files \subseteq files', ledger \subseteq ledger'
    PROVE  JobProven'
  BY DEF JobProven, Proven

\* A start takes up the state of the epoch that it finds, or one that announces nothing.
LEMMA BootAnnouncing ==
    ASSUME Bound, Bound', Announcing, NEW l \in BOOLEAN, NEW r \in BOOLEAN, Boot(l, r)
    PROVE  Announcing'
<1>1. /\ TypeOK /\ job = None /\ stage' \in {"idle", "naming"}
      /\ UNCHANGED <<files, ledger, saved, snapshot, job>>
      /\ key' \in Nat /\ epochFile' \in Nat
  BY BoundTyped, BootNumbers DEF Boot, TypeOK
<1>2. JobProven'
  BY <1>1 DEF JobProven
<1>3. CASE stage' = "naming"
  BY <1>1, <1>2, <1>3 DEF Announcing
<1>4. CASE stage' = "idle"
  <2>1. /\ saved # None /\ saved.epoch \in {0, LiveEpoch(r)} /\ LiveEpoch(r) \in {0, epochFile'}
        /\ RestoreFrom(saved, key', LiveEpoch(r)) /\ LiveEpoch(r) \in Nat
    BY <1>1, <1>4 DEF Boot, Restorable, LiveEpoch
  <2>2. saved \in Images /\ saved.provers \in SUBSET Nat
    BY <2>1, BoundTyped
  <2>3. /\ world' = saved.world /\ writes' = saved.writes
        /\ agent'.provers = SealStarters(saved.provers, key', LiveEpoch(r))
    BY <1>1, <2>1, <2>2, RestoredTyped
  <2>4. saved.provers \subseteq agent'.provers
    <3>1. SealStarters(saved.provers, key', LiveEpoch(r)) \in {saved.provers, saved.provers \cup {key'}}
      BY <1>1, <2>1, <2>2, SealStartersTyped
    <3>2. QED
      BY <2>3, <3>1
  <2>5. saved.epoch = epochFile' \/ saved.writes = {}
    BY <2>1 DEF Bound, Attaching
  <2>6. /\ Image'.world = saved.world /\ Image'.writes = saved.writes
        /\ saved.provers \subseteq Image'.provers /\ Image'.epoch = epochFile'
    BY <2>3, <2>4 DEF Image
  <2>7. Announced(Image', files, ledger)
    BY <2>1, <2>5, <2>6, AnnouncedOfSame DEF Announcing
  <2>8. QED
    BY <1>1, <1>2, <2>7 DEF Announcing
<1>5. QED
  BY <1>1, <1>3, <1>4

LEMMA ResetStepsAnnouncing ==
    ASSUME Bound, Announcing, ResetSteps, torn' = FALSE
    PROVE  Announcing'
<1>0. Typed /\ TypeOK /\ Working
  BY BoundTyped
<1>1. CASE Reset \/ ClearTable \/ Emptied \/ Name
  <2>1. /\ UNCHANGED <<files, ledger, job>>
        /\ saved' \in {saved, None} /\ snapshot' \in {snapshot, None}
        /\ stage' \notin {"saving", "idle"}
    BY <1>1 DEF Reset, ClearTable, Emptied, Name
  <2>2. JobProven'
    BY <2>1, JobProvenUntouched DEF Announcing
  <2>3. QED
    BY <2>1, <2>2 DEF Announcing
<1>2. ASSUME NEW f \in files, Unlink(f)
      PROVE  Announcing'
  <2>1. /\ saved' = None /\ snapshot' = None /\ job' = job /\ stage' = "vault" /\ stage = "vault"
    BY <1>2 DEF Unlink, Bound, Cleared
  <2>2. job = None
    BY <1>0, <2>1 DEF Working
  <2>3. QED
    BY <2>1, <2>2 DEF Announcing, JobProven
<1>3. CASE Create
  <2>1. /\ UNCHANGED <<files, ledger, saved, snapshot, job>> /\ writes' = {}
    BY <1>3 DEF Create
  <2>2. JobProven'
    BY <2>1, JobProvenUntouched DEF Announcing
  <2>3. Announced(Image', files, ledger)
    BY <2>1 DEF Announced, Image
  <2>4. QED
    BY <2>1, <2>2, <2>3 DEF Announcing
<1>4. CASE Save
  <2>1. /\ UNCHANGED <<files, ledger, snapshot, job, epochFile, world, agent, writes>>
        /\ saved' = Image /\ stage = "saving"
    BY <1>4 DEF Save
  <2>2. Image' = Image /\ JobProven'
    BY <2>1, JobProvenUntouched DEF Image, Announcing
  <2>3. QED
    BY <2>1, <2>2 DEF Announcing
<1>5. CASE ResetFails
  BY <1>5 DEF ResetFails
<1>6. QED
  BY <1>1, <1>2, <1>3, <1>4, <1>5 DEF ResetSteps

\* What is listed has been sealed by the key that the agent carries, under its epoch if it
\* is of its world.
LEMMA ListAnnouncing ==
    ASSUME Bound, Announcing, ~torn, NEW m, List(m)
    PROVE  Announcing'
<1>1. /\ job # None /\ job \in Jobs /\ m \in job.sealed /\ stage = "idle" /\ agent # None
      /\ writes' = writes \cup {m} /\ job' = [job EXCEPT !.sealed = @ \ {m}]
      /\ job.phase = "listing"
      /\ UNCHANGED <<files, ledger, saved, snapshot, stage, epochFile, key, world, agent>>
  BY BoundTyped DEF List, TypeOK, Working
<1>2. JobProven'
  <2>1. /\ job'.phase = "listing" /\ job'.sealed \subseteq job.sealed /\ job'.key = job.key
        /\ job'.epoch = job.epoch /\ job'.world = job.world
    BY <1>1 DEF Jobs
  <2>2. QED
    BY <1>1, <2>1 DEF Announcing, JobProven
<1>3. /\ m.origin = job.world /\ job.key # 0 /\ key = job.key
      /\ Proven(m, job.key, job.epoch, files, ledger)
  BY <1>1 DEF Announcing, JobProven, Bound, JobDated
<1>4. m.origin = world => job.epoch = epochFile
  <2>1. job.world \in Nat /\ world \in Nat
    BY <1>1, BoundTyped
  <2>2. job.epoch # epochFile => job.world < world
    BY <1>1, <1>3 DEF Bound, JobDated
  <2>3. QED
    BY <1>3, <2>1, <2>2
<1>5. key \in agent.provers
  BY <1>1, <1>3 DEF Bound, Attaching
<1>6. Announced(Image', files, ledger)
  <2>1. /\ Image'.world = world /\ Image'.epoch = epochFile /\ Image'.provers = agent.provers
        /\ Image'.writes = writes \cup {m}
    BY <1>1 DEF Image
  <2>2. Announced(Image, files, ledger)
    BY <1>1 DEF Announcing
  <2>3. ASSUME NEW k \in Nat, agent.provers \subseteq {k}, NEW n \in writes \cup {m},
               n.origin = world
        PROVE  Proven(n, k, epochFile, files, ledger)
    <3>1. CASE n \in writes
      BY <2>2, <2>3, <3>1 DEF Announced, Image
    <3>2. CASE n = m
      <4>1. k = job.key
        BY <1>3, <1>5, <2>3
      <4>2. QED
        BY <1>3, <1>4, <2>3, <3>2, <4>1
    <3>3. QED
      BY <3>1, <3>2
  <2>4. QED
    BY <2>1, <2>3, Zenon DEF Announced
<1>7. QED
  BY <1>1, <1>2, <1>6 DEF Announcing

LEMMA MemoryStepsAnnouncing ==
    ASSUME Bound, Announcing, MemorySteps, ~torn, torn' = FALSE, ledger \subseteq ledger'
    PROVE  Announcing'
<1>0. Typed /\ TypeOK /\ Working /\ (job # None => job \in Jobs)
  BY BoundTyped
<1>1. CASE Resolve \/ Answered
  <2>1. job'.phase # "sealing" /\ job'.sealed = {}
    BY <1>1 DEF Resolve, Answered, NewJob
  <2>2. JobProven'
    BY <2>1 DEF JobProven
  <2>3. QED
    BY <1>1, <2>2, AnnouncingUntouched DEF Resolve, Answered
<1>9. CASE Ask
  <2>1. JobProven'
    BY <1>9, JobProvenUntouched DEF Ask, Announcing
  <2>2. QED
    BY <1>9, <2>1, AnnouncingUntouched DEF Ask
<1>2. CASE Reject \/ AllWritten
  <2>1. /\ job # None /\ job'.phase # "sealing" /\ job'.sealed = job.sealed
        /\ job'.key = job.key /\ job'.epoch = job.epoch /\ job'.world = job.world
    BY <1>0, <1>2 DEF Reject, AllWritten, Jobs
  <2>2. UNCHANGED <<disk, vault, database, process, count, history>>
    BY <1>2 DEF Reject, AllWritten
  <2>3. JobProven'
    BY <2>1, <2>2 DEF Announcing, JobProven
  <2>4. QED
    BY <2>2, <2>3, AnnouncingUntouched
<1>3. ASSUME NEW t \in Topics, NEW i \in Ticks, WriteFile(t, i)
      PROVE  Announcing'
  <2> DEFINE m == [id |-> count.memory + 1, topic |-> t, time |-> i, origin |-> job.world]
  <2>1. Exact(m) => Stored(m) = m
    BY DEF Stored, Exact
  <2>2. /\ files' = files \cup {Stored(m)} /\ job # None
        /\ job' = [job EXCEPT !.phase = "sealing", !.memory = m]
        /\ UNCHANGED <<disk, ledger, database, process, history>>
    BY <1>3 DEF WriteFile
  <2> HIDE DEF m
  <2>3. /\ job'.memory = m /\ job'.sealed = job.sealed /\ job'.key = job.key
        /\ job'.epoch = job.epoch /\ job'.world = job.world
    BY <1>0, <2>2 DEF Jobs
  <2>4. JobProven'
    BY <2>1, <2>2, <2>3 DEF Announcing, JobProven, Proven
  <2>5. QED
    BY <2>2, <2>4, AnnouncingUntouched
<1>4. CASE Seal \/ SealFails
  <2>1. /\ job # None /\ job.phase = "sealing" /\ UNCHANGED <<disk, files, database, process>>
        /\ \/ /\ Proceed(job.sealed \cup {job.memory})
              /\ ledger' \in Appended(Proved) /\ job.key # 0
           \/ Proceed(job.sealed)
    BY <1>4 DEF Seal, SealFails
  <2>2. /\ job'.phase = "writing" /\ job'.key = job.key
        /\ job'.epoch = job.epoch /\ job'.world = job.world
        /\ \/ /\ job'.sealed = job.sealed \cup {job.memory}
              /\ ledger' \in Appended(Proved) /\ job.key # 0
           \/ job'.sealed = job.sealed
    BY <1>0, <2>1, SealingTyped, ProceedTyped
  <2>3. ledger' \in Appended(Proved) => Proved \in ledger'
    BY DEF Appended
  <2>4. (Exact(job.memory) => job.memory \in files) /\ job.memory.origin = job.world
    BY <2>1 DEF Announcing, JobProven, Bound, Own, AtHand
  <2>5. Proved \in ledger' => Proven(job.memory, job.key, job.epoch, files', ledger')
    BY <2>1, <2>4 DEF Proven, Proved
  <2>6. \A m \in job.sealed :
           m.origin = job.world /\ job.key # 0 /\ Proven(m, job.key, job.epoch, files', ledger')
    BY <2>1 DEF Announcing, JobProven, Proven
  <2>7. JobProven'
    BY <2>2, <2>3, <2>4, <2>5, <2>6 DEF JobProven
  <2>8. QED
    BY <2>1, <2>7, AnnouncingUntouched
<1>5. CASE SealAlone
  BY <1>5 DEF SealAlone
<1>6. ASSUME NEW m, List(m)
      PROVE  Announcing'
  BY <1>6, ListAnnouncing
<1>7. CASE Finish \/ JobFails
  <2>1. job' = None /\ UNCHANGED <<disk, vault, saved, snapshot, process>>
    BY <1>7 DEF Finish, JobFails
  <2>2. JobProven'
    BY <2>1 DEF JobProven
  <2>3. QED
    BY <2>1, <2>2, AnnouncingUntouched
<1>8. QED
  BY <1>1, <1>2, <1>3, <1>4, <1>5, <1>6, <1>7, <1>9 DEF MemorySteps

LEMMA StatesAnnouncing ==
    ASSUME Bound, Announcing,
           Persist \/ SaveSnapshot \/ SaveFails \/ LoadSnapshot \/ LoadFails
    PROVE  Announcing'
<1>0. /\ TypeOK /\ stage = "idle" /\ agent # None /\ epochFile \in Nat /\ key \in Nat
  BY BoundTyped DEF Persist, SaveSnapshot, SaveFails, LoadSnapshot, LoadFails, Idle, TypeOK
<1>1. UNCHANGED <<files, ledger, job, epochFile, stage>>
  BY DEF Persist, SaveSnapshot, SaveFails, LoadSnapshot, LoadFails
<1>2. JobProven'
  BY <1>1, JobProvenUntouched DEF Announcing
<1>3. CASE Persist \/ SaveSnapshot \/ SaveFails
  <2>1. saved' \in {Image, saved} /\ snapshot' \in {Image, snapshot} /\ Image' = Image
    BY <1>3 DEF Persist, SaveSnapshot, SaveFails, Image
  <2>2. QED
    BY <1>0, <1>1, <1>2, <2>1 DEF Announcing
<1>4. CASE LoadSnapshot \/ LoadFails
  <2>1. /\ snapshot # None /\ snapshot.epoch \in {0, epochFile} /\ snapshot \in Images
        /\ RestoreFrom(snapshot, key, epochFile) /\ snapshot' = snapshot
        /\ \/ saved' = saved
           \/ saved' = [world |-> world', epoch |-> epochFile, provers |-> agent'.provers,
                        writes |-> writes']
    BY <1>0, <1>4 DEF LoadSnapshot, LoadFails, Restorable, TypeOK
  <2>2. snapshot.provers \in SUBSET Nat
    BY <2>1 DEF Images
  <2>3. /\ world' = snapshot.world /\ writes' = snapshot.writes
        /\ agent'.provers = SealStarters(snapshot.provers, key, epochFile)
    BY <1>0, <2>1, RestoredTyped
  <2>4. snapshot.provers \subseteq agent'.provers
    <3>1. SealStarters(snapshot.provers, key, epochFile) \in {snapshot.provers, snapshot.provers \cup {key}}
      BY <1>0, <2>2, SealStartersTyped
    <3>2. QED
      BY <2>3, <3>1
  <2>5. snapshot.epoch = epochFile \/ snapshot.writes = {}
    BY <2>1 DEF Bound, Attaching
  <2>6. saved' = saved \/ saved' = Image'
    BY <1>1, <2>1 DEF Image
  <2>7. /\ Image'.world = snapshot.world /\ Image'.writes = snapshot.writes
        /\ snapshot.provers \subseteq Image'.provers /\ Image'.epoch = epochFile
    BY <1>1, <2>3, <2>4 DEF Image
  <2>8. Announced(Image', files, ledger)
    BY <2>1, <2>5, <2>7, AnnouncedOfSame DEF Announcing
  <2>9. QED
    BY <1>1, <1>2, <2>1, <2>6, <2>8 DEF Announcing
<1>5. QED
  BY <1>3, <1>4

LEMMA StepBacked == Backed /\ [Next]_vars => Backed'
<1> SUFFICES ASSUME Backed, [Next]_vars PROVE Backed'
  OBVIOUS
<1>0. /\ Bound /\ Bound' /\ Own /\ IsFiniteSet(ledger')
      /\ (Lasting' => Lasting /\ ledger \subseteq ledger')
  BY StepBound, LedgerLasts DEF Backed, Bound
<1> SUFFICES ASSUME Lasting' PROVE Announcing'
  BY <1>0 DEF Backed
<1>1. Announcing /\ ~torn /\ torn' = FALSE /\ ledger \subseteq ledger'
  BY <1>0, BoundTyped DEF Backed, Lasting, TypeOK
<1>2. Typed /\ TypeOK
  BY <1>0, BoundTyped
<1>3. CASE UNCHANGED vars
  <2>1. JobProven'
    BY <1>1, <1>3, JobProvenUntouched DEF vars, Announcing
  <2>2. QED
    BY <1>1, <1>3, <2>1, AnnouncingUntouched DEF vars
<1>4. ASSUME NEW f \in files, Quarantine(f)
      PROVE  Announcing'
  <2>1. /\ snapshot' = None /\ job' = None /\ stage' = "down"
        /\ (saved' # None => saved'.writes = {})
    BY <1>0, <1>2, <1>4 DEF Quarantine, TypeOK, Bound, Attaching
  <2>2. QED
    BY <2>1 DEF Announcing, JobProven, Announced
<1>5. CASE Migrate
  <2>1. UNCHANGED <<disk, vault, saved, snapshot, process, job>>
    BY <1>5 DEF Migrate
  <2>2. JobProven'
    BY <1>1, <2>1, JobProvenUntouched DEF Announcing
  <2>3. QED
    BY <1>1, <2>1, <2>2, AnnouncingUntouched
<1>6. CASE Start
  BY <1>0, <1>1, <1>4, <1>5, <1>6, BootAnnouncing DEF Start
<1>7. CASE ResetSteps
  BY <1>0, <1>1, <1>7, ResetStepsAnnouncing
<1>8. CASE MemorySteps
  BY <1>0, <1>1, <1>8, MemoryStepsAnnouncing
<1>9. CASE Persist \/ SaveSnapshot \/ SaveFails \/ LoadSnapshot \/ LoadFails
  BY <1>0, <1>1, <1>9, StatesAnnouncing
<1>10. CASE Crash
  <2>1. UNCHANGED <<disk, vault, database>> /\ stage' = "down" /\ job' = None
    BY <1>10 DEF Crash, Halted
  <2>2. QED
    BY <1>1, <2>1 DEF Announcing, JobProven
<1>11. CASE LoseKey \/ RestoreKey
  <2>1. UNCHANGED <<epochFile, vault, database, process, job>>
    BY <1>11 DEF LoseKey, RestoreKey
  <2>2. JobProven'
    BY <1>1, <2>1, JobProvenUntouched DEF Announcing
  <2>3. QED
    BY <1>1, <2>1, <2>2, AnnouncingUntouched
<1>12. QED
  BY <1>3, <1>6, <1>7, <1>8, <1>9, <1>10, <1>11 DEF Next

\* Through crashes, failing writes, resets and loads, whatever the rounding: what was
\* announced with a time that the file keeps as it is stays accepted until the ledger has
\* been full, something torn or the key replaced.
THEOREM AnnouncedMemoriesAccepted == Spec => []ExactIsAccepted
<1>1. Init => Backed
  BY InitBacked
<1>2. Backed /\ [Next]_vars => Backed'
  BY StepBacked
<1>3. Backed => ExactIsAccepted
  <2> SUFFICES ASSUME Backed, stage = "idle", Undisturbed,
                      NEW m \in writes, m.origin = agent.world, Exact(m)
               PROVE  \E f \in Accepted : f.id = m.id
    BY DEF ExactIsAccepted
  <2>1. Bound /\ Announcing /\ ~torn /\ agent.provers = {key}
    BY DEF Backed, Lasting, Undisturbed
  <2>2. Announced(Image, files, ledger) /\ agent # None /\ key \in Nat
    BY <2>1, BoundTyped DEF Announcing, TypeOK
  <2>3. agent.world = world /\ (key # 0 => agent.epoch = epochFile) /\ epochFile # 0
    BY <2>1 DEF Bound, Dated, Attached, Epochal
  <2>4. key # 0
    BY <2>1, <2>2 DEF Bound, Attaching
  <2>5. Proven(m, key, epochFile, files, ledger)
    BY <2>1, <2>2, <2>3 DEF Announced, Image
  <2>6. m \in files /\ Verified(m, key, agent.epoch, agent.world)
    BY <2>3, <2>4, <2>5 DEF Proven, Verified
  <2>7. QED
    BY <2>6 DEF Accepted
<1>4. QED
  BY <1>1, <1>2, <1>3, PTL DEF Spec

=============================================================================
