---------------------------- MODULE EngineProofs ----------------------------
(***************************************************************************)
(* Proofs about Engine, for any set of requests and commands and any       *)
(* bounds on worlds, decisions and the searched window.                    *)
(***************************************************************************)
EXTENDS Engine, TLAPS

USE DEF Worlds, Tasks, ActionNames, body

-----------------------------------------------------------------------------
(* Type correctness. *)

\* However many records come, the position stays in the searched window.
LEMMA AgedInWindow ==
    ASSUME NEW d \in 0..Window, NEW k \in Nat
    PROVE  Aged(d, k) \in 0..Window
  BY BoundsAssumption DEF Aged

\* A typed state serializes to an image.
LEMMA LiveIsImage == TypeOK => Live \in Images
  BY DEF TypeOK, Live, Images

\* So does the next one.
LEMMA LiveIsImageNext == TypeOK' => Live' \in Images
  BY DEF TypeOK, Live, Images

\* Everything typed but what Return leaves to its caller.
LEMMA ReturnTyped ==
    ASSUME TypeOK, NEW t \in Tasks, Return(t),
           world' \in Worlds, alive' \in BOOLEAN, sleeping' \in BOOLEAN,
           exec' \in Executions \cup {None}, pending' \in Proposals \cup {None},
           current' \in 0..MaxDecisions, paused' \in BOOLEAN, due' \in 0..Window,
           cognition' \in SUBSET Worlds
    PROVE  /\ task' \in [Tasks -> [pc : TaskPCs, origin : Worlds]]
           /\ durable' \in Images
<1>1. Idle \in [pc : TaskPCs, origin : Worlds]
  BY BoundsAssumption DEF Idle, TaskPCs
<1>2. task' \in [Tasks -> [pc : TaskPCs, origin : Worlds]]
  BY <1>1 DEF Return, TypeOK
<1>3. Live' \in Images
  BY DEF Live, Images
<1>4. durable' \in Images
  BY <1>3 DEF Return, PersistIfDue, TypeOK
<1>5. QED
  BY <1>2, <1>4

\* The first boot is typed.
LEMMA InitTyped == Init => TypeOK
<1> SUFFICES ASSUME Init PROVE TypeOK
  OBVIOUS
<1>1. /\ world \in Worlds /\ current \in 0..MaxDecisions
      /\ made \in 0..MaxDecisions /\ due \in 0..Window
  BY BoundsAssumption DEF Init
<1>2. /\ alive \in BOOLEAN /\ sleeping \in BOOLEAN
      /\ decisionPending \in BOOLEAN /\ paused \in BOOLEAN
  BY DEF Init
<1>3. /\ exec \in Executions \cup {None} /\ pending \in Proposals \cup {None}
      /\ snapshot \in Images \cup {None}
      /\ vault \in SUBSET (Outcomes \cup Reflections)
  BY DEF Init
<1>4. cognition \in SUBSET Worlds
  BY <1>1 DEF Init
<1>5. durable \in Images
  BY <1>1, <1>2, <1>3, <1>4 DEF Init, Live, Images
<1>6. task \in [Tasks -> [pc : TaskPCs, origin : Worlds]]
  BY <1>1 DEF Init, Idle, TaskPCs
<1>7. QED
  BY <1>1, <1>2, <1>3, <1>4, <1>5, <1>6 DEF TypeOK

\* RestoreFrom of a typed image leaves a typed body.
LEMMA RestoreTyped ==
    ASSUME NEW image \in Images, NEW records \in Nat, RestoreFrom(image, records)
    PROVE  /\ world' \in Worlds /\ alive' \in BOOLEAN /\ sleeping' \in BOOLEAN
           /\ exec' \in Executions \cup {None} /\ pending' \in Proposals \cup {None}
           /\ current' \in 0..MaxDecisions /\ paused' \in BOOLEAN
           /\ decisionPending' \in BOOLEAN
           /\ due' \in 0..Window /\ cognition' \in SUBSET Worlds
  BY AgedInWindow DEF RestoreFrom, Images

\* What every substep leaves typed, from its parts.
LEMMA SubstepTyped ==
    ASSUME TypeOK, Substep
    PROVE  TypeOK'
<1>1. /\ world' = world /\ current' = current /\ cognition' = cognition
      /\ made' = made /\ snapshot' = snapshot /\ durable' = durable
  BY DEF Substep, Elapse, Complete, CompleteRaises, Interrupt
<1>2. exec' \in Executions \cup {None}
  BY DEF Substep, Elapse, Complete, CompleteRaises, Interrupt, TypeOK
<1>3. pending' \in Proposals \cup {None}
  BY DEF Substep, Elapse, Complete, CompleteRaises, Interrupt, ResolvePending, TypeOK
<1>4. vault' \in SUBSET (Outcomes \cup Reflections)
  <2>1. pending # None =>
          [kind |-> "outcome", decision |-> pending.decision,
           authority |-> world, evidence |-> pending.evidence] \in Outcomes
    BY DEF TypeOK, Proposals, Outcomes
  <2>2. QED
    BY <2>1 DEF Substep, Elapse, Complete, CompleteRaises, Interrupt, ResolvePending, TypeOK
<1>5. alive' \in BOOLEAN /\ sleeping' \in BOOLEAN
  BY DEF Substep, Elapse, Complete, CompleteRaises, Interrupt, Harm, Starves, Mauled,
         TypeOK
<1>6. decisionPending' \in BOOLEAN /\ paused' \in BOOLEAN
  BY DEF Substep, Elapse, Complete, CompleteRaises, Interrupt, StopIfDead, TypeOK
<1>7. due' \in 0..Window
  <2>1. 0 \in 0..Window /\ \A k \in 0..Window : k \in Nat
    BY BoundsAssumption
  <2>2. \A k \in 1..Window : k \in Nat
    BY BoundsAssumption
  <2>3. due \in 0..Window
    BY DEF TypeOK
  <2>4. QED
    BY <2>1, <2>2, <2>3, AgedInWindow DEF Substep, Elapse, Complete, CompleteRaises, Interrupt
<1>8. task' \in [Tasks -> [pc : TaskPCs, origin : Worlds]]
  <2>1. \A t \in Tasks : task[t] \in [pc : TaskPCs, origin : Worlds]
    BY DEF TypeOK
  <2>2. \E pc \in TaskPCs : task' = [task EXCEPT ![Loop].pc = pc]
    BY DEF Substep, Elapse, Complete, CompleteRaises, Interrupt, KeepAdvancing, TaskPCs
  <2>3. QED
    BY <2>1, <2>2 DEF TypeOK
<1>9. QED
  BY <1>1, <1>2, <1>3, <1>4, <1>5, <1>6, <1>7, <1>8 DEF TypeOK

\* What follows an await of make_decision is typed.
LEMMA AnswerTyped ==
    ASSUME TypeOK, NEW t \in Tasks, Answer(t)
    PROVE  TypeOK'
<1>1. task[t] \in [pc : TaskPCs, origin : Worlds]
  BY DEF TypeOK
<1>2. \A k \in 2..(Window + 2) : Aged(due, k) \in 0..Window
  BY AgedInWindow, BoundsAssumption DEF TypeOK
<1>3. Aged(due, 1) \in 0..Window /\ Window \in 0..Window
  BY AgedInWindow, BoundsAssumption DEF TypeOK
<1>4. Consolidate(t) => vault' \in SUBSET (Outcomes \cup Reflections)
  BY <1>1 DEF Consolidate, TypeOK, Reflections
<1>5. CASE WakeConsolidated(t)
  <2>1. task' \in [Tasks -> [pc : TaskPCs, origin : Worlds]]
    BY <1>5 DEF WakeConsolidated, TypeOK, TaskPCs
  <2>2. QED
    BY <1>1, <1>3, <1>4, <1>5, <2>1 DEF WakeConsolidated, TypeOK
<1>6. RecordDecision(t) =>
        /\ made' \in 0..MaxDecisions /\ current' \in 0..MaxDecisions
        /\ made + 1 \in Decisions /\ cognition' \in SUBSET Worlds
        /\ due' \in 0..Window
  <2> SUFFICES ASSUME RecordDecision(t)
               PROVE  /\ made' \in 0..MaxDecisions /\ current' \in 0..MaxDecisions
                      /\ made + 1 \in Decisions /\ cognition' \in SUBSET Worlds
                      /\ due' \in 0..Window
    OBVIOUS
  <2>1. /\ made \in 0..MaxDecisions /\ made < MaxDecisions
        /\ made' = made + 1 /\ current' = made + 1
    BY DEF RecordDecision, TypeOK
  <2>2. /\ made + 1 \in Decisions
        /\ made' \in 0..MaxDecisions /\ current' \in 0..MaxDecisions
    BY <2>1, BoundsAssumption DEF Decisions
  <2>3. cognition' \in SUBSET Worlds
    BY <1>1 DEF RecordDecision, TypeOK
  <2>4. due' \in 0..Window
    BY <1>2 DEF RecordDecision
  <2>5. QED
    BY <2>2, <2>3, <2>4
<1>7. CASE Started(t)
  <2>1. /\ RecordDecision(t) /\ decisionPending' = FALSE
        /\ UNCHANGED <<world, alive, paused, vault, snapshot>>
    BY <1>7 DEF Started
  <2>2. pending' \in Proposals \cup {None}
    BY <1>1, <1>6, <1>7, <2>1 DEF Started, Propose, Proposals, TypeOK
  <2>3. exec' \in Executions \cup {None} /\ sleeping' \in BOOLEAN
    BY <1>6, <1>7, <2>1 DEF Started, Executions
  <2>4. task' \in [Tasks -> [pc : TaskPCs, origin : Worlds]] /\ durable' \in Images
    <3>1. CASE Return(t)
      BY <1>6, <2>1, <2>2, <2>3, <3>1, ReturnTyped DEF TypeOK
    <3>2. CASE /\ task' = [task EXCEPT ![t] = [pc |-> "settling", origin |-> world]]
               /\ UNCHANGED durable
      BY <3>2 DEF TypeOK, TaskPCs
    <3>3. QED
      BY <1>7, <3>1, <3>2 DEF Started
  <2>5. QED
    BY <1>6, <2>1, <2>2, <2>3, <2>4 DEF TypeOK
<1>8. CASE Refused(t)
  <2>1. /\ RecordDecision(t) /\ Return(t) /\ decisionPending' = TRUE /\ pending' = None
        /\ UNCHANGED <<world, alive, sleeping, exec, paused, vault, snapshot>>
    BY <1>8 DEF Refused
  <2>2. task' \in [Tasks -> [pc : TaskPCs, origin : Worlds]] /\ durable' \in Images
    BY <1>6, <2>1, ReturnTyped DEF TypeOK
  <2>3. QED
    BY <1>6, <2>1, <2>2 DEF TypeOK
<1>9. CASE SleepConsolidated(t)
  <2>1. /\ Consolidate(t) /\ Return(t) /\ due' = Aged(due, 1)
        /\ UNCHANGED <<world, body, paused, cognition, made, snapshot>>
    BY <1>9 DEF SleepConsolidated
  <2>2. task' \in [Tasks -> [pc : TaskPCs, origin : Worlds]] /\ durable' \in Images
    BY <1>3, <2>1, ReturnTyped DEF TypeOK
  <2>3. QED
    BY <1>3, <1>4, <2>1, <2>2 DEF TypeOK
<1>10. QED
  BY <1>5, <1>7, <1>8, <1>9 DEF Answer

\* So is the end of advance(), and the beginning of a decision.
LEMMA TurnTyped ==
    ASSUME TypeOK, LoopDecides \/ LoopRests \/ \E r \in Requests : RequestDecides(r)
    PROVE  TypeOK'
<1>1. ASSUME NEW t \in Tasks, Begin(t)
      PROVE  TypeOK'
  BY <1>1 DEF Begin, TypeOK, TaskPCs
<1>2. CASE LoopRests
  <2>1. task' \in [Tasks -> [pc : TaskPCs, origin : Worlds]] /\ durable' \in Images
    BY <1>2, ReturnTyped DEF LoopRests, TypeOK
  <2>2. QED
    BY <1>2, <2>1 DEF LoopRests, TypeOK
<1>3. QED
  BY <1>1, <1>2 DEF LoopDecides, RequestDecides

\* So are the commands that keep the process.
LEMMA CommandTyped ==
    ASSUME TypeOK, SetPaused \/ Reset \/ Save \/ Fork \/ Load
    PROVE  TypeOK'
<1>1. CASE SetPaused
  <2>1. Live' \in Images
    BY <1>1 DEF SetPaused, TypeOK, Live, Images
  <2>2. QED
    BY <1>1, <2>1 DEF SetPaused, TypeOK
<1>2. CASE Reset
  <2>1. world + 1 \in Worlds /\ Window \in 0..Window /\ 0 \in 0..MaxDecisions
    BY <1>2, BoundsAssumption DEF Reset, TypeOK
  <2>2. durable' \in Images
    BY <1>2, <2>1 DEF Reset, FreshWorld, PersistFresh, Live, Images
  <2>3. QED
    BY <1>2, <2>1, <2>2 DEF Reset, FreshWorld, TypeOK
<1>3. CASE Save
  <2>1. due' \in 0..Window
    BY <1>3, AgedInWindow DEF Save, TypeOK
  <2>2. Live' \in Images
    BY <1>3, <2>1 DEF Save, TypeOK, Live, Images
  <2>3. QED
    BY <1>3, <2>1, <2>2, LiveIsImage DEF Save, TypeOK
<1>4. CASE Fork
  <2>1. snapshot \in Images
    BY <1>4 DEF Fork, TypeOK
  <2>2. snapshot' \in Images
    BY <1>4, <2>1 DEF Fork, Images
  <2>3. QED
    BY <1>4, <2>2 DEF Fork, TypeOK
<1>5. CASE Load
  <2>1. snapshot \in Images /\ RestoreFrom(snapshot, 0)
    BY <1>5 DEF Load, TypeOK
  <2>2. Live' \in Images
    BY <2>1, RestoreTyped DEF Live, Images
  <2>3. QED
    BY <1>5, <2>1, <2>2, RestoreTyped DEF Load, TypeOK
<1>6. QED
  BY <1>1, <1>2, <1>3, <1>4, <1>5

\* So are the ends of the process, whatever is on disk.
LEMMA RestartTyped ==
    ASSUME TypeOK, Stop \/ Crash \/ CrashInReset
    PROVE  TypeOK'
<1>1. [t \in Tasks |-> Idle] \in [Tasks -> [pc : TaskPCs, origin : Worlds]]
  BY BoundsAssumption DEF Idle, TaskPCs
<1>2. ASSUME NEW image \in Images, Restart(image)
      PROVE  TypeOK'
  BY <1>1, <1>2, RestoreTyped DEF Restart, TypeOK
<1>3. CASE CrashInReset
  <2>1. world + 1 \in Worlds /\ Window \in 0..Window /\ 0 \in 0..MaxDecisions
    BY <1>3, BoundsAssumption DEF CrashInReset, TypeOK
  <2>2. durable' \in Images
    BY <1>3, <2>1 DEF CrashInReset, FreshWorld, Live, Images
  <2>3. QED
    BY <1>1, <1>3, <2>1, <2>2 DEF CrashInReset, FreshWorld, TypeOK
<1>4. Live \in Images /\ durable \in Images
  BY LiveIsImage DEF TypeOK
<1>5. QED
  BY <1>2, <1>3, <1>4 DEF Stop, Crash

\* Every step leaves a typed state.
LEMMA NextTyped == TypeOK /\ [Next]_vars => TypeOK'
<1> SUFFICES ASSUME TypeOK, [Next]_vars PROVE TypeOK'
  OBVIOUS
<1>1. CASE UNCHANGED vars
  BY <1>1 DEF vars, TypeOK
<1>2. QED
  BY <1>1, SubstepTyped, AnswerTyped, TurnTyped, CommandTyped, RestartTyped DEF Next

\* Every state of every behaviour is typed: the states that serialize saves are
\* always ones that _restore can read back.
THEOREM TypeCorrect == Spec => []TypeOK
<1>1. QED
  BY InitTyped, NextTyped, PTL DEF Spec

-----------------------------------------------------------------------------
(* Coherence of the body and of every saved state. *)

\* What a step can leave in current_state: what was there, or the state before
\* or after the step.
LEMMA DurableIsSaved ==
    ASSUME Next
    PROVE  \/ durable' = durable
           \/ durable' = Live
           \/ durable' = Live'
           \/ durable' = [Live' EXCEPT !.paused = TRUE]
<1>1. CASE Substep
  BY <1>1 DEF Substep, Elapse, Complete, CompleteRaises, Interrupt
<1>2. CASE \E t \in Tasks : Answer(t)
  BY <1>2 DEF Answer, WakeConsolidated, Started, Refused, SleepConsolidated, Return, PersistIfDue
<1>3. CASE LoopDecides \/ LoopRests \/ \E r \in Requests : RequestDecides(r)
  BY <1>3 DEF LoopDecides, LoopRests, RequestDecides, Begin, Return, PersistIfDue
<1>4. CASE SetPaused \/ Reset \/ Save \/ Fork \/ Load
  BY <1>4 DEF SetPaused, Reset, PersistFresh, Save, Fork, Load
<1>5. CASE Stop \/ Crash \/ CrashInReset
  BY <1>5 DEF Stop, Crash, CrashInReset, Restart
<1>6. QED
  BY <1>1, <1>2, <1>3, <1>4, <1>5 DEF Next

\* The same of the snapshots table.
LEMMA SnapshotIsSaved ==
    ASSUME Next
    PROVE  \/ snapshot' = snapshot
           \/ snapshot' = None
           \/ snapshot' = Live
           \/ snapshot # None /\ snapshot' = [snapshot EXCEPT !.paused = TRUE]
<1>1. CASE Substep
  BY <1>1 DEF Substep, Elapse, Complete, CompleteRaises, Interrupt
<1>2. CASE \E t \in Tasks : Answer(t)
  BY <1>2 DEF Answer, WakeConsolidated, Started, Refused, SleepConsolidated
<1>3. CASE LoopDecides \/ LoopRests \/ \E r \in Requests : RequestDecides(r)
  BY <1>3 DEF LoopDecides, LoopRests, RequestDecides, Begin
<1>4. CASE SetPaused \/ Reset \/ Save \/ Fork \/ Load
  BY <1>4 DEF SetPaused, Reset, Save, Fork, Load
<1>5. CASE Stop \/ Crash \/ CrashInReset
  BY <1>5 DEF Stop, Crash, CrashInReset, Restart
<1>6. QED
  BY <1>1, <1>2, <1>3, <1>4, <1>5 DEF Next

\* Coherence of the live state, without the record that serialize makes of it.
LEMMA LiveCoherent ==
    Coherent(Live) <=>
      /\ pending # None => /\ exec # None
                           /\ exec.decision = pending.decision
                           /\ world = pending.world
      /\ alive => (sleeping <=> (exec # None /\ exec.action = "sleep"))
  BY DEF Coherent, PendingBelongsToExecution, AsleepWhileSleepRuns, Live

\* What coherence says of the next live state, field by field.
LEMMA LiveCoherentNext ==
    Coherent(Live)' <=>
      /\ pending' # None => /\ exec' # None
                            /\ exec'.decision = pending'.decision
                            /\ world' = pending'.world
      /\ alive' => (sleeping' <=> (exec' # None /\ exec'.action = "sleep"))
  BY DEF Coherent, PendingBelongsToExecution, AsleepWhileSleepRuns, Live

\* A restored body is as coherent as the state it comes from.
LEMMA RestoredCoherent ==
    ASSUME NEW image, NEW records, Coherent(image), RestoreFrom(image, records)
    PROVE  Coherent(Live)'
  BY LiveCoherentNext DEF RestoreFrom, Coherent, PendingBelongsToExecution, AsleepWhileSleepRuns

\* Pausing a saved state leaves its coherence alone.
LEMMA PausedCoherent ==
    ASSUME NEW image \in Images, Coherent(image)
    PROVE  Coherent([image EXCEPT !.paused = TRUE])
  BY DEF Images, Coherent, PendingBelongsToExecution, AsleepWhileSleepRuns

\* Every step leaves a coherent body, given that the saved states are coherent
\* too: a load or a restart brings one of those back.
LEMMA LiveStaysCoherent ==
    ASSUME TypeOK, StatesCoherent, Next
    PROVE  Coherent(Live)'
<1>1. /\ pending # None => /\ exec # None
                           /\ exec.decision = pending.decision
                           /\ world = pending.world
      /\ alive => (sleeping <=> (exec # None /\ exec.action = "sleep"))
  BY LiveCoherent DEF StatesCoherent
<1>2. CASE UNCHANGED <<world, body>>
  BY <1>1, <1>2, LiveCoherentNext
<1>3. CASE Elapse
  <2>1. /\ UNCHANGED <<world, exec, pending>>
        /\ alive' => alive /\ sleeping' = sleeping
    BY <1>3 DEF Elapse, Harm, Starves, Mauled
  <2>2. QED
    BY <1>1, <2>1, LiveCoherentNext
<1>4. ASSUME exec' = None, pending' = None, exec # None, Harm(sleeping /\ exec.action # "sleep")
      PROVE  Coherent(Live)'
  <2>1. alive' => alive /\ sleeping' = (sleeping /\ exec.action # "sleep")
    BY <1>4 DEF Harm, Starves, Mauled
  <2>2. alive' => ~sleeping'
    BY <1>1, <2>1
  <2>3. QED
    BY <1>4, <2>2, LiveCoherentNext
<1>5. CASE (\E ok \in BOOLEAN : Complete(ok)) \/ CompleteRaises \/ Interrupt
  BY <1>4, <1>5 DEF Complete, CompleteRaises, Interrupt, ResolvePending
<1>6. ASSUME NEW t \in Tasks, Started(t)
      PROVE  Coherent(Live)'
  <2>1. PICK action \in ActionNames :
          /\ exec' = [decision |-> made + 1, action |-> action]
          /\ sleeping' = (action = "sleep")
    BY <1>6 DEF Started
  <2>2. exec' # None
    <3>1. exec' \in Executions \cup {None}
      BY <1>6, AnswerTyped DEF Answer, TypeOK
    <3>2. made + 1 \in Decisions
      BY <1>6, BoundsAssumption DEF Started, RecordDecision, TypeOK, Decisions
    <3>3. exec' \in Executions
      BY <2>1, <3>2 DEF Executions
    <3>4. QED
      BY <3>3, NoneAssumption
  <2>3. pending' # None => pending'.decision = made + 1 /\ pending'.world = world
    BY <1>6 DEF Started, Propose
  <2>4. world' = world
    BY <1>6 DEF Started
  <2>5. QED
    BY <2>1, <2>2, <2>3, <2>4, LiveCoherentNext
<1>7. ASSUME NEW t \in Tasks, Refused(t)
      PROVE  Coherent(Live)'
  BY <1>1, <1>7, LiveCoherentNext DEF Refused
<1>8. CASE Reset \/ CrashInReset
  BY <1>8, LiveCoherentNext DEF Reset, CrashInReset, FreshWorld
<1>9. CASE Load
  BY <1>9, RestoredCoherent DEF Load, StatesCoherent
<1>10. CASE Stop \/ Crash
  BY <1>10, RestoredCoherent DEF Stop, Crash, Restart, StatesCoherent
<1>11. CASE LoopDecides \/ LoopRests \/ (\E r \in Requests : RequestDecides(r))
  BY <1>2, <1>11 DEF LoopDecides, LoopRests, RequestDecides, Begin
<1>12. ASSUME NEW t \in Tasks, WakeConsolidated(t) \/ SleepConsolidated(t)
       PROVE  Coherent(Live)'
  BY <1>2, <1>12 DEF WakeConsolidated, SleepConsolidated
<1>13. CASE SetPaused \/ Save \/ Fork
  BY <1>2, <1>13 DEF SetPaused, Save, Fork
<1>14. QED
  BY <1>3, <1>5, <1>6, <1>7, <1>8, <1>9, <1>10, <1>11, <1>12, <1>13 DEF Next, Substep, Answer

\* Every step leaves coherent states: what is saved is the live state of the
\* step, or was saved before.
LEMMA CoherentNext == TypeOK /\ StatesCoherent /\ [Next]_vars => StatesCoherent'
<1> SUFFICES ASSUME TypeOK, StatesCoherent, Next
             PROVE  StatesCoherent'
  BY DEF vars, StatesCoherent, Live
<1>1. Coherent(Live) /\ Coherent(Live)'
  BY LiveStaysCoherent DEF StatesCoherent
<1>2. Live' \in Images
  BY NextTyped, LiveIsImageNext
<1>3. Coherent(durable)'
  BY <1>1, <1>2, DurableIsSaved, PausedCoherent DEF StatesCoherent
<1>4. (snapshot # None => Coherent(snapshot))'
  BY <1>1, SnapshotIsSaved, PausedCoherent DEF StatesCoherent, TypeOK
<1>5. QED
  BY <1>1, <1>3, <1>4 DEF StatesCoherent

\* Whatever interleaving of decisions, late answers, interrupts, resets, loads
\* and restarts, a proposal always waits for its own decision's execution and a
\* living body sleeps exactly while a sleep runs, live and in every saved state.
THEOREM AlwaysCoherent == Spec => []StatesCoherent
<1>1. Init => StatesCoherent
  <2> SUFFICES ASSUME Init PROVE StatesCoherent
    OBVIOUS
  <2>1. Coherent(Live)
    BY LiveCoherent DEF Init
  <2>2. QED
    BY <2>1 DEF Init, StatesCoherent
<1>2. QED
  BY <1>1, CoherentNext, TypeCorrect, PTL DEF Spec

-----------------------------------------------------------------------------
(* The loop's gate, and the world that a restart resumes. *)

\* Every step that ends an execution raises the gate, and only the start of one
\* puts it down.
LEMMA StrandedNext == TypeOK /\ NeverStranded /\ [Next]_vars => NeverStranded'
<1> SUFFICES ASSUME TypeOK, NeverStranded, Next
             PROVE  NeverStranded'
  BY DEF vars, NeverStranded
<1>1. CASE Elapse
  <2>1. /\ alive' => alive
        /\ decisionPending' = (decisionPending /\ alive')
        /\ exec' = exec
    BY <1>1 DEF Elapse, Harm, Starves, Mauled, StopIfDead
  <2>2. task[Loop].pc # "failed"
    BY <1>1 DEF Elapse, Stepping
  <2>3. QED
    BY <2>1, <2>2 DEF NeverStranded
<1>2. CASE (\E ok \in BOOLEAN : Complete(ok)) \/ Interrupt
  <2>1. decisionPending' = (TRUE /\ alive')
    BY <1>2 DEF Complete, Interrupt, StopIfDead
  <2>2. QED
    BY <2>1 DEF NeverStranded
<1>3. CASE CompleteRaises
  <2>1. task' = [task EXCEPT ![Loop].pc = "failed"]
    BY <1>3 DEF CompleteRaises
  <2>2. task'[Loop].pc = "failed"
    BY <2>1 DEF TypeOK
  <2>3. QED
    BY <2>2 DEF NeverStranded
<1>4. ASSUME UNCHANGED body, task'[Loop].pc # "failed" => task[Loop].pc # "failed"
      PROVE  NeverStranded'
  BY <1>4 DEF NeverStranded
<1>5. ASSUME NEW t \in Tasks, Answer(t)
      PROVE  NeverStranded'
  <2>1. task[t].pc # "failed" /\ (t # Loop => task'[Loop] = task[Loop])
    BY <1>5 DEF Answer, WakeConsolidated, Started, Refused, SleepConsolidated, Return, TypeOK
  <2>2. task'[Loop].pc # "failed" => task[Loop].pc # "failed"
    BY <2>1
  <2>3. CASE WakeConsolidated(t) \/ SleepConsolidated(t)
    BY <1>4, <2>2, <2>3 DEF WakeConsolidated, SleepConsolidated
  <2>4. CASE Started(t)
    <3>1. made + 1 \in Decisions
      BY <2>4, BoundsAssumption DEF Started, RecordDecision, TypeOK, Decisions
    <3>2. exec' \in Executions
      BY <2>4, <3>1 DEF Started, Executions
    <3>3. QED
      BY <3>2, NoneAssumption DEF NeverStranded
  <2>5. CASE Refused(t)
    BY <2>5 DEF Refused, NeverStranded
  <2>6. QED
    BY <1>5, <2>3, <2>4, <2>5 DEF Answer
<1>6. CASE LoopDecides
  BY <1>4, <1>6 DEF LoopDecides, Begin
<1>7. CASE LoopRests
  BY <1>4, <1>7 DEF LoopRests
<1>8. ASSUME NEW r \in Requests, RequestDecides(r)
      PROVE  NeverStranded'
  <2>1. UNCHANGED body /\ task'[Loop] = task[Loop]
    BY <1>8, TaskAssumption DEF RequestDecides, Begin, TypeOK
  <2>2. QED
    BY <1>4, <2>1
<1>9. CASE SetPaused \/ Save \/ Fork
  BY <1>4, <1>9 DEF SetPaused, Save, Fork
<1>10. CASE Reset \/ CrashInReset
  BY <1>10 DEF Reset, CrashInReset, FreshWorld, NeverStranded
<1>11. CASE Load \/ Stop \/ Crash
  <2>1. decisionPending' = (exec' = None)
    BY <1>11 DEF Load, Stop, Crash, Restart, RestoreFrom
  <2>2. QED
    BY <2>1 DEF NeverStranded
<1>12. QED
  BY <1>1, <1>2, <1>3, <1>5, <1>6, <1>7, <1>8, <1>9, <1>10, <1>11 DEF Next, Substep

\* An idle living body always has its decision coming, short of a loop that
\* failed: no path that ends, refuses or restores an execution forgets the gate.
THEOREM AlwaysGated == Spec => []NeverStranded
<1>1. Init => NeverStranded
  BY DEF Init, NeverStranded
<1>2. QED
  BY <1>1, StrandedNext, TypeCorrect, PTL DEF Spec

\* A new world is persisted by the step that makes it, and no other step
\* persists or restores anything but the live world.
LEMMA DurableWorldNext ==
    TypeOK /\ DurableIsOfThisWorld /\ [Next]_vars => DurableIsOfThisWorld'
<1> SUFFICES ASSUME TypeOK, DurableIsOfThisWorld, Next
             PROVE  DurableIsOfThisWorld'
  BY DEF vars, DurableIsOfThisWorld
<1>1. Live.world = world /\ Live'.world = world'
  BY DEF Live
<1>2. [Live' EXCEPT !.paused = TRUE].world = world'
  BY DEF Live
<1>3. CASE world' = world
  BY <1>1, <1>2, <1>3, DurableIsSaved DEF DurableIsOfThisWorld
<1>4. CASE Reset \/ CrashInReset
  BY <1>1, <1>2, <1>4 DEF Reset, PersistFresh, CrashInReset, DurableIsOfThisWorld
<1>5. CASE Load
  BY <1>1, <1>5 DEF Load, DurableIsOfThisWorld
<1>6. CASE Stop \/ Crash
  BY <1>6 DEF Stop, Crash, Restart, RestoreFrom, DurableIsOfThisWorld
<1>7. Next => world' = world \/ Reset \/ CrashInReset \/ Load \/ Stop \/ Crash
  BY DEF Next, Substep, Elapse, Complete, CompleteRaises, Interrupt, LoopDecides,
         LoopRests, RequestDecides, Begin, Answer, WakeConsolidated, Started,
         Refused, SleepConsolidated, SetPaused, Save, Fork
<1>8. QED
  BY <1>3, <1>4, <1>5, <1>6, <1>7

\* A restart resumes a state of the live world, wherever the process died.
THEOREM RestartStaysInWorld == Spec => []DurableIsOfThisWorld
<1>1. Init => DurableIsOfThisWorld
  BY DEF Init, DurableIsOfThisWorld, Live
<1>2. QED
  BY <1>1, DurableWorldNext, TypeCorrect, PTL DEF Spec

\* No load and no restart undoes a reset.
THEOREM ResetIsFinal == Spec => WorldNeverGoesBack
<1>1. TypeOK /\ DurableIsOfThisWorld /\ [Next]_vars => [world' >= world]_vars
  <2> SUFFICES ASSUME TypeOK, DurableIsOfThisWorld, Next
               PROVE  world' >= world
    OBVIOUS
  <2>1. world \in Nat
    BY BoundsAssumption DEF TypeOK
  <2>2. CASE Reset \/ CrashInReset
    BY <2>1, <2>2 DEF Reset, CrashInReset, FreshWorld
  <2>3. CASE Load \/ Stop \/ Crash
    BY <2>1, <2>3 DEF Load, SameEpoch, Stop, Crash, Restart, RestoreFrom, Live, DurableIsOfThisWorld
  <2>4. CASE world' = world
    BY <2>1, <2>4
  <2>5. QED
    BY <2>2, <2>3, <2>4
       DEF Next, Substep, Elapse, Complete, CompleteRaises, Interrupt, LoopDecides,
           LoopRests, RequestDecides, Begin, Answer, WakeConsolidated, Started,
           Refused, SleepConsolidated, SetPaused, Save, Fork
<1>2. QED
  BY <1>1, TypeCorrect, RestartStaysInWorld, PTL DEF Spec, WorldNeverGoesBack

-----------------------------------------------------------------------------
(* What enters the vault. *)

\* A new outcome memory comes from the completion of its own decision.
LEMMA CommitStep ==
    ASSUME StatesCoherent, Next,
           NEW m \in vault' \ vault, m.kind = "outcome"
    PROVE  /\ exec # None /\ exec' = None
           /\ exec.decision = m.decision
           /\ m.authority = world
<1>1. pending # None => exec.decision = pending.decision
  BY LiveCoherent DEF StatesCoherent
<1>2. ASSUME NEW ok \in BOOLEAN, ResolvePending(ok)
      PROVE  pending # None /\ m.decision = pending.decision /\ m.authority = world
  BY <1>2 DEF ResolvePending
<1>3. CASE (\E ok \in BOOLEAN : Complete(ok)) \/ CompleteRaises \/ Interrupt
  <2>1. \E ok \in BOOLEAN : ResolvePending(ok)
    BY <1>3 DEF Complete, CompleteRaises, Interrupt
  <2>2. exec # None /\ exec' = None
    BY <1>3 DEF Complete, CompleteRaises, Interrupt
  <2>3. QED
    BY <1>1, <1>2, <2>1, <2>2
<1>4. ASSUME NEW t \in Tasks, Consolidate(t)
      PROVE  FALSE
  BY <1>4 DEF Consolidate
<1>5. CASE Elapse
  BY <1>5 DEF Elapse
<1>6. ASSUME NEW t \in Tasks, Answer(t)
      PROVE  FALSE
  BY <1>4, <1>6 DEF Answer, WakeConsolidated, Started, Refused, SleepConsolidated
<1>7. CASE LoopDecides \/ LoopRests \/ \E r \in Requests : RequestDecides(r)
  BY <1>7 DEF LoopDecides, LoopRests, RequestDecides, Begin
<1>8. CASE SetPaused \/ Reset \/ Save \/ Fork \/ Load
  BY <1>8 DEF SetPaused, Reset, Save, Fork, Load
<1>9. CASE Stop \/ Crash \/ CrashInReset
  BY <1>9 DEF Stop, Crash, CrashInReset, Restart
<1>10. QED
  BY <1>3, <1>5, <1>6, <1>7, <1>8, <1>9 DEF Next, Substep

\* A proposal becomes durable memory only in the step that ends the execution of
\* the decision that made it, sealed by the world that is live then.
THEOREM CommitsOwnOutcome == Spec => CommitOnlyOwnOutcome
<1>1. StatesCoherent /\ [Next]_vars =>
        [\A m \in vault' \ vault : m.kind = "outcome" =>
            /\ exec # None /\ exec' = None
            /\ exec.decision = m.decision
            /\ m.authority = world]_vars
  BY CommitStep
<1>2. QED
  BY <1>1, AlwaysCoherent, PTL DEF Spec, CommitOnlyOwnOutcome

\* The strengthening behind ReflectionsStayInTheirWorld: a consolidation seals
\* with the authority of the agent whose events it read.
SealedByItsWorld == \A m \in vault : m.kind = "reflection" => m.evidence = m.authority

\* A consolidation seals and speaks with the same world, the one it holds.
LEMMA SealedNext == SealedByItsWorld /\ [Next]_vars => SealedByItsWorld'
<1> SUFFICES ASSUME SealedByItsWorld, Next,
                    NEW m \in vault' \ vault, m.kind = "reflection"
             PROVE  m.evidence = m.authority
  BY DEF vars, SealedByItsWorld
<1>1. ASSUME NEW t \in Tasks, Consolidate(t)
      PROVE  m.evidence = m.authority
  BY <1>1 DEF Consolidate
<1>2. CASE Substep
  <2>1. ASSUME NEW ok \in BOOLEAN, ResolvePending(ok)
        PROVE  FALSE
    BY <2>1 DEF ResolvePending
  <2>2. QED
    BY <1>2, <2>1 DEF Substep, Elapse, Complete, CompleteRaises, Interrupt
<1>3. ASSUME NEW t \in Tasks, Answer(t)
      PROVE  m.evidence = m.authority
  BY <1>1, <1>3 DEF Answer, WakeConsolidated, Started, Refused, SleepConsolidated
<1>4. CASE LoopDecides \/ LoopRests \/ \E r \in Requests : RequestDecides(r)
  BY <1>4 DEF LoopDecides, LoopRests, RequestDecides, Begin
<1>5. CASE SetPaused \/ Reset \/ Save \/ Fork \/ Load
  BY <1>5 DEF SetPaused, Reset, Save, Fork, Load
<1>6. CASE Stop \/ Crash \/ CrashInReset
  BY <1>6 DEF Stop, Crash, CrashInReset, Restart
<1>7. QED
  BY <1>2, <1>3, <1>4, <1>5, <1>6 DEF Next

\* A reflection that retrieval accepts speaks of the live world.
THEOREM ReflectionsStay == Spec => []ReflectionsStayInTheirWorld
<1>1. Init => SealedByItsWorld
  BY DEF Init, SealedByItsWorld
<1>2. SealedByItsWorld => ReflectionsStayInTheirWorld
  BY DEF SealedByItsWorld, ReflectionsStayInTheirWorld, Verified
<1>3. QED
  BY <1>1, <1>2, SealedNext, PTL DEF Spec

-----------------------------------------------------------------------------
(* Which decision an outcome is credited to. *)

\* An execution was decided no later than the decision its result will be
\* credited to, by that very decision while a memory waits for the result, and
\* no event is newer than the last one recorded.
NotEarlier(s, last) ==
    /\ s.exec # None => /\ s.exec.decision <= s.current
                        /\ s.pending # None => s.exec.decision = s.current
    /\ s.current <= last

\* Live and in every state that can come back.
CreditedNoEarlier ==
    /\ NotEarlier(Live, made)
    /\ NotEarlier(durable, made)
    /\ snapshot # None => NotEarlier(snapshot, made)

\* What serialize saves of the fields, against the last event recorded.
LEMMA LiveNotEarlier ==
    /\ NotEarlier(Live, made) <=> CreditIsNotEarlier /\ current <= made
    /\ NotEarlier(Live', made') <=> CreditIsNotEarlier' /\ current' <= made'
  BY DEF NotEarlier, Live, CreditIsNotEarlier

\* Events are only added.
LEMMA MadeGrows ==
    ASSUME TypeOK, Next
    PROVE  made \in Nat /\ made' \in Nat /\ made <= made'
<1>1. made \in Nat /\ made' \in Nat
  BY NextTyped, BoundsAssumption DEF TypeOK
<1>2. made' \in {made, made + 1}
  BY DEF Next, Substep, Elapse, Complete, CompleteRaises, Interrupt, LoopDecides,
         LoopRests, RequestDecides, Begin, Answer, WakeConsolidated, Started,
         Refused, RecordDecision, SleepConsolidated, SetPaused, Save, Fork, Reset,
         Load, Stop, Crash, CrashInReset, Restart
<1>3. QED
  BY <1>1, <1>2

\* A saved state stays no earlier while events are added.
LEMMA SavedNotEarlier ==
    ASSUME TypeOK, Next, NEW s \in Images, NotEarlier(s, made)
    PROVE  NotEarlier(s, made') /\ NotEarlier([s EXCEPT !.paused = TRUE], made')
<1>1. s.current \in Nat /\ s.current <= made'
  BY MadeGrows, BoundsAssumption DEF Images, NotEarlier
<1>2. QED
  BY <1>1 DEF Images, NotEarlier

\* Every step keeps the live pair in order.
LEMMA LiveNotEarlierNext ==
    ASSUME TypeOK, CreditedNoEarlier, Next
    PROVE  NotEarlier(Live', made')
<1> USE DEF CreditIsNotEarlier
<1>1. CreditIsNotEarlier /\ current <= made
  BY LiveNotEarlier DEF CreditedNoEarlier
<1>2. current \in Nat /\ (exec # None => exec.decision \in Nat)
  BY BoundsAssumption DEF TypeOK, Executions, Decisions
<1>3. ASSUME UNCHANGED current, exec' \in {None, exec}, pending' \in {None, pending}
      PROVE  NotEarlier(Live', made')
  BY <1>1, <1>2, <1>3, MadeGrows, LiveNotEarlier
<1>4. ASSUME NEW t \in Tasks, Answer(t)
      PROVE  NotEarlier(Live', made')
  <2>1. CASE Started(t)
    BY <2>1, MadeGrows, LiveNotEarlier DEF Started, RecordDecision, Propose
  <2>2. CASE Refused(t)
    BY <1>1, <1>2, <2>2, MadeGrows, LiveNotEarlier DEF Refused, RecordDecision
  <2>3. CASE WakeConsolidated(t) \/ SleepConsolidated(t)
    BY <1>3, <2>3 DEF WakeConsolidated, SleepConsolidated
  <2>4. QED
    BY <1>4, <2>1, <2>2, <2>3 DEF Answer
<1>5. CASE Substep
  BY <1>3, <1>5 DEF Substep, Elapse, Complete, CompleteRaises, Interrupt, ResolvePending
<1>6. CASE LoopDecides \/ LoopRests \/ (\E r \in Requests : RequestDecides(r)) \/ SetPaused \/ Save \/ Fork
  BY <1>3, <1>6 DEF LoopDecides, Begin, LoopRests, RequestDecides, SetPaused, Save, Fork
<1>7. CASE Reset \/ CrashInReset
  BY <1>7, MadeGrows, LiveNotEarlier DEF Reset, CrashInReset, FreshWorld
<1>8. ASSUME NEW image, NotEarlier(image, made), NEW records, RestoreFrom(image, records), UNCHANGED made
      PROVE  NotEarlier(Live', made')
  BY <1>8, LiveNotEarlier DEF RestoreFrom, NotEarlier
<1>9. CASE Load
  BY <1>8, <1>9 DEF Load, CreditedNoEarlier
<1>10. CASE Stop \/ Crash
  BY <1>8, <1>10 DEF Stop, Crash, Restart, CreditedNoEarlier
<1>11. QED
  BY <1>4, <1>5, <1>6, <1>7, <1>9, <1>10 DEF Next

\* And every saved pair.
LEMMA CreditedNoEarlierNext ==
    TypeOK /\ CreditedNoEarlier /\ [Next]_vars => CreditedNoEarlier'
<1> SUFFICES ASSUME TypeOK, CreditedNoEarlier, Next
             PROVE  CreditedNoEarlier'
  BY DEF vars, CreditedNoEarlier, NotEarlier, Live
<1>1. NotEarlier(Live', made')
  BY LiveNotEarlierNext DEF NotEarlier
<1>2. Live \in Images /\ Live' \in Images
  BY NextTyped, LiveIsImage, LiveIsImageNext
<1>3. NotEarlier(durable', made')
  <2>1. CASE durable' \in {durable, Live}
    BY <1>2, <2>1, SavedNotEarlier DEF CreditedNoEarlier, TypeOK, NotEarlier
  <2>2. CASE durable' \in {Live', [Live' EXCEPT !.paused = TRUE]}
    BY <1>1, <1>2, <2>2 DEF NotEarlier, Images
  <2>3. QED
    BY <2>1, <2>2, DurableIsSaved
<1>4. snapshot' # None => NotEarlier(snapshot', made')
  <2>1. CASE snapshot' = snapshot
    BY <2>1, SavedNotEarlier DEF CreditedNoEarlier, TypeOK, NotEarlier
  <2>2. CASE snapshot' = Live
    BY <1>2, <2>2, SavedNotEarlier DEF CreditedNoEarlier, NotEarlier
  <2>3. CASE snapshot # None /\ snapshot' = [snapshot EXCEPT !.paused = TRUE]
    BY <2>3, SavedNotEarlier DEF CreditedNoEarlier, TypeOK, NotEarlier
  <2>4. QED
    BY <2>1, <2>2, <2>3, SnapshotIsSaved
<1>5. QED
  BY <1>1, <1>3, <1>4 DEF CreditedNoEarlier

\* With every command allowed, requests that decide and snapshots loaded under
\* a decision in flight included, a result may be credited to a decision that
\* came after the one that started the action, but never to an earlier one, and
\* never to another one when a memory depends on it (_handle_action_result).
THEOREM NeverCreditedToEarlier == Spec => []CreditIsNotEarlier
<1>1. Init => CreditedNoEarlier
  BY DEF Init, CreditedNoEarlier, NotEarlier, Live
<1>2. CreditedNoEarlier => CreditIsNotEarlier
  BY LiveNotEarlier DEF CreditedNoEarlier
<1>3. QED
  BY <1>1, <1>2, CreditedNoEarlierNext, TypeCorrect, PTL DEF Spec
=============================================================================
