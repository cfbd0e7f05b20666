------------------------------- MODULE Engine -------------------------------
(***************************************************************************)
(* The decision cycle of SimulationEngine (app/simulation/engine.py over   *)
(* scheduler.py) as it runs on one asyncio event loop.                     *)
(*                                                                         *)
(* Several tasks of that loop share the engine: the background loop        *)
(* (_run_loop) and the HTTP requests that call make_decision through       *)
(* /api/control.  Code between two awaits is one action.  make_decision    *)
(* suspends three times, while it waits for the model: before the wake     *)
(* consolidation, before the decision and before the consolidation that    *)
(* starts a sleep.  Every other control request runs between those         *)
(* suspensions, in one step.                                               *)
(*                                                                         *)
(* A world is the number of worlds created so far: it stands for the       *)
(* authorization epoch, the run id and the world generation id, which      *)
(* _new_world draws together.  A decision is the id of its event row.      *)
(***************************************************************************)
EXTENDS Naturals

CONSTANTS
    Loop,           \* the task running _run_loop
    Requests,       \* HTTP requests that may call make_decision
    Controls,       \* the operator's commands available in an instance
    MaxWorlds,      \* bound on the worlds created
    MaxDecisions,   \* bound on the decision events recorded
    Window,         \* how many recent events make_decision searches (4)
    None            \* Python's None

Tasks     == {Loop} \cup Requests
Worlds    == 1..MaxWorlds
Decisions == 1..MaxDecisions

\* "act" is every timed action other than sleep.
ActionNames == {"act", "sleep"}

Executions == [decision : Decisions, action : ActionNames]

\* pending_memory: the decision that proposed the memory, the world whose
\* perception the model answered to, the world the engine stamped on it, and
\* whether its tags leave room for the two that verification adds.
Proposals == [decision : Decisions, evidence : Worlds, world : Worlds, fits : BOOLEAN]

\* A sealed file of the vault: the world whose authority sealed it and the
\* world it speaks about.
Outcomes    == [kind : {"outcome"}, decision : Decisions, authority : Worlds, evidence : Worlds]
Reflections == [kind : {"reflection"}, authority : Worlds, evidence : Worlds]

\* What serialize() saves: _decision_pending is not part of it.
Images == [world : Worlds, alive : BOOLEAN, sleeping : BOOLEAN,
           exec : Executions \cup {None}, pending : Proposals \cup {None},
           current : 0..MaxDecisions, paused : BOOLEAN,
           due : 0..Window, cognition : SUBSET Worlds]

ASSUME NoneAssumption   == None \notin Executions \cup Proposals \cup Images
ASSUME TaskAssumption   == Loop \notin Requests
ASSUME BoundsAssumption == /\ MaxWorlds \in Nat \ {0}
                           /\ MaxDecisions \in Nat
                           /\ Window \in Nat \ {0}

VARIABLES
    world,            \* the live world
    alive,            \* agent.alive
    sleeping,         \* agent.sleeping
    exec,             \* controller.execution
    pending,          \* pending_memory
    current,          \* current_decision_event_id, 0 for None
    decisionPending,  \* _decision_pending
    paused,           \* paused
    due,              \* records newer than the last consolidation_due in
                      \* agent.recent_events; Window when it is out of reach
    cognition,        \* worlds that the live agent's beliefs, plan and recent
                      \* events come from
    made,             \* decision events recorded so far
    task,             \* where each task is suspended
    vault,            \* the sealed memory files
    snapshot,         \* a row of the snapshots table
    durable           \* the metadata row current_state

body == <<alive, sleeping, exec, pending, current, decisionPending>>
vars == <<world, body, paused, due, cognition, made, task, vault, snapshot, durable>>

\* origin: the world whose agent (waking, settling) or whose perception
\* (deciding) the suspended task holds on to.
Idle     == [pc |-> "idle", origin |-> 1]
TaskPCs  == {"idle", "advancing", "failed", "waking", "deciding", "settling"}
Thinking == {"waking", "deciding", "settling"}

TypeOK ==
    /\ world \in Worlds
    /\ alive \in BOOLEAN /\ sleeping \in BOOLEAN
    /\ exec \in Executions \cup {None}
    /\ pending \in Proposals \cup {None}
    /\ current \in 0..MaxDecisions
    /\ decisionPending \in BOOLEAN /\ paused \in BOOLEAN
    /\ due \in 0..Window
    /\ cognition \in SUBSET Worlds
    /\ made \in 0..MaxDecisions
    /\ task \in [Tasks -> [pc : TaskPCs, origin : Worlds]]
    /\ vault \in SUBSET (Outcomes \cup Reflections)
    /\ snapshot \in Images \cup {None}
    /\ durable \in Images

-----------------------------------------------------------------------------
\* serialize()
Live == [world |-> world, alive |-> alive, sleeping |-> sleeping, exec |-> exec,
         pending |-> pending, current |-> current, paused |-> paused,
         due |-> due, cognition |-> cognition]

\* Mutant: the age runs past the searched window.
Aged_Unbounded(d, k) == d + k

\* The position of the consolidation_due entry after k more records.
Aged(d, k) == IF d + k < Window THEN d + k ELSE Window

\* The event loop runs one task at a time, and the substeps of one advance()
\* have no await between them: nothing else runs until advance() yields.
Free == task[Loop].pc # "advancing"

\* advance() persists once thirty simulated seconds have passed.
PersistIfDue == durable' \in {durable, Live'}

\* What follows make_decision in its caller: the loop goes on to the persist
\* check of advance(), a request just answers.
Return(t) ==
    /\ task' = [task EXCEPT ![t] = Idle]
    /\ IF t = Loop THEN PersistIfDue ELSE UNCHANGED durable

\* What _new_world leaves for the first persist of a fresh experiment.
FreshWorld(w) ==
    /\ world' = w
    /\ alive' = TRUE /\ sleeping' = FALSE
    /\ exec' = None /\ pending' = None /\ current' = 0
    /\ decisionPending' = TRUE
    /\ due' = Window
    /\ cognition' = {w}

\* Mutant: _restore forgets to derive the flag from the execution.
RestoreFrom_KeepsFlag(image, records) ==
    /\ world' = image.world
    /\ alive' = image.alive /\ sleeping' = image.sleeping
    /\ exec' = image.exec /\ pending' = image.pending /\ current' = image.current
    /\ decisionPending' = decisionPending
    /\ paused' = image.paused
    /\ due' = Aged(image.due, records)
    /\ cognition' = image.cognition

\* Mutant: current_decision_event_id is not restored.
RestoreFrom_LosesDecisionId(image, records) ==
    /\ world' = image.world
    /\ alive' = image.alive /\ sleeping' = image.sleeping
    /\ exec' = image.exec /\ pending' = image.pending /\ current' = 0
    /\ decisionPending' = (image.exec = None)
    /\ paused' = image.paused
    /\ due' = Aged(image.due, records)
    /\ cognition' = image.cognition

\* _restore: the fields come from the saved state, the flag from its execution.
RestoreFrom(image, records) ==
    /\ world' = image.world
    /\ alive' = image.alive /\ sleeping' = image.sleeping
    /\ exec' = image.exec /\ pending' = image.pending /\ current' = image.current
    /\ decisionPending' = (image.exec = None)
    /\ paused' = image.paused
    /\ due' = Aged(image.due, records)
    /\ cognition' = image.cognition

\* The first boot of the process, in the state its _new_world left.
Init ==
    /\ world = 1
    /\ alive = TRUE /\ sleeping = FALSE
    /\ exec = None /\ pending = None /\ current = 0
    /\ decisionPending = TRUE
    /\ paused \in BOOLEAN
    /\ due = Window
    /\ cognition = {1}
    /\ made = 0
    /\ task = [t \in Tasks |-> Idle]
    /\ vault = {}
    /\ snapshot = None
    /\ durable = Live

-----------------------------------------------------------------------------
(* The background loop: advance() and its substeps. *)

\* A substep runs when the loop wakes up unpaused, and again while the same
\* advance() has simulated time left, paused or not.
Stepping ==
    \/ task[Loop].pc = "idle" /\ ~paused
    \/ task[Loop].pc = "advancing"

KeepAdvancing == task' = [task EXCEPT ![Loop].pc = "advancing"]

\* update_needs: who dies of hunger, thirst, cold or heat does not sleep any more.
Starves == alive /\ alive' = FALSE /\ sleeping' = FALSE

\* resolve_npc_interactions: who is killed asleep keeps the flag.
Mauled(asleep) == alive /\ alive' = FALSE /\ sleeping' = asleep

Harm(asleep) ==
    \/ alive' = alive /\ sleeping' = asleep
    \/ Starves
    \/ Mauled(asleep)

\* Mutant: the end of an execution does not raise the flag.
StopIfDead_KeepsFlag(wanted) ==
    /\ decisionPending' = (decisionPending /\ alive')
    /\ paused' = (paused \/ ~alive')

\* Mutant: the clock runs on after a death.
StopIfDead_ClockRuns(wanted) ==
    /\ decisionPending' = (wanted /\ alive')
    /\ paused' = paused

\* The last lines of _advance_substep: a dead body stops the clock.
StopIfDead(wanted) ==
    /\ decisionPending' = (wanted /\ alive')
    /\ paused' = (paused \/ ~alive')

\* A substep without a terminal result: nothing is running, or it runs on.
Elapse ==
    /\ Stepping
    /\ Harm(sleeping)
    /\ StopIfDead(decisionPending)
    /\ \E records \in 0..Window : due' = Aged(due, records)
    /\ KeepAdvancing
    /\ UNCHANGED <<world, exec, pending, current, cognition, made, vault, snapshot, durable>>

\* _verified_memory_request_from builds the verified request outside the try:
\* two more tags than MemoryWrite allows raise through the loop.
TooManyTags(succeeded) == succeeded /\ pending # None /\ ~pending.fits

\* Mutant: a failed outcome leaves the proposal waiting.
ResolvePending_OnlyOnSuccess(succeeded) ==
    \/ ~succeeded /\ UNCHANGED <<pending, vault>>
    \/ /\ succeeded
       /\ pending' = None
       /\ \/ UNCHANGED vault
          \/ /\ pending # None
             /\ vault' = vault \cup {[kind |-> "outcome", decision |-> pending.decision,
                                      authority |-> world, evidence |-> pending.evidence]}

\* _resolve_pending_memory on a terminal result: a failed outcome rejects the
\* proposal, a successful one seals it unless the vault refuses it.
ResolvePending(succeeded) ==
    /\ pending' = None
    /\ \/ UNCHANGED vault
       \/ /\ succeeded
          /\ pending # None
          /\ vault' = vault \cup {[kind |-> "outcome", decision |-> pending.decision,
                                   authority |-> world, evidence |-> pending.evidence]}

\* controller.step completes the execution; a sleeper wakes and its
\* consolidation_due is the newest of its recent events.
Complete(succeeded) ==
    /\ Stepping
    /\ exec # None
    /\ exec.action = "sleep" => succeeded
    /\ ~TooManyTags(succeeded)
    /\ exec' = None
    /\ Harm(sleeping /\ exec.action # "sleep")
    /\ ResolvePending(succeeded)
    /\ StopIfDead(TRUE)
    /\ IF exec.action = "sleep"
       THEN due' = 0
       ELSE \E records \in 1..Window : due' = Aged(due, records)
    /\ KeepAdvancing
    /\ UNCHANGED <<world, current, cognition, made, snapshot, durable>>

\* The same completion when the verified request does not validate, or the vault
\* or the database raises anything but a MemoryValidationError, before or after
\* the file is sealed: the error leaves _handle_action_result, the substep and
\* _run_loop, and the task ends.
CompleteRaises ==
    /\ Stepping
    /\ exec # None /\ pending # None
    /\ exec' = None
    /\ ResolvePending(TRUE)
    /\ TooManyTags(TRUE) => UNCHANGED vault
    /\ Harm(sleeping /\ exec.action # "sleep")
    /\ \E records \in 1..Window : due' = Aged(due, records)
    /\ task' = [task EXCEPT ![Loop].pc = "failed"]
    /\ UNCHANGED <<world, current, decisionPending, paused, cognition, made,
                   snapshot, durable>>

\* An _interrupt_reason holds after the substep: controller.interrupt.
Interrupt ==
    /\ Stepping
    /\ exec # None
    /\ exec' = None
    /\ Harm(sleeping /\ exec.action # "sleep")
    /\ ResolvePending(FALSE)
    /\ StopIfDead(TRUE)
    /\ \E records \in 1..Window : due' = Aged(due, records)
    /\ KeepAdvancing
    /\ UNCHANGED <<world, current, cognition, made, snapshot, durable>>

-----------------------------------------------------------------------------
(* make_decision, from one await to the next. *)

\* The only place that looks at the body before a decision.
CanDecide == alive /\ exec = None /\ ~sleeping

\* A consolidation_due within reach sends the task to the wake consolidation
\* first; otherwise it observes the live world and asks the model.
Begin(t) ==
    /\ CanDecide
    /\ task' = [task EXCEPT ![t] = [pc |-> IF due < Window THEN "waking" ELSE "deciding",
                                    origin |-> world]]
    /\ UNCHANGED <<world, body, paused, due, cognition, made, vault, snapshot, durable>>

\* End of advance(), a second of real time after the loop's last decision.
LoopDecides ==
    /\ task[Loop].pc = "advancing"
    /\ decisionPending
    /\ Begin(Loop)

\* End of advance() without a decision.
LoopRests ==
    /\ task[Loop].pc = "advancing"
    /\ UNCHANGED <<world, body, paused, due, cognition, made, vault, snapshot>>
    /\ Return(Loop)

\* POST /api/control {"action": "decide"}: nothing compares it with a decision
\* already in flight.
RequestDecides(r) ==
    /\ "decide" \in Controls
    /\ Free
    /\ task[r].pc = "idle"
    /\ Begin(r)

\* Mutant: the live agent seals instead of the one the consolidation was given.
Consolidate_LiveAuthority(t) ==
    \/ UNCHANGED vault
    \/ vault' = vault \cup {[kind |-> "reflection", authority |-> world,
                             evidence |-> task[t].origin]}

\* consolidate_sleep after its await: it seals what it writes with the agent it
\* was given, which a reset or a load may have replaced since.
Consolidate(t) ==
    \/ UNCHANGED vault
    \/ vault' = vault \cup {[kind |-> "reflection", authority |-> task[t].origin,
                             evidence |-> task[t].origin]}

\* The wake consolidation is over: recent_events becomes the list read before
\* the await, without its consolidation_due entries, whichever agent is live
\* now; then the task observes the live world.
WakeConsolidated(t) ==
    /\ Free
    /\ task[t].pc = "waking"
    /\ Consolidate(t)
    /\ due' = Window
    /\ cognition' = cognition \cup {task[t].origin}
    /\ task' = [task EXCEPT ![t] = [pc |-> "deciding", origin |-> world]]
    /\ UNCHANGED <<world, body, paused, made, snapshot, durable>>

\* The answer becomes a decision event and the live agent's plan and beliefs.
RecordDecision(t) ==
    /\ made < MaxDecisions
    /\ made' = made + 1
    /\ current' = made + 1
    /\ cognition' = cognition \cup {task[t].origin}
    /\ \E records \in 2..(Window + 2) : due' = Aged(due, records)

\* controller.start looks at alive and sleeping, never at a running execution.
BodyAccepts == alive /\ ~sleeping

\* Mutant: the previous proposal is not cleared first.
Propose_KeepsOld(t) ==
    \/ UNCHANGED pending
    \/ \E fits \in BOOLEAN :
         pending' = [decision |-> made + 1, evidence |-> task[t].origin,
                     world |-> world, fits |-> fits]

\* pending_memory is cleared, and set again when _memory_candidate_policy
\* accepts the answer's candidate.
Propose(t) ==
    \/ pending' = None
    \/ \E fits \in BOOLEAN :
         pending' = [decision |-> made + 1, evidence |-> task[t].origin,
                     world |-> world, fits |-> fits]

\* The action starts, in the place of whatever was running.
Started(t) ==
    /\ Free
    /\ task[t].pc = "deciding"
    /\ RecordDecision(t)
    /\ BodyAccepts
    /\ Propose(t)
    /\ UNCHANGED <<world, alive, paused, vault, snapshot>>
    /\ decisionPending' = FALSE
    /\ \E action \in ActionNames :
        /\ exec' = [decision |-> made + 1, action |-> action]
        /\ sleeping' = (action = "sleep")
        /\ IF action = "sleep"
           THEN /\ task' = [task EXCEPT ![t] = [pc |-> "settling", origin |-> world]]
                /\ UNCHANGED durable
           ELSE Return(t)

\* controller.start refuses: the body is dead or asleep, or the world does not
\* allow the action.  The refusal is a terminal result, so it rejects the
\* proposal just made; a running execution stays.
Refused(t) ==
    /\ Free
    /\ task[t].pc = "deciding"
    /\ RecordDecision(t)
    /\ pending' = None
    /\ decisionPending' = TRUE
    /\ UNCHANGED <<world, alive, sleeping, exec, paused, vault, snapshot>>
    /\ Return(t)

\* The consolidation that starts a sleep is over.
SleepConsolidated(t) ==
    /\ Free
    /\ task[t].pc = "settling"
    /\ Consolidate(t)
    /\ due' = Aged(due, 1)
    /\ UNCHANGED <<world, body, paused, cognition, made, snapshot>>
    /\ Return(t)

-----------------------------------------------------------------------------
(* The other commands of /api/control, one step each. *)

\* set_paused
SetPaused ==
    /\ "pause" \in Controls
    /\ Free
    /\ paused' \in BOOLEAN
    /\ UNCHANGED <<world, body, due, cognition, made, task, vault, snapshot>>
    /\ durable' = Live'

\* Mutant: the new world waits for the next periodic persist.
PersistFresh_Later == UNCHANGED durable

\* _new_world persists while reset still holds paused up; the flag that comes
\* down afterwards is only the one in memory.
PersistFresh == durable' = [Live' EXCEPT !.paused = TRUE]

\* reset: _new_world(clean_experiment=True).  Tasks in flight go on.
Reset ==
    /\ "reset" \in Controls
    /\ Free
    /\ world < MaxWorlds
    /\ FreshWorld(world + 1)
    /\ paused' = FALSE
    /\ PersistFresh
    /\ vault' = {} /\ snapshot' = None
    /\ UNCHANGED <<made, task>>

\* save_snapshot: the state as it is, then an event, then a persist.
Save ==
    /\ "save" \in Controls
    /\ Free
    /\ snapshot' = Live
    /\ due' = Aged(due, 1)
    /\ UNCHANGED <<world, body, paused, cognition, made, task, vault>>
    /\ durable' = Live'

\* fork_snapshot: the saved state again, paused.
Fork ==
    /\ "save" \in Controls
    /\ Free
    /\ snapshot # None
    /\ snapshot' = [snapshot EXCEPT !.paused = TRUE]
    /\ UNCHANGED <<world, body, paused, due, cognition, made, task, vault, durable>>

\* Mutant: any saved state is welcome.
SameEpoch_Any(image) == TRUE

\* _restore turns away a state of another authorization epoch.
SameEpoch(image) == image.world = world

\* load_snapshot
Load ==
    /\ "save" \in Controls
    /\ Free
    /\ snapshot # None
    /\ SameEpoch(snapshot)
    /\ RestoreFrom(snapshot, 0)
    /\ durable' = Live'
    /\ UNCHANGED <<made, task, vault, snapshot>>

-----------------------------------------------------------------------------
(* The process ends and starts again on current_state. *)

Restart(image) ==
    /\ RestoreFrom(image, 1)
    /\ durable' = image
    /\ task' = [t \in Tasks |-> Idle]
    /\ UNCHANGED <<made, vault, snapshot>>

\* stop() persists, unless awaiting a failed loop task raises first.
Stop ==
    /\ "restart" \in Controls
    /\ Free
    /\ task[Loop].pc # "failed"
    /\ Restart(Live)

\* The process dies between two steps, or in stop() on a failed loop.
Crash ==
    /\ "restart" \in Controls
    /\ Restart(durable)

\* The process dies inside reset: the new epoch is on disk before
\* clear_experiment, which precedes vault.clear.  The next start finds no
\* current_state or one of the old epoch, and makes a new world either way.
CrashInReset ==
    /\ "reset" \in Controls /\ "restart" \in Controls
    /\ Free
    /\ world < MaxWorlds
    /\ FreshWorld(world + 1)
    /\ paused' \in BOOLEAN
    /\ durable' = Live'
    /\ task' = [t \in Tasks |-> Idle]
    /\ \/ UNCHANGED <<vault, snapshot>>
       \/ vault' \in SUBSET vault /\ snapshot' = None
    /\ UNCHANGED made

-----------------------------------------------------------------------------
Substep == Elapse \/ (\E ok \in BOOLEAN : Complete(ok)) \/ CompleteRaises \/ Interrupt

Answer(t) == WakeConsolidated(t) \/ Started(t) \/ Refused(t) \/ SleepConsolidated(t)

Next ==
    \/ Substep
    \/ LoopDecides
    \/ LoopRests
    \/ \E r \in Requests : RequestDecides(r)
    \/ \E t \in Tasks : Answer(t)
    \/ SetPaused
    \/ Reset
    \/ Save
    \/ Fork
    \/ Load
    \/ Stop
    \/ Crash
    \/ CrashInReset

Spec == Init /\ [][Next]_vars

-----------------------------------------------------------------------------
(* Safety. *)

\* A state of the body is coherent, live or saved: a proposal waits for the
\* execution of the very decision that made it, in the world it was stamped
\* with, and a living body is asleep exactly while it executes a sleep.
PendingBelongsToExecution(s) ==
    s.pending # None => /\ s.exec # None
                        /\ s.exec.decision = s.pending.decision
                        /\ s.world = s.pending.world

AsleepWhileSleepRuns(s) ==
    s.alive => (s.sleeping <=> (s.exec # None /\ s.exec.action = "sleep"))

Coherent(s) == PendingBelongsToExecution(s) /\ AsleepWhileSleepRuns(s)

\* However decisions, late answers, interrupts, resets, loads and restarts
\* interleave, the live state and every saved one that can come back is
\* coherent: no proposal can be verified by another decision's outcome, and no
\* living body is left asleep with nothing that will wake it.
StatesCoherent ==
    /\ Coherent(Live)
    /\ Coherent(durable)
    /\ snapshot # None => Coherent(snapshot)

\* A living body with nothing to do asks for a decision: the loop's own gate
\* (_decision_pending) is up whenever no execution is there to raise it at its
\* end.  The one exception is a loop that has failed.
NeverStranded ==
    alive /\ exec = None /\ task[Loop].pc # "failed" => decisionPending

\* The state that a restart resumes is one of the live world: a crash never
\* brings an earlier experiment back.
DurableIsOfThisWorld == durable.world = world

\* retrieve_memories keeps a file only if the live authority sealed it.
Verified(m) == m.authority = world

\* A reflection that retrieval accepts speaks of the live world, even when a
\* reset came while its consolidation waited for the model.
ReflectionsStayInTheirWorld ==
    \A m \in vault : m.kind = "reflection" /\ Verified(m) => m.evidence = world

\* _handle_action_result credits a result to current_decision_event_id as it is
\* when the result is there.  Whatever decides, loads or restarts meanwhile, that
\* is no decision from before the one that started the action, and it is that one
\* exactly as long as a memory waits for the result.
CreditIsNotEarlier ==
    exec # None => /\ exec.decision <= current
                   /\ pending # None => exec.decision = current

(* Action properties. *)

\* A proposal becomes durable memory only in the step that ends the execution
\* of the decision that proposed it (ARCHITECTURE.md: "only a candidate until
\* the associated action reaches an authoritative successful outcome").
CommitOnlyOwnOutcome ==
    [][\A m \in vault' \ vault : m.kind = "outcome" =>
          /\ exec # None /\ exec' = None
          /\ exec.decision = m.decision
          /\ m.authority = world]_vars

\* Worlds are never resumed once left: neither a load nor a restart undoes a
\* reset, even one that the process did not survive.
WorldNeverGoesBack == [][world' >= world]_vars

\* The terminal result to come will be credited to the decision that started
\* the execution: _handle_action_result reads current_decision_event_id when
\* the result is there, not when the action started.  It holds as long as only
\* the loop decides and no snapshot is loaded under a decision in flight.
OutcomeCreditedToItsDecision == exec # None => current = exec.decision

-----------------------------------------------------------------------------
(* Liveness. *)

\* asyncio resumes every task that is ready; the client turns a model that
\* does not answer into a fallback answer after its timeout; and a second of
\* real time passes, so the throttle of advance() opens again and again.
Fairness ==
    /\ WF_vars(Substep)
    /\ WF_vars(LoopRests)
    /\ SF_vars(LoopDecides)
    /\ \A t \in Tasks : WF_vars(Answer(t))

FairSpec == Spec /\ Fairness

\* An idle living body is given a thought or an action, unless the operator
\* pauses the clock, it dies or the loop fails.
IdleBodyGetsThought ==
    (alive /\ exec = None) ~>
        \/ \E t \in Tasks : task[t].pc \in Thinking
        \/ exec # None
        \/ ~alive \/ paused \/ task[Loop].pc = "failed"

\* Death stops the clock, whoever resumes it.
DeathPauses == (~alive /\ ~paused) ~> (alive \/ paused \/ task[Loop].pc = "failed")

-----------------------------------------------------------------------------
(* A statement of the repository's texts that the code does not keep. *)

\* README.md: "clean experiment resets that isolate memories between generated
\* worlds".
VerifiedMemoryIsNative == \A m \in vault : Verified(m) => m.evidence = world
=============================================================================
