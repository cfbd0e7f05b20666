# Embodied ALife: TLA+ models and proofs

Embodied ALife runs one simulated body in a generated world. A language model is
asked what the body does next; a deterministic Python engine decides what
happens. The server is one asyncio event loop (FastAPI): a background task steps
the world ten times a second, and HTTP requests pause, reset, save, load and
question the same engine object.

This directory holds TLA+ specifications of that program, TLC configurations that
model-check them on small instances, and TLAPS proofs for every value of the
constants. All line numbers refer to files under `src/`.

| module | what it is |
|---|---|
| `Engine.tla` | the decision cycle, pending memories, snapshots, restarts and crashes |
| `MCEngine.tla`, `MCEngine_*.cfg` | instances of it for TLC |
| `EngineProofs.tla` | theorems about it |
| `ActionController.tla` | the body's actions on items, shelters and the map |
| `ItemLedger.tla` | the contract it implements: where items may come from and go |
| `MCActionController.tla`, `MCActionController.cfg` | an instance of it for TLC |
| `ActionControllerProofs.tla` | theorems about it |
| `LedgerProofs.tla` | that it implements `ItemLedger` |
| `SumTheorems.tla` | lemmas on sums over finite sets, which the ledger counts with |
| `ApplyUpdate.tla` | the update worker: files, manifest, dependencies, rollback, faults |
| `AtomicInstall.tla` | the contract it implements: one version or the next |
| `Updater.tla` | the server's side: checks, installs, their lock, the shutdown; with the worker |
| `MCUpdater.tla`, `MCUpdater_*.cfg` | instances of it for TLC |
| `UpdaterProofs.tla` | theorems about both |
| `Experiment.tla` | the experiment on disk: key, epoch, memory files, ledger, database, and the process that writes them |
| `DurableMemory.tla` | the contract files, ledger and epoch implement: accepted entirely or not at all |
| `MCExperiment.tla`, `MCExperiment_*.cfg` | instances of it for TLC |
| `ExperimentProofs.tla` | theorems about it |
| `LLMClient.tla` | settings, status, requests and checks of the model client |
| `MCLLMClient.tla`, `MCLLMClient_client.cfg` | an instance of it for TLC |
| `LLMClientProofs.tla` | theorems about it |
| `DecisionPolicy.tla` | from perception over proposal and correction to the outcome, for food |
| `MCDecisionPolicy.tla`, `MCDecisionPolicy_*.cfg` | instances of it for TLC |
| `DecisionPolicyProofs.tla` | theorems about it |
| `PROJECT.json` | components, runs, mutants, map to the source, findings, hazards, theorems |

To run one: `tlc -config MCEngine_loop.cfg MCEngine.tla`, `tlapm EngineProofs.tla`.

## 1. The system

### Components

| component | source | state | operations | status |
|---|---|---|---|---|
| Simulation engine | `app/simulation/engine.py`, `scheduler.py` | `paused`, `_decision_pending`, `pending_memory`, `current_decision_event_id`, world, agent, observer queues | `_run_loop`, `advance`, `make_decision`, `reset`, `save_snapshot`, `fork_snapshot`, `load_snapshot`, `start`, `stop` | partly: `Engine`, `DecisionPolicy` (corrections), `Experiment` (start, reset) |
| Action controller, body | `actions.py`, `body.py` | `controller.execution`, position, path | `start`, `step`, `_complete`, `interrupt`, `move_along_path` | partly: `ActionController` |
| World, regeneration | `world.py` | resources, shelters, weather, animals, time | `tick`, `astar`, `advance_npcs` | partly: `ActionController` |
| Needs, wildlife | `needs.py`, `npcs.py` | vitals, `alive`, `sleeping` | `update_needs`, `resolve_npc_interactions` | partly: that they kill and wake; hunger in `DecisionPolicy` |
| Agent, cognition | `agent.py`, `cognition.py`, `belief_store.py` | inventory, beliefs, tasks, recent events | record, revise | partly |
| Perception, affordances | `perception.py`, `affordances.py` | none | projections | partly: `DecisionPolicy`, for food |
| Integrity authority | `integrity.py` | key file, epoch file, `memory-proofs.json` | seal, verify, rotate, load or create | partly: `Experiment` |
| Memory vault | `memory/*.py` | sealed files | write, consolidate, retrieve | partly: `Experiment`, `Engine` |
| Storage | `storage/*.py` | SQLite rows | transactions, retries | partly: `Experiment` |
| LLM client | `llm/client.py`, `observed_client.py`, `settings.py` | settings and their file, status | `decide`, `consolidate`, `configure`, `check_status` | partly: `LLMClient` |
| Fallback, schema | `llm/fallback.py`, `schemas.py` | `decision_count` | `decide` | partly: `DecisionPolicy` |
| Updater | `updater/*.py` | status, staged package | check, download, install | partly: `Updater` |
| Update application | `scripts/apply_update.py` | installed tree | copy, sync, roll back | partly: `ApplyUpdate` |
| Web API, WebSocket | `web/*.py`, `scheduler.py` queues | observer queues | commands, broadcast | partly: the commands |
| Diagnostics, readiness, prompts, serialization, page, release tooling | | | | not modelled |
| Application shell | `main.py`, `serve.py`, `config.py` | none | start, shutdown | partly: `Engine`, `Updater` |

### How they interact

* The background loop calls `advance()`. It runs up to sixty substeps without
  yielding, then makes a decision if the gate `_decision_pending` is up and a
  second of real time has passed since its last one, then perhaps persists.
* `make_decision` may suspend three times: for the consolidation due since the
  last sleep, for the model's answer, and for the consolidation that starts a
  sleep. Everything else in the engine runs to completion between suspensions, so
  every control request interleaves with a decision exactly there.
* A decision may carry a memory candidate. It waits in `pending_memory` for the
  outcome of the action; success seals it into the vault under the live world's
  authorization epoch, anything else rejects it. Retrieval accepts a file only if
  the live authority sealed it.
* `current_state` is rewritten by some commands and every thirty simulated
  seconds. A restart resumes it.
* The updater in the server stages a release, starts a worker process and has the
  server stopped; the worker waits for that, replaces the files and starts the
  server again. The two share only the file system.
* The controller checks an action when it starts and has its effect substeps
  later; resources, storms, needs and animals act in every substep between.

### What is hard

The list, each entry with its line, is `hazards` in `PROJECT.json`. In short:

* **State looked at before an await and used after it** (engine.py:281, 335): a reset,
  a load, a death, a meal or another decision may come between the question and its
  answer.
* **Two decisions at once** (routes.py:234): `decide` does not ask whether one is
  in flight.
* **A proposal that outlives its decision** (engine.py:398): six different paths
  clear or keep it.
* **Crashes** around the periodic persist (scheduler.py:778) and inside `reset`
  (scheduler.py:195), which rotates the epoch, clears the database and clears the
  vault in separate steps.
* **A body that is never asked again** (scheduler.py:290): a path that ends an
  execution without raising the gate.
* **Checked at start, used at completion** (actions.py:522): the second check
  repeats only some of the first one's conditions.
* **A regrowth clock that is not started** (world.py:341): a bush bare for ever.
* **Partial failure of an update** at any write (apply_update.py:127), under a server
  that must be gone by then (apply_update.py:275), and **a second install** beside the
  first (manager.py:226).
* **Partial failure** between vault file, ledger and database (vault.py:136), between a
  loaded world and its row (scheduler.py:793), **a lost key** (integrity.py:898) and **a ledger at its limit** (integrity.py:942).
* **Overlapping model requests** (client.py:190) and a catalog read before the await
  (client.py:184): each writes the status and the settings that it finds on return.
* **An action offered from a rounded distance** (affordances.py:129), and failures
  counted under another name than they are looked up (engine.py:116).

### What makes each component correct

* *Engine*: a proposal is verified only by the outcome of its own decision; a body
  without an action is asked; the live state and all saved ones fit together; no
  world that was reset away returns; no memory of one world is verified in another.
* *Controller and world*: no item appears or vanishes; capacity is kept; what was
  accepted succeeds; shelters do not overlap; the wild grows back; every action ends.
* *Integrity and vault*: what retrieval accepts speaks of the live world; a crash
  between two writes leaves nothing half accepted; a restart accepts what was accepted;
  a lost key is not replaced under proofs (the code's world is too large for that);
  every event can be signed.
* *LLM client*: a restart uses the settings of now; the status names them; falling back
  is no trap.
* *Decision policy*: the loop keeps the food policy whoever proposes; a hungry body at
  food eats; what keeps failing is stopped.
* *Updater*: what is installed is newer and was confirmed; every request is answered;
  every worker ends.
* *Update application*: a failed update leaves the old files, a finished one the new
  ones, and no running server sees them change.

## 2. Engine

### State and actions

| model | code |
|---|---|
| `world` | the authorization epoch, the run id and the world generation id, which `_new_world` draws together; numbered in order of creation |
| `alive`, `sleeping` | `agent.alive`, `agent.sleeping` |
| `exec` | `controller.execution`: the decision that started it, and whether it is a sleep |
| `pending` | `pending_memory`: the decision, the world the model was shown, the world stamped on it, and whether its tags leave room for two more |
| `current`, `decisionPending`, `paused` | `current_decision_event_id`, `_decision_pending`, `paused` |
| `due` | how many recent events are newer than the last `consolidation_due`; `Window` when `make_decision` no longer finds it |
| `cognition` | the worlds the live agent's beliefs and recent events come from |
| `task` | where each task is suspended, and the world it holds on to |
| `vault`, `snapshot`, `durable` | the sealed files, a snapshot row, the row `current_state` |

Code between two awaits is one action. While `advance()` runs its substeps nothing
else does, which is the guard `Free`.

| action | code |
|---|---|
| `Elapse`, `Complete`, `CompleteRaises`, `Interrupt` | `_advance_substep` by the result of `controller.step`; every one includes the needs, the wildlife, the resolution of the proposal and the stop of the clock on death |
| `LoopDecides`, `LoopRests` | the end of `advance()` |
| `RequestDecides` | the `decide` command |
| `WakeConsolidated`, `Started`, `Refused`, `SleepConsolidated` | `make_decision` after each of its awaits, to the next one or to its end, with the persist check of the caller |
| `SetPaused`, `Reset`, `Save`, `Fork`, `Load` | the other commands |
| `Stop`, `Crash`, `CrashInReset` | the end of the process, with the start that follows |

The model's answer is an external choice. Needs, weather and wildlife appear only
as the records they add to `recent_events` and as death and waking. A failed vault
write leaves the vault as it was. Of the errors that end the loop only the one at the
end of an action is here (`CompleteRaises`); a vault or database that fails with
anything but a refused write ends it at other lines too (engine.py:477), in the same way.
`set_speed`, a number of substeps, is left out.

### Runs

| run | instance | what it shows |
|---|---|---|
| `engine_safety` | loop and one request; every command; 2 worlds, 2 decisions, window 2; 2.0 million states | all safety properties below |
| `engine_loop` | loop alone; pause, reset, restart; 2 worlds, 3 decisions, window 4; `FairSpec`; 180,000 states | outcomes are credited to their decision; an idle body is given a thought; death stops the clock |
| `engine_isolation` | reset while a decision waits | *violated*, finding 1 |

The properties of `engine_safety`: `TypeOK`; `StatesCoherent` (a proposal waits
for the execution of its own decision and a living body sleeps exactly while a
sleep runs, in the live state, in `current_state` and in the snapshot);
`NeverStranded`; `DurableIsOfThisWorld`; `ReflectionsStayInTheirWorld`;
`CommitOnlyOwnOutcome`; `WorldNeverGoesBack`; `CreditIsNotEarlier` (the decision that an
outcome would be credited to is that of the execution or a later one, and just that one
while a proposal waits).

**Bounds.** Two worlds are one reset, which is what separates "the world asked
about" from "the live world"; a crash inside that reset is also there. Two
decisions are enough for one to replace the other and for its proposal to meet the
wrong outcome. A window of two gives the three kinds of `due`: found, nearly lost,
lost; the code's value, four, is used in every other run. One request beside the
loop gives two decisions in flight. `MaxWorlds` and `MaxDecisions` are the only
bounds in guards; reaching them disables `Reset` or the end of a decision.
Deadlock is checked: some command is always possible.

**Fairness.** `WF(Substep)`, `WF(LoopRests)` and `WF(Answer)`: asyncio resumes every
task that is ready, and a model that does not answer is turned into a fallback
answer by the client's timeout. `SF(LoopDecides)`: the one-second throttle of real
time closes and opens again, so the loop meets an open one again and again.
Nothing is assumed of the operator, of resets or of crashes; `IdleBodyGetsThought`
allows for a pause and for a loop that has failed.

`OutcomeCreditedToItsDecision` is checked only where the loop decides alone and no
snapshot is loaded: with a second decider, or a load under a decision in flight, the
code reads the current decision when the result arrives and credits the wrong one, a
later one that was refused, say. That is a hazard of the list, not a promise of any
text; what is left of it with every command is `CreditIsNotEarlier`.

### Proofs

Assumptions: `Loop` is not a request, `None` is no value, and the bounds are natural
numbers, at least one for worlds and window. Requests, commands and bounds are
otherwise arbitrary.

| theorem | statement |
|---|---|
| `TypeCorrect` | `Spec => []TypeOK` |
| `AlwaysCoherent` | `Spec => []StatesCoherent` |
| `AlwaysGated` | `Spec => []NeverStranded` |
| `RestartStaysInWorld` | `Spec => []DurableIsOfThisWorld` |
| `ResetIsFinal` | `Spec => WorldNeverGoesBack` |
| `CommitsOwnOutcome` | `Spec => CommitOnlyOwnOutcome` |
| `ReflectionsStay` | `Spec => []ReflectionsStayInTheirWorld` |
| `NeverCreditedToEarlier` | `Spec => []CreditIsNotEarlier` |

`StatesCoherent` speaks of the saved states as well as of the live one because a
load or a crash makes a saved state the live one: for the live state alone it is
not inductive. It is inductive together with `TypeOK`. `DurableIsOfThisWorld` is what
a crash needs for `WorldNeverGoesBack` (a load compares the epochs itself).
`CommitsOwnOutcome` needs `StatesCoherent`: the proposal that a completion resolves
belongs to the execution that completes. `ReflectionsStay` needs the stronger
`SealedByItsWorld`: a reflection speaks of the world whose authority sealed it,
whichever world is live.

`NeverCreditedToEarlier` is about every command. It must speak of the saved states too,
since a load or a crash makes one of them the live one.

Model-checked only: `IdleBodyGetsThought`, `DeathPauses` (liveness) and
`OutcomeCreditedToItsDecision`, which is about the loop alone.

## 3. Action controller

### State and actions

`place` is an exact position; `Cells` are those with integer coordinates, and
`CellOf` rounds. `Reach`, `CloseTo`, `Route`, `Between` and `Cut` give what the code
computes from coordinates: `INTERACTION_RADIUS`, the 2.0 between shelters, `astar`,
the points where a body may stop between cells, and straight ways that touch a
blocked cell. `kind`, `home`, `quantity` and `growing` are the fields of the resources
(`growing` counts substeps since `last_harvest_time`, 0 when unset), `inventory` the
agent's, `shelters` the world's, `exec` is `controller.execution` with its remaining
time and path, `asked` the decisions in flight.

| action | code |
|---|---|
| `Ask` | `make_decision` begins on an idle, living, waking body |
| `Start`, `Refuse` | `controller.start` for an answer, at any later time and over whatever is running |
| `Idle`, `Continue`, `Interrupt`, `Complete` | `_advance_substep`: `world.tick`, `controller.step` with `_complete`, needs and wildlife, the storm |

`Complete` includes the effect (`PickUp`, `EatCarried`, `EatLying`, `Drop`, `Build`) or
the failure that `_complete` reports when it finds the world `Changed`. A stride of
`move_along_path` reaches the next cell, stops on the way, or gives the path up.

Abstracted: the order in which equally good carried food or lying food is chosen
(any of it); the minimum durations of building, sleeping and views (a decision asks
for any duration up to `MaxDuration`); what eating does to the needs; `other`, which
stands for the timed actions that leave places and items alone. `WithinBounds` keeps
`Start` within the instance's drop ids and shelters. Two checks of a drop have no
counterpart because they never decide anything: key items are kept apart from the
inventory (agent.py), so protecting them (actions.py:449, 594) refuses nothing that is
carried; and the id of a dropped item names its kind and the tenth of a second
(actions.py:596), while an execution lasts at least 0.2 s, so no two drops of a kind
share one.

### The contract

`ItemLedger` knows only counts: what grows in the wild, what was left lying, what is
carried, what was built. The wild grows up to its stock, and each other step moves
one item, eats one, or spends the exact cost of a shelter; the load never exceeds
the capacity when something is gathered. `ActionController` implements it under the
mapping `Ledger`, which sums quantities by kind: property `ItemsConserved`. A dropped
item counted twice, a harvest without its item, a pick-up beyond the capacity or a
regrowth beyond the stock would each be a step that the ledger does not have.

### Runs

| run | instance | what it shows |
|---|---|---|
| `controller` | a bush of one berry, a tree of one branch that makes a shelter, one drop, capacity 1, two shelters, `FairSpec`; 125,000 states | `TypeOK`, `DepletedIsGrowing`, `SheltersApart`, `ItemsConserved`, `AcceptedNeverSpoils`, `ExecutionEnds`, `EmptyGrowsBack` |

**The map** has three walkable cells around a rock, in half-cell coordinates with the
code's real distances. It has a cell just inside and one just outside the
interaction radius, a diagonal (longer than the time a path of one cell is given), a
place between two cells and a straight way from there that cuts the rock.

**Bounds.** Two decisions in flight give the case that matters, an answer that starts
an action over a running one. Capacity 1 with three items to gather reaches a full
inventory, and an item has to be dropped, eaten or built before the next. Regrowth after
two substeps and actions of up to two substeps put a refill before, in and after an
action. Two shelters and one building cell mean that a second is built where a storm
ruined the first, and refused while it stands.

`AcceptedNeverSpoils` is here about gathering, eating, dropping and building at once.
`EmptyGrowsBack` says that what was emptied comes due: a meal that ends in the substep
of the refill takes from what has just grown, so that the plant need not be seen full.
`ExecutionEnds` does not say where a movement ends; it may end short of its goal.

**Fairness** is `WF` of a substep of a living body: the loop steps the world as long as
nobody pauses it. Nothing is assumed about answers.

### Proofs

Assumptions (`PlaceAssumption`, `ItemAssumption`, `FinitenessAssumption`,
`BoundAssumption`, `NoneAssumption`): cells are places that round to themselves, the cell a body stands on is within 2.0 of
it, resources have a kind, a home and a stock, ids are distinct, ids and kinds are
finitely many, bounds are natural numbers, and regrowth and durations take time. The map, the radii, the routes and
the stock are otherwise arbitrary.

| theorem | statement |
|---|---|
| `TypeCorrect` | `Spec => []TypeOK` |
| `AcceptedSucceeds` | `Spec => AcceptedNeverSpoils` |
| `AlwaysApart` | `Spec => []SheltersApart` |
| `AlwaysGrowing` | `Spec => []DepletedIsGrowing` |
| `ItemsAreConserved` | `Spec => ItemsConserved` |
| `NeverOverloaded` | `Spec => []NotOverloaded`: the load is within `Capacity` |

`AcceptedNeverSpoils` rests on the invariant `AcceptedStaysFeasible`: while anything
but a movement runs, all the conditions of `start` still hold. It is inductive because
a body that is not moving stays where it is, the world only grows under it, storms
only ruin shelters, and an answer that replaces the execution was checked itself. The
same invariant proves `SheltersApart`, although `_complete` does not look for another
shelter: the ground was clear when the build started and nothing else builds.
`TypeOK` contains that only a movement has a path, which both need.
`DepletedIsGrowing` needs `WithinStock`: nothing generated exceeds its stock or changes
its kind. The biconditional matters: a clock that ran at a full stock would still be
running when the next harvest sets it.

The repeated checks of `_complete` are therefore redundant as long as the controller
is the only one to move the body or its things; the theorem says which change would
make them necessary.

`ItemsAreConserved` is in `LedgerProofs`. The ledger's counts are sums over all
resources of a kind, so a step that changes one resource has to be shown to change its
sum by just as much. `SumTheorems` proves this of the fold in `Functions` for every
finite set: that the sum exists, does not depend on the order in which the fold takes
the elements, and grows and changes with its terms. The inductions are over the subsets
of a finite set; each takes a smallest subset that a statement fails for, since strict
inclusion is well founded there, and so needs no theorem with an operator as parameter.
The invariant is `TypeOK`, `WithinStock` and `DepletedIsGrowing`: a tick refills a
resource to its stock and takes nothing, and a dropped item, which has no stock, is not
refilled. `NeverOverloaded` follows from the steps of the ledger, not from those of the
controller: it is what the contract is good for.

Model-checked only: the two liveness properties, `ExecutionEnds` and `EmptyGrowsBack`.

## 4. Updater

`ApplyUpdate` is the worker (`scripts/apply_update.py`), `Updater` extends it with the
server (`app/updater/manager.py`, `app/serve.py`). `AtomicInstall` is what an update
promises.

### State and actions

| model | code |
|---|---|
| `tree` | the managed files under the project root: the version each was copied from, `None` when absent |
| `manifest` | `data/runtime/installed-update-manifest.json` |
| `ready` | the versions with `install-request.json` and `staged/` in the staging directory |
| `worker` | each worker process: phase, request, manifest read, files still to do, backup |
| `torn` | no variable of the code: a worker was killed, or its rollback failed, between two writes |
| `server` | `up`; `leaving` once `call_later` is set; `stopping` once `should_exit` is; `down` |
| `current` | `__version__` of the process, read from `app/version.py` when it started |
| `release`, `available` | `_release`, `status.update_available` |
| `beside` | no variable of the code: the server was started while a worker was at its update |
| `task` | where each request or the periodic task is suspended, its `expected_version`, and the `release` local to `prepare_install` |

The lock is not a variable: it is held exactly while a task is checking or
downloading (`Locked`).

| action | code |
|---|---|
| `AskCheck`, `BeginCheck`, `Found`, `CheckFails` | `check`, by the timer or a page, or as the first step of an install |
| `AskInstall`, `Refuse`, `Prepare`, `InstallFails`, `Launch` | `install` and `prepare_install` up to each suspension; `Launch` stages the release, starts the worker and sets the timer |
| `CheckRaises`, `PrepareRaises`, `LogFails`, `LaunchRaises` | errors that nobody catches: the status file (manager.py:172), the staging directory (230-238), the worker's log (304), and the status file again once the worker runs (327), before the timer |
| `Shutdown`, `Exit`, `Crash`, `OperatorStarts` | `request_shutdown`, the end of `server.run()`, and what an operator does |
| `ReadRequest`, `GiveUp` | `main` and `wait_for_process` |
| `Begin`, `Remove`, `Copy`, `Sync`, `RecordManifest`, `Finish` | `apply_update`, one write an action |
| `ReplaceFails`, `SyncFails`, `RecordFails`, `StateFails`, `RollsBack` | its `except`, entered from each of its steps |
| `Restore`, `RestoreFails`, `RolledBack` | `_rollback`, and the error raised again |
| `RestartsServer`, `RestartFails` | `restart_app` |
| `Kill` | the end of the worker at any step |

Abstracted: files are removed, copied and restored in any order (the code removes
before it copies, which `InOrder` keeps, and is otherwise sorted, which no property sees); the status fields the page shows and
`update-state.json`, which the server reads back for two of them; the validation of
archives, which is part of whether `Launch` or `InstallFails` happens; updates
switched off and `update_auto_restart` switched off. `os.replace` makes each file change
at once. The operator may start the server whenever there is none
(docs/TROUBLESHOOTING.md:152), also while a worker is at the files; such a server imports
what it finds and has its files changed under it, and nothing in the code looks. `beside`
marks it, and the properties except it.

### The contract

`AtomicInstall` has three steps. `Install(v)` changes all the files at once: those
of `v` are `v`'s, those that only the manifest on record names are gone. `Misrecord`
changes the manifest alone: `RecordManifest` precedes the last write that can fail,
and the rollback does not take it back. `Tear` is a worker cut short, after which
anything may be. The mapping (`Visible`, `OnRecord`) shows the files as they were
before the worker began until it is done with them: property `AtomicFiles`. From
the contract follows that the files are of one version unless torn
(`WholeUnlessTorn`).

### Runs

| run | instance | what it shows |
|---|---|---|
| `updater_install` | one worker, every fault; the periodic task and one page; two versions; `FairSpec`; 135,000 states | `TypeOK`, `RunsOneVersion`, `AtomicFiles`, `RunsForward`, `InstallsWhatWasAsked`, `RequestsAnswered`, `WorkersEnd` |
| `updater_overlap` | two workers, two pages, the dependency sync may fail | *violated*, finding 4 |

**Bounds.** The second version drops a file of the first and adds one, so an update
and its rollback each have a file to copy, to remove and to leave. Two versions are
enough for a site that answers an older, the same and a newer one. The page, which
confirms a version (`Confirms`; a request without one is in the proofs), and the timer contend for the lock. `Workers` is the only bound in a guard: with one, an
install while a worker waits fails or is not launched; with two it is launched,
which is the other run. Deadlock is checked: a server can always be asked, stopped
or started.

`WorkersEnd` takes the place of a property that does not hold: that a server for which a
worker waits goes away. `LaunchRaises` starts the worker and no timer; the install is
answered with an error, the server goes on, and the worker gives up after its 180 seconds
(`GiveUp`). The update is then lost, and nothing says so.

**Fairness.** `SF(Enters(c))` for each task: `asyncio.Lock` wakes its waiters in turn, so a
task that meets a free lock again and again gets it. `WF(Leaves)`: an answer comes or
`update_timeout_seconds` ends it. `WF(Shutdown)`, `WF(Exit)`: the timer runs, and
`timeout_graceful_shutdown` bounds what follows. `WF(WorkerSteps)`: a worker is a
process that nothing stops. Nothing is assumed of pages, the operator or faults.

### Proofs

Assumptions: `ReleaseAssumption` (versions are numbers, every one has
`app/version.py`, `None` is none of them), `FaultAssumption`, `SessionAssumption`,
`TaskAssumption`. Files, versions, contents, pages, workers and faults are arbitrary.
`ApplyIsAtomic` and `ApplyLeavesWhole` have the hypothesis `OneUpdate`, no two workers at a
time, which `updater_overlap` shows to be needed and the server does not enforce; no other
theorem has it.

| theorem | statement |
|---|---|
| `ApplyIsAtomic` | `ApplySpec => AtomicFiles`, one update at a time |
| `ApplyLeavesWhole` | `ApplySpec => []WholeAtRest`, one update at a time |
| `TypeCorrect` | `Spec => []TypeOK` |
| `DrivesWorkers` | `Spec => ApplySpec` |
| `ServerKeepsFiles` | `Spec => []RunsItsVersion /\ KeepsFiles` |
| `OnlyForward` | `Spec => RunsForward` |
| `InstallsConfirmed` | `Spec => InstallsWhatWasAsked` |
| `StagingIsExclusive` | `Spec => []OneReleaseAtATime` |

`ApplyIsAtomic` is proved of the worker in surroundings that may start workers, stage,
unstage and stop whenever they like; `DrivesWorkers` says that the server, with any number
of workers, is such surroundings. Its inductive invariant is `OnTrack`: what
a working worker has not yet replaced is as in its backup and what it has is as in the
update; while it rolls back, everything but what it has not yet restored is as in the
backup. Without it the step that ends the work would not be an `Install`.

`ServerKeepsFiles` is what is left of `RunsOneVersion` with any number of workers: the
running server has the version it imported on disk (`RunsItsVersion`), and no step writes
a file or the manifest under it (`KeepsFiles`), unless it was started `beside` a worker.
That the files are all of one version then is `ApplyLeavesWhole`, for one update at a
time. The invariant of these three is `Ahead`: a release that is available, being
downloaded or with a worker is newer than `current`, and a worker past its wait has no
server, however many there are.

`StagingIsExclusive` is the other side of `updater_overlap`: with any number of workers
the lock does what it is for. At most one task checks or stages, and what a task stages
is, from its choice to the start of the worker, the release on offer: available, newer
than `current` and the one its client confirmed. Two installs therefore never mix while
they are staged; they overlap only as workers, which nothing excludes. Its invariant
`Orderly` adds the types of tasks and of what is on offer.

Model-checked only: `RequestsAnswered` and `WorkersEnd` (liveness), and the second half of
`RunsOneVersion` in the form the run has it. `AtomicFiles` of the whole system with one
worker is `DrivesWorkers` and `ApplyIsAtomic` together.

## 5. Experiment

`Experiment` is what is on disk (`integrity.py`, `vault.py`, `database.py`) and the
process that writes it, write by write. Pausing, bodies and decisions are left to
`Engine`, which has the same resets and memories as single steps and a model of what
is in flight. `DurableMemory` is what files, ledger and epoch promise together.

### State and actions

| model | code |
|---|---|
| `keyFile`, `epochFile` | the two files of the authority, numbered in order of creation, 0 when absent |
| `files`, `ledger` | the vault as `list_records` reads it, `memory-proofs.json` |
| `rows`, `event`, `saved`, `snapshot`, `migrated` | the table `memories`, the newest event, `current_state`, a row of `snapshots`, `memory_integrity_version` |
| `stage` | where a start or a reset is |
| `key`, `world`, `agent`, `writes` | `_ari_integrity_key`, `run_id` with `world_generation_id`, what `attach_key` left on the agent and which keys its proofs are by, `memory_writes` |
| `asked` | the key and the agent that a waiting consolidation has taken |
| `job` | the memories being written, with the key and agent they are written for |
| `failed` | how many reads and writes have failed and keys were lost: a bound |
| `ended`, `torn`, `unsaved`, `replaced` | no variables of the code: which world a rotation has ended, whether a write failed in a way nothing repairs, whether the process runs a state that it loaded and could not save, whether a key was made while a snapshot carries proofs by another |

| action | code |
|---|---|
| `Quarantine`, `Migrate`, `Boot` | `SimulationEngine.__init__` with `load_or_create_key` and `_restore`; the key file may be there and not be legible, the epoch file likewise |
| `Reset`, `ClearTable`, `Unlink`, `Emptied`, `Name`, `Create`, `Save`, `ResetFails` | `_new_world`: rotation, each statement of `clear_experiment`, each file of `vault.clear`, the new identifiers, the agent, the save; the last one is any of them failing |
| `Resolve`, `Ask`, `Answered` | a verified outcome, which may be written while a consolidation waits, and a consolidation before and after its await |
| `WriteFile`, `Reject`, `Seal`, `SealFails`, `SealAlone`, `AllWritten`, `List`, `Finish`, `JobFails` | `vault.write`, `seal_memory_record`, `add_memory` and `memory_writes`, one write an action |
| `Persist`, `SaveSnapshot`, `LoadSnapshot` | `_persist_current`, `save_snapshot`, `load_snapshot` |
| `SaveFails`, `LoadFails` | a snapshot whose event or state is not written; a state that is live before it is saved, and is not saved |
| `Crash`, `LoseKey`, `RestoreKey` | the end of the process at any step; what an operator does to the key meanwhile |

Digests are modelled as the records that go into them, so no two agree unless their
inputs do. A memory is its identifier, topic (two of one topic are near duplicates),
time and world; times are `Ticks`, of which the file keeps what `Rounded` leaves. The
safety filter, the limit of writes a minute and the ranking of retrieval are
abstracted: a memory may be rejected for no reason, and retrieval accepts whatever
verifies. One consolidation waits at a time, as a body sleeps one sleep at a time; a
second decision's, asked in the same moment, is left out, as is a key and an epoch that
are made by one start but not both written, and a persist or load that cannot read the
epoch.

### The contract

`DurableMemory` has `kept`, the memories that the authority on record accepts for the
worlds they speak of, and four steps: `Commit` accepts a new one (and may drop older
ones, which a full ledger does with one and an unreadable ledger with all), `Skip`
gives a new one up, `Renounce` takes all away, `Remove` takes one. What was taken away
never comes back, and no step accepts an older memory. `Experiment` implements it under
the mapping `Kept`, `Newest`: property `MemoriesAtomic`. A proof written before its
file, a file adopted later, an epoch used twice would each be a step it does not have.

### Runs

| run | instance | what it shows |
|---|---|---|
| `experiment_stores` | two topics, times that three decimals give back and times that they do not, a ledger of two, one reset, two crashes, two memories, one fault of any kind; 2.4 million states | `TypeOK`, `AcceptedIsOwn`, `RowNamesFile`, `RestartKeepsMemories`, `ResetEndsWorlds`, `ExactIsAccepted`, `EventsAreSignable`, `MemoriesAtomic` |
| `experiment_retrieval` | one topic, no faults | `AnnouncedIsAccepted` is *violated*, finding 2 |
| `experiment_key` | a key that is lost between two starts | `FailsClosed` is *violated*, finding 5 |

**Bounds.** One reset separates two worlds; two crashes are a reset cut short and a
start cut short after it. Two memories are one announced and one at hand, or one of
each world; with a ledger of two none is ever dropped in this run, which is the theorems'
part (`StoresAreAtomic`, `AnnouncedMemoriesAccepted`). Two topics give a duplicate and
another. One fault, at any of the reads and writes, is what `MaxFaults` allows; any
number is in the proofs. The world exhausts the scan for proofs, as the default one does.
The instance starts fresh or from before memories were sealed. `MaxResets`, `MaxCrashes`,
`MaxMemories` and `MaxFaults` are the only bounds in guards. Deadlock is checked: an idle
process can always save. Topics are symmetric; all properties are safety.

**What the properties except, and why.** `torn`: after a reset that failed half-way the
process goes on with the old world under a new epoch, and after an unreadable ledger
the other proofs are gone; no code repairs either. `unsaved`: `load_snapshot` restores
before it writes (scheduler.py:793-800), so that after a write that fails the process
runs one state and a restart would bring back another, until the next persist; that is
what the code does, and `RestartKeepsMemories` excepts just this. `ended` is not set for
a state saved before there were epochs: it is restored unchecked, so a reset cut short
right after such an upgrade can bring that world back. `replaced`: a missing key is not
noticed when only a snapshot carries proofs. `ExactIsAccepted` is about the memories
whose time the file gives back (`Exact`); those of the others are finding 2. It also
excepts a full ledger and an agent with proofs by several keys (`Undisturbed`).
`FailsClosed` is checked where the code does not keep it, and proved of nothing: for
worlds of up to 70 by 70 tiles TLC found it kept, but the default is 128 by 128.

### Proofs

Assumptions: `DataAssumption` (rounding maps times to times, the ledger holds something,
faults are among the four), `BoundAssumption`, `NoneAssumption`. Topics, times, rounding,
the scan, faults and bounds are arbitrary.

| theorem | statement |
|---|---|
| `TypeCorrect` | `Spec => []TypeOK` |
| `NothingForeign` | `Spec => []AcceptedIsOwn` |
| `RowsAreFiles` | `Spec => []RowNamesFile` |
| `MemoriesOutliveProcess` | `Spec => []RestartKeepsMemories` |
| `NoWorldReturns` | `Spec => []ResetEndsWorlds` |
| `NoEventUnsigned` | `Spec => EventsAreSignable` |
| `StoresAreAtomic` | `Spec => MemoriesAtomic` |
| `NoMemoryReturns` | `Spec => [](GivenUp(n) => []GivenUp(n))` |
| `AnnouncedMemoriesAccepted` | `Spec => []ExactIsAccepted` |

The invariants are named for what they keep together. `Own` (`Identified`, `AtHand`): a
number stands for one file, its proof is for the world of that file, and nothing else
has the number of the memory at hand; from it follows `AcceptedIsOwn` whichever epoch
is live, because entry and file were made by one job. `Dated` (`Epochal`, `Ended`,
`Attached`): epochs and worlds only grow, a saved state with the live epoch is of a
world after `ended`, and agent, files and saved state name the same authority; from it
follow `ResetEndsWorlds`, `RestartKeepsMemories` and `EventsAreSignable`. `Listed`: what the database lists, or is
about to, is a file, and while files are unlinked nothing is listed. `Past`: no proof is
for an epoch to come, which is why a rotation takes away all memories at once. With
`Own` and `Past` every step maps to a step of `DurableMemory` or to none.

`NoMemoryReturns` follows from the contract: `GivenUp(n)` says that memory `n` has been
up for acceptance and is not accepted, and no step of `DurableMemory` ends it.

`AnnouncedMemoriesAccepted` is the complement of finding 2: for the stores as such, times
that the file does not give back are all that can go wrong. Its invariant `Backed` has three parts.
`Bound` says which authority the states are tied to: whoever carries a key carries it as
a prover (`Attaching`), no world is younger than the newest (`Counted`), a job from
before a rotation, or a consolidation that still waits, writes for a world that no load
can bring back (`JobDated`), and what
is unlinked is named by no saved state (`Cleared`). `Lasting` says that nothing was torn
and the ledger has not been full; a full ledger stays full (`LedgerLasts`), so that it
holds of the past whenever it holds now. `Announcing` says, of the live state, of
`saved` and of the snapshot alike, that each memory with an exact time written in its own
world by its only prover has its file and its proof, and that a job has proofs for what it has sealed. It
must speak of the saved states, since a start or a load makes one of them the live one.

Nothing is model-checked only: all properties of this module are safety.

## 6. LLM client

### State and actions

`settings` is the `Settings` object that everything shares, `stored` the file
`llm-settings.json`, `status` what the page shows; `req` is what each request holds
while it waits (the payload's model, the address it went to, the attempt), `check` the
server that each status check has asked, `serving` what the servers have loaded.

| action | code |
|---|---|
| `Configure`, `ConfigureUnsaved` | the settings endpoint and `configure`, and a file that cannot be written |
| `Catalog`, `AdoptedUnsaved`, `Unreachable` | `check_status` after its await: it may adopt the only loaded model |
| `Begin`, `Answer`, `Retry`, `FallBack` | `decide` and `consolidate` with `_request`, from await to await |
| `Restart` | a new process, whose `start` checks before anything runs |
| `Load` | a server: external |

Answers, tokens, timings and texts of errors are left out. A disabled client changes
nothing. `Observed` distinguishes the engine's client, which knows a server from its
model when it falls back, from the plain one: the run checks the first, the proofs
hold of both.

### Run, fairness

`llm_client`: two servers of which one tells what it has loaded, two models, a decision
beside a consolidation, one page, two changes; `FairSpec`; 620,000 states. It checks
`TypeOK`, `RestartKeepsSettings` and `Recovers`. Two changes are a change of settings
under a request followed by one of the server, or the other way round, or a restart
after either. `CHECK_DEADLOCK FALSE`: a client that is switched off, at the bound of
changes, has nothing to do.

`WF(Check)`, `WF(Attempt)`: every await of the client has a timeout. `WF(Begin)`: the
engine keeps deciding. `SF(Answer)`: a server that keeps being asked for a model it has
loaded gives a valid answer now and then; `Recovers` is about just that server, and says
that nothing in the client keeps it from asking.

### Proofs

Assumption: `SettingsAssumption`. `TypeCorrect`, `RestartIsNoChange`
(`Spec => []RestartKeepsSettings`) and `StatusIsOfNow` (`Spec => []StatusNamesSettings`,
stated by no run), for any servers, models, requests and pages. The inductive invariant
`Consistent` says of both files and status that they follow the settings; it is
inductive because every handler reads the settings again after its await, instead of
writing back what it read before. Model-checked only: `Recovers`.

What the model also shows, of which no text promises the contrary: a catalog that is
read before the settings change adopts and saves the only model of the former server
for the new one (client.py:184); a retry posts the old model to the new address
(observed_client.py:176); an answer that arrives after the client was switched off
sets its mode back to `llm`.

## 7. Decision policy

### State and actions

One source of food; `place` is its distance as the thresholds divide it, where at the
`"edge"` the distance perceived is within reach and the exact one is not. `hunger` is
the interval of `hunger_deficit`, `outcomes` the newest action results that a decision
looks back on, `pressed` stands for danger or thirst, and `asked` has, for the loop and
each decide request, the corrected decision that it waits to start.

| definition | code |
|---|---|
| `Visible`, `Available` | `build_perception` |
| `ExecutableNow`, `RequiresMoveTo`, `EatingRecommended`, `CollectMoreFood` | `build_action_affordances` |
| `Fallback`, `Proposals`, `Preexecuted` | `FallbackBrain.decide`, the schema of a decision, `_apply_preexecution_policy` |
| `Corrected` | `_correct_decision` |
| `AskModel`, `AskInVain` | `make_decision` up to its await: the affordances and the outcomes are read for an idle body, for the model's answer or, if the request fails, the fallback's |
| `Answer` | after the await: `controller.start`, which accepts or refuses without looking at the affordances again |
| `AskFallback` | `make_decision` without a model, which awaits nothing |
| `Complete`, `Interrupt`, `Walks`, `Hungers`, `Presses`, `Regrows` | the substeps; none runs while the loop waits (`Substep`), all do while a request waits |

The model's answer is fixed when it is asked for, corrected by what was read then: from
there on the code uses nothing newer, so it makes no difference when the answer is made
up. Left out: the consolidation of a body that woke up, resets and loads (in `Engine`),
and the corrections for water, animals, sleep and building, which make of a proposal
nothing that eats or gathers.

### Runs, fairness

| run | instance | what it shows |
|---|---|---|
| `decision_food` | capacity 2, reserve 1, one berry, two outcomes looked back on, the loop and one decide request, a model that proposes to eat or to pick up; `FairSpec`; 2.2 million states | `TypeOK`, `FoodPolicyHolds`, `HungryBodyEats` |
| `decision_refusals` | the code's window of eight | *violated*, finding 3 |

A window of two is the least that two failures of a pair fill, so that every pattern of
forgetting happens; the code's eight is in the other run. Capacity 2 and reserve 1 leave
room between the reserve and a full inventory. The model of this run proposes only what
the policy is about; every other proposal is in the proofs and in the other run.
`WF(AskFallback)`, `WF(Complete)`: the loop decides for an idle body, and an execution ends (`IdleBodyGetsThought` of `Engine`,
`ExecutionEnds` of `ActionController`).

`FoodPolicyHolds` is about what the loop starts. The answer to a decide request
(routes.py:234) may come after the loop's own meal, and then starts a meal while Ari is
fed, since `start` does not look at the policy again: TLC finds it at once when the
property does not except the request's own answer. No text speaks of it, so it is a
hazard. The loop itself runs no substep while it waits, and what a request starts
meanwhile only has its effect in one, so its own late answers keep the policy.

`HungryBodyEats` is about a body that carries nothing. With carried food the fallback
proposes past a hunger of 62 to eat it by its kind, which `_correct_decision` takes for
an unknown target and turns into a look, again and again: beside a plant, with food in
its hands, such a body starves until a model answers (fallback.py:94,
engine.py:149-163). No text promises the contrary, so it is a hazard.

### Proofs

Assumptions: `LimitsAssumption`, `TaskAssumption` (any finite number of requests),
`NoneAssumption`, `OffersAssumption` (a model may propose any part of the schema).
`TypeCorrect`, which needs `Backed` (an accepted meal
still has its food when it completes, as nothing else takes from plant or inventory),
and `PolicyIsKept` (`Spec => FoodPolicyHolds`): through four forms of a proposal, a meal
or a pick-up is asked for only if `Useful` has it, and while the loop waits neither hunger
nor the inventory changes.

`OtherPairsAreStopped` (`Spec => []OthersAreStopped`) complements finding 3: it bounds
what that can befall. Whatever is decided, every pair but five fails at most twice among
the outcomes looked back on, and once more for each decide request that may have asked
before it saw the second failure. The five are those that `_correct_decision` itself
writes in the place of a proposal (`Rewritten`: a look, and an approach, inspection,
pick-up or meal at the plant). TLC finds each of the five. The invariant `Stopped` counts an execution under
way, and each decision that waits, as a failure that is still to come.

Model-checked only: `HungryBodyEats`.

## 8. Findings

Each is the counterexample of a run whose one property states what a text of the
repository says.

1. `engine_isolation`: README.md:29 promises resets "that isolate memories between
   generated worlds". A decision asked before a reset and answered after it is
   recorded in the new world; its memory is stamped with the new world and, after
   the action's success, verified there (engine.py:335, 398-409).
2. `experiment_retrieval`: "Outcome-verified durable memories" (README.md:29). The file
   has three decimals of a memory's time and importance (vault.py:149, 151), the proof
   is of the unrounded values (integrity.py:343-364): a memory written at a time that is
   a sum of ticks of 0.2 is announced, sealed, listed, and never accepted again.
3. `decision_refusals`: the boundary corrects "repeatedly failing action/target pairs"
   (docs/TROUBLESHOOTING.md:92). Failures are counted under what was executed and looked
   up under what was proposed (engine.py:116): an approach to a plant at 2.236 is made a
   pick-up, because 2.2 was perceived, and refused, for ever.
4. `updater_overlap`: "rolls back on failure" (docs/ARCHITECTURE.md:61), "roll back if
   file replacement or dependency synchronization fails" (docs/TROUBLESHOOTING.md:145).
   `prepare_install` looks at `update_available` only, which stays up while an update
   is being installed (manager.py:226, 323-326): a second page's install before the
   shutdown starts a second worker. Both work on the same files, and the rollback of
   the one that fails puts old files over those the other has just installed.
5. `experiment_key`: "Existing states with provenance proofs but a missing key fail closed
   rather than silently re-signing unverified records" (CHANGELOG.md:74, likewise
   WINDOWS_SETUP.md:125). `state_contains_proofs` gives up after 5000 values
   (integrity.py:898) and reads the world before the agent: the default world has
   128 by 128 tiles, so no proof is found, and the next start makes a new key and seals
   the starters again (scheduler.py:162-172).

What else the models show, with no run of its own:

* A candidate with eleven or twelve tags gains two at verification, `MemoryWrite`
  refuses it outside the `try`, and the error ends the loop for good (`CompleteRaises`;
  engine.py:455).
* The entry that a wake consolidation is due (scheduler.py:367) is looked for among the
  last four recent events only (engine.py:269), and lost behind five others.
* A body that dies during an execution goes on to its end (scheduler.py:318), although
  `start` says "The body cannot act." (actions.py:390).
* "The body reached the destination." (actions.py:521) is the result of every movement
  that ends, also of one whose time ran out or whose path was given up (actions.py:411,
  body.py:117).
* An update whose status cannot be written once the worker runs (manager.py:327) sets no
  timer: the worker waits for a server that nobody told to go, and gives up
  (`LaunchRaises`).
* A server that the operator starts during an update imports a mix of versions or has its
  files changed under it (`OperatorStarts`; docs/TROUBLESHOOTING.md:152).
* A loaded snapshot that cannot be saved is live, and gone with the process (`LoadFails`;
  scheduler.py:793-800).
* A decide request answered late starts a meal while Ari is fed (section 7).
* A consolidation that was asked before a reset leaves its file, row and
  `memory_writes` in the new experiment; nothing accepts them, but the file still
  counts as a near duplicate (vault.py:126).

## 9. Mutants

Every property of a passing run has a mutant in the module it is about: an operator
with a plausible bug (`RestoreFrom_KeepsFlag`, `Harvest_Keeps`, `CanBuild_Anywhere`,
`Seal_Adopts`, ...). With the mutant in place of the definition the same run finds the
property violated. They are marked `Mutant:` and used by nothing else.

## 10. How the modules relate

`Engine`, `ActionController`, `Experiment`, `LLMClient` and `DecisionPolicy` are views of
one process, each detailed where the others are a choice: an answer is external in
`Engine`, a request in `LLMClient`, a proposal in `DecisionPolicy`; a start of an action
is a choice in `Engine`, checked in `ActionController`, refused for its distance in
`DecisionPolicy`; a seal is one step in `Engine` and five writes in `Experiment`. The
fairness that one assumes is a property that another checks (section 7). They are not
composed in one module: their product is far beyond TLC, and what they share is small.
`Updater` extends `ApplyUpdate`, which runs beside the server as another process.

Three specifications are refined: `ItemLedger` by `ActionController`, `AtomicInstall` by
`ApplyUpdate` and `Updater`, `DurableMemory` by `Experiment`.

What would come next, in this order: a broadcast to observers with queues of two (a
subscriber ends with the newest state); weather, animals and needs with their
quantities; `astar` against a definition of reachability, which would justify the
assumptions on `Route`; the evidence chains among beliefs, tasks and skills.

## 11. Not modelled

Prompts, the page, serialization, release tooling, diagnostics and configuration have
no interacting state. Terrain generation is seeded data: the specifications are
parameterised by its result. The contents of memories, beliefs and tasks are text.
The observer queues are filled and drained on one event loop without an await in
between.

Of what the runs check, eight liveness properties stay with TLC, because fairness is
defined by `ENABLED`, which the prover does not treat: `IdleBodyGetsThought`,
`DeathPauses`, `ExecutionEnds`, `EmptyGrowsBack`, `RequestsAnswered`, `WorkersEnd`,
`Recovers`, `HungryBodyEats`. Of the invariants and action
properties of the passing runs all but three are stated by a theorem as they are.
`OutcomeCreditedToItsDecision` is about the loop alone, and `NeverCreditedToEarlier` says
what holds of every command. `RunsOneVersion` is proved in the two parts of
`ServerKeepsFiles` and `ApplyLeavesWhole`. `AtomicFiles` is proved of the worker
(`ApplyIsAtomic`) and carried to the server by `DrivesWorkers`. Of each violated run but
`experiment_key` a theorem says what holds beside it: `ReflectionsStay` (finding 1),
`AnnouncedMemoriesAccepted` (finding 2), `OtherPairsAreStopped` (finding 3),
`StagingIsExclusive` and `ServerKeepsFiles` (finding 4).
