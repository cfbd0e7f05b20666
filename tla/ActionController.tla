-------------------------- MODULE ActionController --------------------------
(***************************************************************************)
(* The body's actions (app/simulation/actions.py, body.py) on the things   *)
(* of the world (app/simulation/world.py).                                 *)
(*                                                                         *)
(* start accepts or refuses an action, step gives it simulated time and    *)
(* _complete has its effect.  Between the three, resources grow back,      *)
(* storms ruin shelters, the body dies, an interrupt ends the action, and  *)
(* an answer that was long in coming starts another one in its place:      *)
(* decisions are asked for while the body is idle, as in Engine, and       *)
(* answered at any later time.                                             *)
(*                                                                         *)
(* A place is an exact position of the body; cells are the places with     *)
(* integer coordinates, the others are where a body stops between cells.   *)
(* Time is counted in substeps, each long enough to cross one cell at full *)
(* speed.                                                                  *)
(*                                                                         *)
(* Key items are never kinds of the inventory (agent.py keeps them apart), *)
(* so their protection in start and _complete refuses no drop that an item *)
(* not carried would not refuse.  The id of a dropped item names its kind  *)
(* and the tenth of a second; an execution lasts at least 0.2 s, so two    *)
(* drops of a kind never share one, and Drop takes an id not in use.       *)
(***************************************************************************)
EXTENDS Integers, Sequences, FiniteSets, Functions

CONSTANTS
    Places,       \* positions of the body
    Cells,        \* those on the grid
    CellOf,       \* [Places -> Cells]: the coordinates rounded
    Reach,        \* [Places -> SUBSET Cells]: within INTERACTION_RADIUS
    CloseTo,      \* [Places -> SUBSET Cells]: within the 2.0 that shelters keep
    Route,        \* [Places -> [Cells -> Seq(Cells)]]: astar, <<>> for no path
    Between,      \* [Places -> [Cells -> SUBSET Places]]: stops on the way
    Cut,          \* [Places -> SUBSET Cells]: the straight way touches a
                  \* blocked cell
    BuildArea,    \* cells of stable clearing
    Kinds,        \* kinds of items
    Edible,       \* berry and edible_plant
    Cost,         \* [Kinds -> Nat]: the materials of a shelter
    Resources,    \* the resources of the generated world
    KindOf,       \* [Resources -> Kinds]: the item it yields
    HomeOf,       \* [Resources -> Cells]
    StockOf,      \* [Resources -> Nat]: max_quantity
    DropIds,      \* ids of dropped resources: bounds the drops
    Capacity,     \* inventory_capacity
    Regrowth,     \* respawn_seconds, in substeps
    MaxDuration,  \* bound on the duration a decision asks for, in substeps
    MaxShelters,  \* bound on the shelters built
    MaxAsked,     \* bound on the decisions in flight
    None          \* Python's None

Ids == Resources \cup DropIds

\* What _resolve_goal makes of the target and direction of a movement: a free cell
\* beside the target, away from danger or along the direction, or none.  A known
\* location that is blocked is as good as none.
Goals == Cells \cup {None}

\* What the model may answer, and what controller.execution holds of it: only a
\* movement has a goal and a path.  "other" is every timed action that leaves places
\* and items alone: look, wait, rest, speak, drink, inspect and the views.
Decisions ==
    LET Asks(actions, targets, goals) ==
            [action : actions, target : targets, goal : goals, duration : 1..MaxDuration]
    IN Asks({"move"}, {None}, Goals)
       \cup Asks({"pick_up"}, Ids, {None})
       \cup Asks({"eat"}, Ids \cup Edible \cup {None}, {None})
       \cup Asks({"drop"}, Kinds, {None})
       \cup Asks({"build", "sleep", "other"}, {None}, {None})

Executions ==
    LET Runs(actions, targets, goals, paths) ==
            [action : actions, target : targets, goal : goals, left : Nat, path : paths]
    IN Runs({"move"}, {None}, Cells, Seq(Cells))
       \cup Runs({"pick_up"}, Ids, {None}, {<<>>})
       \cup Runs({"eat"}, Ids \cup Edible \cup {None}, {None}, {<<>>})
       \cup Runs({"drop"}, Kinds, {None}, {<<>>})
       \cup Runs({"build", "sleep", "other"}, {None}, {None}, {<<>>})

Shelters == [at : Cells, sound : BOOLEAN]

\* astar: a path of free cells that ends at the goal, or none.
Arrives(path, goal) == path # <<>> => path[Len(path)] = goal

ASSUME PlaceAssumption ==
    /\ Cells \subseteq Places
    /\ CellOf \in [Places -> Cells]
    /\ \A c \in Cells : CellOf[c] = c
    /\ Reach \in [Places -> SUBSET Cells]
    /\ CloseTo \in [Places -> SUBSET Cells]
    /\ \A p \in Places : CellOf[p] \in CloseTo[p]
    /\ Route \in [Places -> [Cells -> Seq(Cells)]]
    /\ \A p \in Places, goal \in Cells : Arrives(Route[p][goal], goal)
    /\ Between \in [Places -> [Cells -> SUBSET Places]]
    /\ Cut \in [Places -> SUBSET Cells]

ASSUME ItemAssumption ==
    /\ Edible \subseteq Kinds
    /\ Cost \in [Kinds -> Nat]
    /\ KindOf \in [Resources -> Kinds]
    /\ HomeOf \in [Resources -> Cells]
    /\ StockOf \in [Resources -> Nat]
    /\ Resources \cap DropIds = {}
    /\ Ids \cap Kinds = {}

\* The world's resources and the inventory are dictionaries.
ASSUME FinitenessAssumption == IsFiniteSet(Ids) /\ IsFiniteSet(Kinds)

ASSUME BoundAssumption ==
    /\ Capacity \in Nat
    /\ Regrowth \in Nat \ {0}
    /\ MaxDuration \in Nat \ {0}
    /\ MaxShelters \in Nat
    /\ MaxAsked \in Nat

ASSUME NoneAssumption == None \notin Executions \cup Kinds \cup Cells \cup Ids

VARIABLES
    place,      \* agent.x, agent.y
    alive,      \* agent.alive
    sleeping,   \* agent.sleeping
    inventory,  \* agent.inventory
    kind,       \* what each resource yields, None for an id not in use
    home,       \* where it is
    quantity,   \* how much of it is left
    growing,    \* substeps since last_harvest_time and one, 0 when it is unset
    shelters,   \* in the order of their ids
    exec,       \* controller.execution
    asked       \* decisions in flight

things == <<inventory, kind, home, quantity, growing>>
vars   == <<place, alive, sleeping, things, shelters, exec, asked>>

Exists(r)   == kind[r] # None
Respawns(r) == r \in Resources
MaxQuantity(r) == IF r \in Resources THEN StockOf[r] ELSE 1

TypeOK ==
    /\ place \in Places
    /\ alive \in BOOLEAN /\ sleeping \in BOOLEAN
    /\ inventory \in [Kinds -> Nat]
    /\ kind \in [Ids -> Kinds \cup {None}]
    /\ home \in [Ids -> Cells]
    /\ quantity \in [Ids -> Nat]
    /\ growing \in [Ids -> 0..Regrowth]
    /\ shelters \in Seq(Shelters)
    /\ exec \in Executions \cup {None}
    /\ asked \in 0..MaxAsked

\* Of an id not in use nobody asks where it is.
Nowhere == CHOOSE c \in Cells : TRUE

\* A generated world with the body at its spawn.
Init ==
    /\ place \in Cells
    /\ alive = TRUE /\ sleeping = FALSE
    /\ inventory = [k \in Kinds |-> 0]
    /\ kind = [r \in Ids |-> IF r \in Resources THEN KindOf[r] ELSE None]
    /\ home = [r \in Ids |-> IF r \in Resources THEN HomeOf[r] ELSE Nowhere]
    /\ quantity = [r \in Ids |-> IF r \in Resources THEN StockOf[r] ELSE 0]
    /\ growing = [r \in Ids |-> 0]
    /\ shelters = <<>>
    /\ exec = None
    /\ asked = 0

-----------------------------------------------------------------------------
(* What start and _complete ask of the world; stock is the quantities. *)

\* A resource with something left, within INTERACTION_RADIUS.
Available(r, stock) == Exists(r) /\ stock[r] > 0 /\ home[r] \in Reach[place]

\* AgentState.can_add(1)
CanAdd == SumFunction(inventory) < Capacity

HasMaterials == \A k \in Kinds : inventory[k] >= Cost[k]

\* Mutant: food need not be carried to be eaten from the inventory.
CarriedEdibles_AnyFood(target) == IF target \in Edible THEN {target} ELSE Edible

\* _find_edible: the carried item that is the target or any other carried one,
\* or else a resource - the target alone when it names one.
CarriedEdibles(target) ==
    LET carried == {k \in Edible : inventory[k] > 0} IN
    IF target \in carried THEN {target} ELSE carried

EdibleResources(target, stock) ==
    LET candidates == IF target \in Ids /\ Exists(target) THEN {target} ELSE Ids IN
    {r \in candidates : Available(r, stock) /\ kind[r] \in Edible}

HasEdible(target, stock) ==
    CarriedEdibles(target) # {} \/ EdibleResources(target, stock) # {}

\* nearby_shelter(x, y, 2.0) finds none.
Unsheltered == \A i \in DOMAIN shelters : shelters[i].sound => shelters[i].at \notin CloseTo[place]

\* Mutant: only the terrain and the materials are asked for.
CanBuild_Anywhere ==
    CellOf[place] \in BuildArea /\ HasMaterials

CanBuild ==
    CellOf[place] \in BuildArea /\ HasMaterials /\ Unsheltered

Movable(goal) ==
    goal # None /\ (Route[place][goal] # <<>> \/ goal = CellOf[place])

\* Mutant: pick_up does not ask how far the resource is.
Feasible_AnyDistance(d) ==
    /\ d.action = "move"    => Movable(d.goal)
    /\ d.action = "pick_up" => Exists(d.target) /\ quantity[d.target] > 0 /\ CanAdd
    /\ d.action = "eat"     => HasEdible(d.target, quantity)
    /\ d.action = "drop"    => inventory[d.target] > 0
    /\ d.action = "build"   => CanBuild

\* The conditions of start.
Feasible(d) ==
    /\ d.action = "move"    => Movable(d.goal)
    /\ d.action = "pick_up" => Available(d.target, quantity) /\ CanAdd
    /\ d.action = "eat"     => HasEdible(d.target, quantity)
    /\ d.action = "drop"    => inventory[d.target] > 0
    /\ d.action = "build"   => CanBuild

-----------------------------------------------------------------------------
(* Decisions. *)

\* Mutant: a decision is asked for whatever the body is doing.
Ask_WhileBusy ==
    /\ alive /\ ~sleeping
    /\ asked < MaxAsked
    /\ asked' = asked + 1
    /\ UNCHANGED <<place, alive, sleeping, things, shelters, exec>>

\* make_decision begins, on an idle body.
Ask ==
    /\ alive /\ ~sleeping /\ exec = None
    /\ asked < MaxAsked
    /\ asked' = asked + 1
    /\ UNCHANGED <<place, alive, sleeping, things, shelters, exec>>

PathOf(d) == IF d.action = "move" THEN Route[place][d.goal] ELSE <<>>

\* A movement has at least the time of its path at full speed.
TimeFor(d) == IF Len(PathOf(d)) > d.duration THEN Len(PathOf(d)) ELSE d.duration

\* The bounds of an instance on what its state can hold.
WithinBounds(d) ==
    /\ d.action = "drop"  => \E r \in DropIds : ~Exists(r)
    /\ d.action = "build" => Len(shelters) < MaxShelters

\* start accepts, whatever is running.
Start(d) ==
    /\ asked > 0
    /\ alive /\ ~sleeping
    /\ Feasible(d)
    /\ WithinBounds(d)
    /\ exec' = [action |-> d.action, target |-> d.target, goal |-> d.goal,
                left |-> TimeFor(d), path |-> PathOf(d)]
    /\ sleeping' = (d.action = "sleep")
    /\ asked' = asked - 1
    /\ UNCHANGED <<place, alive, things, shelters>>

\* start refuses: the body cannot act or the action is not feasible.  What is
\* running goes on.
Refuse(d) ==
    /\ asked > 0
    /\ ~alive \/ sleeping \/ ~Feasible(d)
    /\ asked' = asked - 1
    /\ UNCHANGED <<place, alive, sleeping, things, shelters, exec>>

-----------------------------------------------------------------------------
(* _advance_substep: world.tick, controller.step, needs and wildlife, the    *)
(* storm, an interrupt.                                                      *)

\* tick: a resource below its stock is refilled respawn_seconds after its last
\* harvest.
Ripe(r) == Respawns(r) /\ quantity[r] < MaxQuantity(r) /\ growing[r] = Regrowth

Regrown == [r \in Ids |-> IF Ripe(r) THEN MaxQuantity(r) ELSE quantity[r]]

\* Mutant: eating and picking up leave last_harvest_time alone.
Aged_NoHarvest(harvested) ==
    [r \in Ids |->
        IF Ripe(r) \/ growing[r] = 0 THEN 0
        ELSE IF growing[r] < Regrowth THEN growing[r] + 1 ELSE Regrowth]

\* last_harvest_time after the tick and the harvests of the step; for a dropped
\* resource nobody reads it.
Aged(harvested) ==
    [r \in Ids |->
        IF r \in harvested THEN (IF Respawns(r) THEN 1 ELSE 0)
        ELSE IF Ripe(r) \/ growing[r] = 0 THEN 0
        ELSE IF growing[r] < Regrowth THEN growing[r] + 1 ELSE Regrowth]

\* Mutant: the resource keeps what was taken.
Harvest_Keeps(r) == quantity' = Regrown /\ growing' = Aged({r})

Harvest(r) == quantity' = [Regrown EXCEPT ![r] = @ - 1] /\ growing' = Aged({r})
Tick       == quantity' = Regrown /\ growing' = Aged({})

\* Storms wear shelters down to nothing, in their own time.
Storm(intact) ==
    \E ruined \in SUBSET {i \in DOMAIN shelters : shelters[i].sound} :
        shelters' = [i \in DOMAIN shelters |->
                        [shelters[i] EXCEPT !.sound = @ /\ i \notin ruined]] \o intact

\* update_needs: who dies of hunger, thirst, cold or heat does not sleep any more.
Starves == alive /\ alive' = FALSE /\ sleeping' = FALSE

\* resolve_npc_interactions: who is killed asleep keeps the flag.
Mauled(asleep) == alive /\ alive' = FALSE /\ sleeping' = asleep

Harm(asleep) ==
    \/ alive' = alive /\ sleeping' = asleep
    \/ Starves
    \/ Mauled(asleep)

\* What looking, inspecting, speaking, resting and the views leave here: nothing.
NoEffect ==
    /\ Tick
    /\ Storm(<<>>)
    /\ UNCHANGED <<inventory, kind, home>>

\* move_along_path: in one step the body comes to the next cell of its path or
\* stops on the way, or its way cuts a blocked cell and the path is given up.
\* Only a movement has a path.
Strides ==
    IF exec.path = <<>> THEN {[to |-> place, path |-> <<>>]}
    ELSE LET next == Head(exec.path) IN
         {[to |-> next, path |-> Tail(exec.path)]}
         \cup [to : Between[place][next], path : {exec.path}]
         \cup (IF next \in Cut[place] THEN {[to |-> place, path |-> <<>>]} ELSE {})

\* step finds the action over: the movement has no path left, or its time is up.
Over(stride) == (exec.action = "move" /\ stride.path = <<>>) \/ exec.left <= 1

-----------------------------------------------------------------------------
(* The effects of _complete. *)

PickUp(r) ==
    /\ Available(r, Regrown) /\ CanAdd
    /\ inventory' = [inventory EXCEPT ![kind[r]] = @ + 1]
    /\ Harvest(r)
    /\ UNCHANGED <<kind, home>>
    /\ Storm(<<>>)

EatCarried(k) ==
    /\ k \in CarriedEdibles(exec.target)
    /\ inventory' = [inventory EXCEPT ![k] = @ - 1]
    /\ Tick
    /\ UNCHANGED <<kind, home>>
    /\ Storm(<<>>)

EatLying(r) ==
    /\ CarriedEdibles(exec.target) = {}
    /\ r \in EdibleResources(exec.target, Regrown)
    /\ Harvest(r)
    /\ UNCHANGED <<inventory, kind, home>>
    /\ Storm(<<>>)

\* The item becomes a resource of its own, under an id that names the time.
Drop(k, r) ==
    /\ inventory[k] > 0
    /\ ~Exists(r)
    /\ inventory' = [inventory EXCEPT ![k] = @ - 1]
    /\ kind' = [kind EXCEPT ![r] = k]
    /\ home' = [home EXCEPT ![r] = CellOf[place]]
    /\ quantity' = [Regrown EXCEPT ![r] = 1]
    /\ growing' = Aged({r})
    /\ Storm(<<>>)

\* The area and the materials are looked at again, other shelters are not.
Build ==
    /\ CellOf[place] \in BuildArea /\ HasMaterials
    /\ inventory' = [k \in Kinds |-> inventory[k] - Cost[k]]
    /\ Tick
    /\ UNCHANGED <<kind, home>>
    /\ Storm(<<[at |-> CellOf[place], sound |-> TRUE]>>)

\* What _complete finds changed since start.
Changed ==
    \/ exec.action = "pick_up" /\ ~(Available(exec.target, Regrown) /\ CanAdd)
    \/ exec.action = "eat" /\ ~HasEdible(exec.target, Regrown)
    \/ exec.action = "drop" /\ inventory[exec.target] = 0
    \/ exec.action = "build" /\ ~(CellOf[place] \in BuildArea /\ HasMaterials)

Effect ==
    IF Changed \/ exec.action \in {"move", "sleep", "other"} THEN NoEffect
    ELSE \/ exec.action = "pick_up" /\ PickUp(exec.target)
         \/ exec.action = "eat" /\ \E k \in Edible : EatCarried(k)
         \/ exec.action = "eat" /\ \E r \in Ids : EatLying(r)
         \/ exec.action = "drop" /\ \E r \in DropIds : Drop(exec.target, r)
         \/ exec.action = "build" /\ Build

-----------------------------------------------------------------------------
(* The substeps. *)

\* Nothing is running.
Idle ==
    /\ exec = None
    /\ UNCHANGED <<place, exec, asked>>
    /\ NoEffect
    /\ Harm(sleeping)

\* The action runs on.
Continue ==
    /\ exec # None
    /\ UNCHANGED asked
    /\ \E stride \in Strides :
        /\ ~Over(stride)
        /\ place' = stride.to
        /\ exec' = [exec EXCEPT !.left = @ - 1, !.path = stride.path]
    /\ NoEffect
    /\ Harm(sleeping)

\* It would run on, but an _interrupt_reason holds after the step.
Interrupt ==
    /\ exec # None
    /\ UNCHANGED asked
    /\ \E stride \in Strides : ~Over(stride) /\ place' = stride.to
    /\ exec' = None
    /\ NoEffect
    /\ Harm(sleeping /\ exec.action # "sleep")

\* It is over, and has its effect.
Complete ==
    /\ exec # None
    /\ UNCHANGED asked
    /\ \E stride \in Strides : Over(stride) /\ place' = stride.to
    /\ Effect
    /\ exec' = None
    /\ Harm(sleeping /\ exec.action # "sleep")

Substep == Idle \/ Continue \/ Interrupt \/ Complete

Next ==
    \/ Ask
    \/ \E d \in Decisions : Start(d) \/ Refuse(d)
    \/ Substep

Spec == Init /\ [][Next]_vars

-----------------------------------------------------------------------------
(* Safety. *)

\* A resource below its stock always has its clock running, and one at its
\* stock never does: whatever eats, gathers and regrowth do to it in whatever
\* order, nothing is lost to the world for good (world.tick refills only where
\* last_harvest_time is set).
DepletedIsGrowing ==
    \A r \in Resources : quantity[r] < StockOf[r] <=> growing[r] > 0

\* No two shelters stand in one cell, although _complete does not look for
\* another shelter again and a late build can be started over a running one.
SheltersApart ==
    \A i, j \in DOMAIN shelters :
        i # j /\ shelters[i].sound /\ shelters[j].sound => shelters[i].at # shelters[j].at

\* What start has accepted _complete does not find changed: no "target_changed",
\* "inventory_full", "edible_missing", "item_missing", "location_changed" or
\* "materials_changed" ever comes of an action that began.
AcceptedNeverSpoils == [][exec # None /\ Changed => ~Complete]_vars

\* Why AcceptedNeverSpoils holds, and SheltersApart: the conditions of start stay
\* true while the action runs, as only its completion touches what they ask for.
AcceptedStaysFeasible ==
    exec # None /\ exec.action # "move" => Feasible(exec)

\* What DepletedIsGrowing rests on: nothing generated grows beyond its stock.
WithinStock == \A r \in Resources : quantity[r] <= StockOf[r] /\ kind[r] = KindOf[r]

\* Items are conserved: what grows in the world, what was dropped, what is
\* carried and what is built move as ItemLedger says.
KindSum(f, ids) == [k \in Kinds |-> SumFunctionOnSet(f, {r \in ids : kind[r] = k})]

Ledger == INSTANCE ItemLedger WITH
    wild <- KindSum(quantity, Resources),
    left <- KindSum(quantity, DropIds),
    carried <- inventory,
    built <- Len(shelters),
    Stock <- [k \in Kinds |-> SumFunctionOnSet(StockOf, {r \in Resources : KindOf[r] = k})]

ItemsConserved == Ledger!Spec

(* Liveness. *)

\* The loop steps the world as long as the body lives and nobody pauses it.
FairSpec == Spec /\ WF_vars(alive /\ Substep)

\* An action comes to an end, although late answers may replace it.
ExecutionEnds == exec # None ~> exec = None \/ ~alive

\* What has been emptied becomes due for its refill one day, however it was
\* emptied.  It need not be seen full: a meal that ends in the substep of the
\* refill takes from what has just grown.
EmptyGrowsBack ==
    \A r \in Resources :
        quantity[r] = 0 ~> Ripe(r) \/ quantity[r] = StockOf[r] \/ ~alive
=============================================================================
