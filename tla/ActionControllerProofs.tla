----------------------- MODULE ActionControllerProofs -----------------------
(***************************************************************************)
(* Proofs about ActionController, for any map, any resources and any       *)
(* bounds.  How much the body carries is a sum over its inventory: no      *)
(* proof here opens it, CanAdd stays what it is while the inventory does   *)
(* (LedgerProofs is about the sums).                                       *)
(***************************************************************************)
EXTENDS ActionController, SequenceTheorems, TLAPS

USE DEF Ids, Respawns, Exists, things

-----------------------------------------------------------------------------
(* What the operators of a substep do. *)

\* A stride gives the path up, comes to its next cell, or stops on the way.
LEMMA StrideCases ==
    ASSUME NEW stride \in Strides
    PROVE  \/ stride = [to |-> place, path |-> <<>>]
           \/ /\ exec.path # <<>>
              /\ \/ stride = [to |-> Head(exec.path), path |-> Tail(exec.path)]
                 \/ stride \in [to : Between[place][Head(exec.path)], path : {exec.path}]
  BY DEF Strides

\* Without a path the body stays where it is.
LEMMA StayingStride ==
    ASSUME exec.path = <<>>, NEW stride \in Strides
    PROVE  stride.to = place /\ stride.path = <<>>
  BY StrideCases

\* What an execution holds.
LEMMA ExecTyped ==
    ASSUME TypeOK, exec # None
    PROVE  /\ exec.left \in Nat
           /\ exec.path \in Seq(Cells)
           /\ exec.action # "move" => exec.path = <<>>
           /\ exec.action = "pick_up" => exec.target \in Ids
           /\ exec.action = "drop" => exec.target \in Kinds
  BY EmptySeq DEF TypeOK, Executions

\* A stride ends at a place, with a path.
LEMMA StrideTyped ==
    ASSUME TypeOK, exec # None, NEW stride \in Strides
    PROVE  stride.to \in Places /\ stride.path \in Seq(Cells)
<1>1. exec.path \in Seq(Cells) /\ place \in Places /\ <<>> \in Seq(Cells)
  BY ExecTyped, EmptySeq DEF TypeOK
<1>2. CASE stride = [to |-> place, path |-> <<>>]
  BY <1>1, <1>2
<1>3. ASSUME exec.path # <<>>
      PROVE  /\ Head(exec.path) \in Places /\ Tail(exec.path) \in Seq(Cells)
             /\ Between[place][Head(exec.path)] \subseteq Places
  <2>1. Head(exec.path) \in Cells /\ Tail(exec.path) \in Seq(Cells)
    BY <1>1, <1>3, HeadTailProperties
  <2>2. QED
    BY <1>1, <2>1, PlaceAssumption
<1>4. QED
  BY <1>1, <1>2, <1>3, StrideCases

\* A storm ruins shelters and moves none; what is new stands behind them.
LEMMA StormKeeps ==
    ASSUME TypeOK, NEW intact \in Seq(Shelters), Storm(intact)
    PROVE  /\ shelters' \in Seq(Shelters)
           /\ Len(shelters') = Len(shelters) + Len(intact)
           /\ \A i \in 1..Len(shelters) :
                 /\ shelters'[i].at = shelters[i].at
                 /\ shelters'[i].sound => shelters[i].sound
           /\ \A i \in (Len(shelters) + 1)..Len(shelters') :
                 shelters'[i] = intact[i - Len(shelters)]
<1>1. shelters \in Seq(Shelters) /\ Len(shelters) \in Nat /\ Len(intact) \in Nat
      /\ DOMAIN shelters = 1..Len(shelters)
  BY LenProperties DEF TypeOK
<1>2. PICK ruined \in SUBSET DOMAIN shelters :
        shelters' = [i \in DOMAIN shelters |->
                        [shelters[i] EXCEPT !.sound = @ /\ i \notin ruined]] \o intact
  BY DEF Storm
<1> DEFINE weathered == [i \in 1..Len(shelters) |->
                            [shelters[i] EXCEPT !.sound = @ /\ i \notin ruined]]
<1>3. \A i \in 1..Len(shelters) : shelters[i] \in Shelters
  BY <1>1, ElementOfSeq
<1>4. \A i \in 1..Len(shelters) :
        /\ weathered[i] \in Shelters
        /\ weathered[i].at = shelters[i].at
        /\ weathered[i].sound => shelters[i].sound
  BY <1>3 DEF Shelters
<1>5. weathered \in Seq(Shelters) /\ Len(weathered) = Len(shelters)
  <2>1. weathered \in [1..Len(shelters) -> Shelters]
    BY <1>4
  <2> HIDE DEF weathered
  <2>2. QED
    BY <1>1, <2>1
<1>6. shelters' = weathered \o intact
  BY <1>1, <1>2
<1> HIDE DEF weathered
<1>7. /\ weathered \o intact \in Seq(Shelters)
      /\ Len(weathered \o intact) = Len(shelters) + Len(intact)
      /\ \A i \in 1..(Len(shelters) + Len(intact)) : (weathered \o intact)[i] =
            IF i <= Len(shelters) THEN weathered[i] ELSE intact[i - Len(shelters)]
  <2>1. /\ weathered \o intact \in Seq(Shelters)
        /\ Len(weathered \o intact) = Len(weathered) + Len(intact)
        /\ \A i \in 1..(Len(weathered) + Len(intact)) : (weathered \o intact)[i] =
              IF i <= Len(weathered) THEN weathered[i] ELSE intact[i - Len(weathered)]
    BY <1>5, ConcatProperties, Zenon
  <2>2. QED
    BY <1>5, <2>1
<1>8. /\ shelters' \in Seq(Shelters)
      /\ Len(shelters') = Len(shelters) + Len(intact)
      /\ \A i \in 1..(Len(shelters) + Len(intact)) : shelters'[i] =
            IF i <= Len(shelters) THEN weathered[i] ELSE intact[i - Len(shelters)]
  BY <1>6, <1>7
<1> HIDE <1>2, <1>6, <1>7
<1>9. \A i \in 1..Len(shelters) : shelters'[i] = weathered[i]
  BY <1>1, <1>8
<1>10. \A i \in (Len(shelters) + 1)..Len(shelters') : shelters'[i] = intact[i - Len(shelters)]
  BY <1>1, <1>8
<1>11. QED
  BY <1>4, <1>8, <1>9, <1>10

\* The tick leaves quantities, and takes nothing.
LEMMA RegrownTyped ==
    ASSUME TypeOK
    PROVE  /\ Regrown \in [Ids -> Nat]
           /\ \A r \in Ids : Regrown[r] >= quantity[r]
  BY ItemAssumption DEF TypeOK, Regrown, Ripe, MaxQuantity

\* The clocks of regrowth stay within respawn_seconds.
LEMMA AgedTyped ==
    ASSUME TypeOK, NEW harvested
    PROVE  Aged(harvested) \in [Ids -> 0..Regrowth]
  BY BoundAssumption DEF TypeOK, Aged

\* Regrowth only makes more available.
LEMMA RegrownAvailable ==
    ASSUME TypeOK, NEW r \in Ids, Available(r, quantity)
    PROVE  Available(r, Regrown)
  BY RegrownTyped DEF TypeOK, Available

\* So an edible that was there before the tick is there after it.
LEMMA RegrownEdible ==
    ASSUME TypeOK, NEW target, HasEdible(target, quantity)
    PROVE  HasEdible(target, Regrown)
<1>1. \A r \in Ids : Available(r, quantity) => Available(r, Regrown)
  BY RegrownAvailable
<1>2. EdibleResources(target, quantity) \subseteq EdibleResources(target, Regrown)
  BY <1>1 DEF EdibleResources
<1>3. QED
  BY <1>2 DEF HasEdible

-----------------------------------------------------------------------------
(* Type correctness. *)

\* A generated world is typed.
LEMMA InitTyped == Init => TypeOK
<1> SUFFICES ASSUME Init PROVE TypeOK
  OBVIOUS
<1>1. place \in Places /\ home \in [Ids -> Cells]
  <2>1. place \in Cells /\ Nowhere \in Cells
    BY DEF Init, Nowhere
  <2>2. QED
    BY <2>1, PlaceAssumption, ItemAssumption DEF Init
<1>2. kind \in [Ids -> Kinds \cup {None}] /\ quantity \in [Ids -> Nat]
  BY ItemAssumption DEF Init
<1>3. growing \in [Ids -> 0..Regrowth] /\ asked \in 0..MaxAsked
  BY BoundAssumption DEF Init
<1>4. shelters \in Seq(Shelters)
  BY EmptySeq DEF Init
<1>5. QED
  BY <1>1, <1>2, <1>3, <1>4 DEF Init, TypeOK

\* What a decision holds.
LEMMA DecisionTyped ==
    ASSUME NEW d \in Decisions
    PROVE  /\ d.duration \in Nat \ {0}
           /\ d.action = "pick_up" => d.target \in Ids
           /\ d.action = "drop" => d.target \in Kinds
  BY BoundAssumption DEF Decisions, Goals

\* An accepted decision is a typed execution.
LEMMA StartTyped ==
    ASSUME TypeOK, NEW d \in Decisions, Start(d)
    PROVE  TypeOK'
<1>1. d.action = "move" => d.goal \in Cells
  BY DEF Start, Feasible, Movable, Decisions, Goals
<1>2. PathOf(d) \in Seq(Cells) /\ (d.action # "move" => PathOf(d) = <<>>)
  <2>1. place \in Places
    BY DEF TypeOK
  <2>2. d.action = "move" => Route[place][d.goal] \in Seq(Cells)
    BY <1>1, <2>1, PlaceAssumption
  <2>3. QED
    BY <2>2, EmptySeq DEF PathOf
<1>3. TimeFor(d) \in Nat
  BY <1>2, DecisionTyped, LenProperties DEF TimeFor
<1>4. exec' \in Executions
  <2>1. exec' = [action |-> d.action, target |-> d.target, goal |-> d.goal,
                 left |-> TimeFor(d), path |-> PathOf(d)]
    BY DEF Start
  <2>2. QED
    BY <1>1, <1>2, <1>3, <2>1 DEF Executions, Decisions, Goals
<1>5. asked' \in 0..MaxAsked
  BY BoundAssumption DEF Start, TypeOK
<1>6. QED
  BY <1>4, <1>5 DEF Start, TypeOK

\* A substep without an effect.
LEMMA NoEffectTyped ==
    ASSUME TypeOK, NoEffect
    PROVE  /\ inventory' \in [Kinds -> Nat]
           /\ kind' \in [Ids -> Kinds \cup {None}] /\ home' \in [Ids -> Cells]
           /\ quantity' \in [Ids -> Nat] /\ growing' \in [Ids -> 0..Regrowth]
           /\ shelters' \in Seq(Shelters)
  BY RegrownTyped, AgedTyped, StormKeeps, EmptySeq DEF NoEffect, Tick, TypeOK

\* A harvest of what is available leaves a quantity.
LEMMA HarvestTyped ==
    ASSUME TypeOK, NEW r \in Ids, Regrown[r] > 0, Harvest(r)
    PROVE  quantity' \in [Ids -> Nat] /\ growing' \in [Ids -> 0..Regrowth]
  BY RegrownTyped, AgedTyped DEF Harvest

\* What _complete does to the world.
LEMMA EffectTyped ==
    ASSUME TypeOK, exec # None, Effect
    PROVE  /\ inventory' \in [Kinds -> Nat]
           /\ kind' \in [Ids -> Kinds \cup {None}] /\ home' \in [Ids -> Cells]
           /\ quantity' \in [Ids -> Nat] /\ growing' \in [Ids -> 0..Regrowth]
           /\ shelters' \in Seq(Shelters)
<1>1. Storm(<<>>) => shelters' \in Seq(Shelters)
  BY StormKeeps, EmptySeq
<1>2. Tick => quantity' \in [Ids -> Nat] /\ growing' \in [Ids -> 0..Regrowth]
  BY RegrownTyped, AgedTyped DEF Tick
<1>3. CASE NoEffect
  BY <1>3, NoEffectTyped
<1>4. CASE exec.action = "pick_up" /\ PickUp(exec.target)
  <2>1. exec.target \in Ids /\ Available(exec.target, Regrown) /\ Harvest(exec.target)
    BY <1>4, ExecTyped DEF PickUp
  <2>2. kind[exec.target] \in Kinds /\ Regrown[exec.target] > 0
    BY <2>1 DEF Available, TypeOK
  <2>3. inventory' \in [Kinds -> Nat]
    BY <1>4, <2>2 DEF PickUp, TypeOK
  <2>4. QED
    BY <1>1, <1>4, <2>1, <2>2, <2>3, HarvestTyped DEF PickUp, TypeOK
<1>5. ASSUME NEW k \in Edible, EatCarried(k)
      PROVE  inventory' \in [Kinds -> Nat]
  BY <1>5, ItemAssumption DEF EatCarried, CarriedEdibles, TypeOK
<1>6. CASE exec.action = "eat" /\ \E k \in Edible : EatCarried(k)
  BY <1>1, <1>2, <1>5, <1>6 DEF EatCarried, TypeOK
<1>7. CASE exec.action = "eat" /\ \E r \in Ids : EatLying(r)
  <2>1. PICK r \in Ids : EatLying(r)
    BY <1>7
  <2>2. Regrown[r] > 0 /\ Harvest(r)
    BY <2>1 DEF EatLying, EdibleResources, Available
  <2>3. QED
    BY <1>1, <2>1, <2>2, HarvestTyped DEF EatLying, TypeOK
<1>8. CASE exec.action = "drop" /\ \E r \in DropIds : Drop(exec.target, r)
  <2>1. PICK r \in DropIds : Drop(exec.target, r)
    BY <1>8
  <2>2. exec.target \in Kinds /\ CellOf[place] \in Cells
    BY <1>8, ExecTyped, PlaceAssumption DEF TypeOK
  <2>3. inventory' \in [Kinds -> Nat]
    BY <2>1, <2>2 DEF Drop, TypeOK
  <2>4. quantity' \in [Ids -> Nat] /\ growing' \in [Ids -> 0..Regrowth]
    BY <2>1, RegrownTyped, AgedTyped DEF Drop
  <2>5. QED
    BY <1>1, <2>1, <2>2, <2>3, <2>4 DEF Drop, TypeOK
<1>9. CASE exec.action = "build" /\ Build
  <2>1. <<[at |-> CellOf[place], sound |-> TRUE]>> \in Seq(Shelters)
    BY PlaceAssumption DEF TypeOK, Shelters
  <2>2. shelters' \in Seq(Shelters)
    BY <1>9, <2>1, StormKeeps DEF Build
  <2>3. inventory' \in [Kinds -> Nat]
    BY <1>9, ItemAssumption DEF Build, HasMaterials, TypeOK
  <2>4. QED
    BY <1>2, <1>9, <2>2, <2>3 DEF Build, TypeOK
<1>10. QED
  BY <1>3, <1>4, <1>6, <1>7, <1>8, <1>9 DEF Effect

\* A substep leaves a typed state, whatever has its effect in it.
LEMMA SubstepTyped ==
    ASSUME TypeOK, Substep
    PROVE  TypeOK'
<1>1. ASSUME NEW asleep \in BOOLEAN, Harm(asleep)
      PROVE  alive' \in BOOLEAN /\ sleeping' \in BOOLEAN
  BY <1>1 DEF Harm, Starves, Mauled, TypeOK
<1>2. /\ sleeping \in BOOLEAN /\ (sleeping /\ exec.action # "sleep") \in BOOLEAN
      /\ asked \in 0..MaxAsked /\ place \in Places
  BY DEF TypeOK
<1>3. CASE Idle
  BY <1>1, <1>2, <1>3, NoEffectTyped DEF Idle, TypeOK
<1>4. CASE Continue
  <2>1. PICK stride \in Strides :
          /\ ~Over(stride) /\ place' = stride.to
          /\ exec' = [exec EXCEPT !.left = @ - 1, !.path = stride.path]
    BY <1>4 DEF Continue
  <2>2. exec # None /\ exec.left - 1 \in Nat
    BY <1>4, <2>1, ExecTyped DEF Continue, Over
  <2>3. stride.to \in Places /\ stride.path \in Seq(Cells)
        /\ (exec.action # "move" => stride.path = <<>>)
    BY <2>2, StrideTyped, ExecTyped, StayingStride
  <2>4. exec' \in Executions
    BY <2>1, <2>2, <2>3 DEF TypeOK, Executions
  <2>5. QED
    BY <1>1, <1>2, <1>4, <2>1, <2>3, <2>4, NoEffectTyped DEF Continue, TypeOK
<1>5. CASE Interrupt
  <2>1. place' \in Places
    BY <1>5, StrideTyped DEF Interrupt
  <2>2. QED
    BY <1>1, <1>2, <1>5, <2>1, NoEffectTyped DEF Interrupt, TypeOK
<1>6. CASE Complete
  <2>1. place' \in Places
    BY <1>6, StrideTyped DEF Complete
  <2>2. QED
    BY <1>1, <1>2, <1>6, <2>1, EffectTyped DEF Complete, TypeOK
<1>7. QED
  BY <1>3, <1>4, <1>5, <1>6 DEF Substep

\* Every step leaves a typed state.
LEMMA NextTyped == TypeOK /\ [Next]_vars => TypeOK'
<1> SUFFICES ASSUME TypeOK, [Next]_vars PROVE TypeOK'
  OBVIOUS
<1>1. CASE Ask
  BY <1>1, BoundAssumption DEF Ask, TypeOK
<1>2. ASSUME NEW d \in Decisions, Refuse(d) PROVE TypeOK'
  BY <1>2, BoundAssumption DEF Refuse, TypeOK
<1>3. CASE UNCHANGED vars
  BY <1>3 DEF vars, TypeOK
<1>4. QED
  BY <1>1, <1>2, <1>3, StartTyped, SubstepTyped DEF Next

\* Every state is typed; in particular only a movement ever has a path, no
\* quantity and no inventory goes below nothing.
THEOREM TypeCorrect == Spec => []TypeOK
<1>1. QED
  BY InitTyped, NextTyped, PTL DEF Spec

-----------------------------------------------------------------------------
(* What start has accepted stays feasible. *)

\* A substep without an effect leaves an unmoved body its food.
LEMMA EdibleOnSameGround ==
    ASSUME TypeOK, NEW target, HasEdible(target, quantity),
           place' = place, quantity' = Regrown, UNCHANGED <<inventory, kind, home>>
    PROVE  HasEdible(target, quantity)'
<1>1. HasEdible(target, Regrown)
  BY RegrownEdible
<1>2. CarriedEdibles(target)' = CarriedEdibles(target)
  BY DEF CarriedEdibles
<1>3. EdibleResources(target, quantity)' = EdibleResources(target, Regrown)
  BY DEF EdibleResources, Available
<1>4. QED
  BY <1>1, <1>2, <1>3 DEF HasEdible

\* Waiting changes nothing that an action of an unmoved body needs.
LEMMA WaitingKeepsFeasible ==
    ASSUME TypeOK, NEW e, e.action # "move", e.action = "pick_up" => e.target \in Ids,
           Feasible(e), NoEffect, place' = place
    PROVE  Feasible(e)'
<1>1. quantity' = Regrown /\ UNCHANGED <<inventory, kind, home>>
  BY DEF NoEffect, Tick
<1>2. e.action = "pick_up" => (Available(e.target, quantity) /\ CanAdd)'
  BY <1>1, RegrownAvailable DEF Feasible, Available, CanAdd
<1>3. e.action = "eat" => HasEdible(e.target, quantity)'
  BY <1>1, EdibleOnSameGround DEF Feasible
<1>4. Unsheltered => Unsheltered'
  <2> <<>> \in Seq(Shelters) /\ Len(<<>>) = 0 /\ Storm(<<>>)
    BY EmptySeq DEF NoEffect
  <2> shelters \in Seq(Shelters) /\ Len(shelters) \in Nat
    BY LenProperties DEF TypeOK
  <2>1. /\ shelters' \in Seq(Shelters)
        /\ Len(shelters') = Len(shelters) + Len(<<>>)
        /\ \A i \in 1..Len(shelters) :
              /\ shelters'[i].at = shelters[i].at
              /\ shelters'[i].sound => shelters[i].sound
    BY StormKeeps
  <2>2. DOMAIN shelters = 1..Len(shelters) /\ DOMAIN shelters' = 1..Len(shelters)
    BY <2>1, LenProperties
  <2>3. QED
    BY <2>1, <2>2 DEF Unsheltered
<1>5. e.action = "build" => CanBuild'
  BY <1>1, <1>4 DEF Feasible, CanBuild, HasMaterials
<1>6. e.action = "drop" => inventory'[e.target] > 0
  BY <1>1 DEF Feasible
<1>7. QED
  BY <1>2, <1>3, <1>5, <1>6 DEF Feasible

\* What runs stays feasible: it was feasible when it started, and every step
\* that keeps it only waits.
LEMMA FeasibleNext ==
    TypeOK /\ AcceptedStaysFeasible /\ [Next]_vars => AcceptedStaysFeasible'
<1> SUFFICES ASSUME TypeOK, AcceptedStaysFeasible, [Next]_vars,
                    exec' # None, exec'.action # "move"
             PROVE  Feasible(exec)'
  BY DEF AcceptedStaysFeasible
<1>1. ASSUME UNCHANGED <<place, things, shelters, exec>> PROVE Feasible(exec)'
  <2>1. Feasible(exec)
    BY <1>1 DEF AcceptedStaysFeasible
  <2>2. QED
    BY <1>1, <2>1 DEF Feasible, Available, CanAdd, HasEdible, CarriedEdibles,
                      EdibleResources, CanBuild, HasMaterials, Unsheltered
<1>2. ASSUME NEW d \in Decisions, Start(d) PROVE Feasible(exec)'
  <2>1. /\ exec'.action = d.action /\ exec'.target = d.target
        /\ d.action # "move" /\ Feasible(d)
        /\ UNCHANGED <<place, things, shelters>>
    BY <1>2 DEF Start
  <2>2. QED
    BY <2>1 DEF Feasible, Available, CanAdd, HasEdible, CarriedEdibles,
                EdibleResources, CanBuild, HasMaterials, Unsheltered
<1>3. CASE Continue
  <2>1. exec # None /\ NoEffect /\ exec \in Executions
    BY <1>3 DEF Continue, TypeOK
  <2>2. PICK stride \in Strides :
          /\ place' = stride.to
          /\ exec' = [exec EXCEPT !.left = @ - 1, !.path = stride.path]
    BY <1>3 DEF Continue
  <2>3. exec'.action = exec.action /\ exec'.target = exec.target
    BY <2>1, <2>2 DEF Executions
  <2>4. place' = place
    BY <2>1, <2>2, <2>3, ExecTyped, StayingStride
  <2>5. Feasible(exec) /\ (exec.action = "pick_up" => exec.target \in Ids)
    BY <2>1, <2>3, ExecTyped DEF AcceptedStaysFeasible
  <2>6. ASSUME NEW e, e = exec PROVE Feasible(e)'
    BY <2>1, <2>3, <2>4, <2>5, <2>6, WaitingKeepsFeasible
  <2>7. QED
    BY <2>3, <2>6 DEF Feasible
<1>4. CASE Idle \/ Interrupt \/ Complete
  BY <1>4 DEF Idle, Interrupt, Complete
<1>5. QED
  BY <1>1, <1>2, <1>3, <1>4 DEF Next, Substep, Ask, Refuse, vars

\* Nothing runs at the beginning.
LEMMA InitFeasible == Init => AcceptedStaysFeasible
  BY DEF Init, AcceptedStaysFeasible

\* What runs is feasible all the time it runs.
LEMMA AlwaysFeasible == Spec => []AcceptedStaysFeasible
  BY InitFeasible, FeasibleNext, TypeCorrect, PTL DEF Spec

\* A feasible execution is not found changed by its completion.
LEMMA CompletionUnspoiled ==
    TypeOK /\ AcceptedStaysFeasible /\ [Next]_vars => (Complete => ~Changed)
<1> SUFFICES ASSUME TypeOK, AcceptedStaysFeasible, Complete PROVE ~Changed
  OBVIOUS
<1>1. exec # None /\ (exec.action # "move" => Feasible(exec))
  BY DEF Complete, AcceptedStaysFeasible
<1>2. exec.action = "pick_up" => Available(exec.target, Regrown) /\ CanAdd
  BY <1>1, ExecTyped, RegrownAvailable DEF Feasible
<1>3. exec.action = "eat" => HasEdible(exec.target, Regrown)
  BY <1>1, RegrownEdible DEF Feasible
<1>4. exec.action = "drop" => inventory[exec.target] # 0
  BY <1>1, ExecTyped DEF Feasible, TypeOK
<1>5. exec.action = "build" => CellOf[place] \in BuildArea /\ HasMaterials
  BY <1>1 DEF Feasible, CanBuild
<1>6. QED
  BY <1>2, <1>3, <1>4, <1>5 DEF Changed

\* An action that start accepted is never refused when it completes: the world
\* only grows under it, and nothing else moves the body or touches its things.
THEOREM AcceptedSucceeds == Spec => AcceptedNeverSpoils
  BY TypeCorrect, AlwaysFeasible, CompletionUnspoiled, PTL DEF Spec, AcceptedNeverSpoils

-----------------------------------------------------------------------------
(* Two shelters never share a cell. *)

\* The only new shelter is the one of a build, on ground that was clear.
LEMMA ApartNext ==
    TypeOK /\ AcceptedStaysFeasible /\ SheltersApart /\ [Next]_vars => SheltersApart'
<1> SUFFICES ASSUME TypeOK, AcceptedStaysFeasible, SheltersApart, [Next]_vars
             PROVE  SheltersApart'
  OBVIOUS
<1>1. shelters \in Seq(Shelters) /\ Len(shelters) \in Nat /\ DOMAIN shelters = 1..Len(shelters)
  BY LenProperties DEF TypeOK
<1>2. CASE UNCHANGED shelters
  BY <1>2 DEF SheltersApart
<1>3. CASE Storm(<<>>)
  <2>1. <<>> \in Seq(Shelters) /\ Len(<<>>) = 0
    BY EmptySeq
  <2>2. /\ shelters' \in Seq(Shelters)
        /\ Len(shelters') = Len(shelters) + Len(<<>>)
        /\ \A i \in 1..Len(shelters) :
              /\ shelters'[i].at = shelters[i].at
              /\ shelters'[i].sound => shelters[i].sound
    BY <1>3, <2>1, StormKeeps
  <2>3. DOMAIN shelters' = 1..Len(shelters)
    BY <1>1, <2>1, <2>2, LenProperties
  <2>4. QED
    BY <1>1, <2>2, <2>3 DEF SheltersApart
<1>4. CASE exec # None /\ exec.action = "build" /\ Build
  <2> DEFINE new == [at |-> CellOf[place], sound |-> TRUE]
  <2>1. <<new>> \in Seq(Shelters) /\ Len(<<new>>) = 1 /\ <<new>>[1] = new /\ Storm(<<new>>)
    BY <1>4, PlaceAssumption DEF TypeOK, Shelters, Build
  <2>2. /\ shelters' \in Seq(Shelters)
        /\ Len(shelters') = Len(shelters) + Len(<<new>>)
        /\ \A i \in 1..Len(shelters) :
              /\ shelters'[i].at = shelters[i].at
              /\ shelters'[i].sound => shelters[i].sound
        /\ \A i \in (Len(shelters) + 1)..Len(shelters') :
              shelters'[i] = <<new>>[i - Len(shelters)]
    BY <2>1, StormKeeps
  <2>3. DOMAIN shelters' = 1..(Len(shelters) + 1)
    BY <1>1, <2>1, <2>2, LenProperties
  <2>4. shelters'[Len(shelters) + 1].at = CellOf[place]
    BY <1>1, <2>1, <2>2
  <2>5. Unsheltered /\ CellOf[place] \in CloseTo[place]
    BY <1>4, PlaceAssumption DEF AcceptedStaysFeasible, Feasible, CanBuild, TypeOK
  <2>6. \A i \in 1..Len(shelters) :
           shelters'[i].sound => shelters'[i].at # CellOf[place]
    BY <1>1, <2>2, <2>5 DEF Unsheltered
  <2>7. QED
    BY <1>1, <2>2, <2>3, <2>4, <2>6 DEF SheltersApart
<1>5. CASE Complete
  BY <1>3, <1>4, <1>5 DEF Complete, Effect, NoEffect, PickUp, EatCarried, EatLying, Drop
<1>6. CASE Idle \/ Continue \/ Interrupt
  BY <1>3, <1>6 DEF Idle, Continue, Interrupt, NoEffect
<1>7. QED
  BY <1>2, <1>5, <1>6 DEF Next, Substep, Ask, Start, Refuse, vars

\* Two standing shelters are never in one cell, for any map on which a position
\* is within the shelter distance of its own cell.
THEOREM AlwaysApart == Spec => []SheltersApart
<1>1. Init => SheltersApart
  BY EmptySeq DEF Init, SheltersApart
<1>2. QED
  BY <1>1, ApartNext, TypeCorrect, AlwaysFeasible, PTL DEF Spec

-----------------------------------------------------------------------------
(* What is taken grows back. *)

\* What a step may do to the generated resources: regrow, then lose one item of
\* each that is harvested in it.
LEMMA ResourcesNext ==
    ASSUME TypeOK, [Next]_vars
    PROVE  \/ UNCHANGED <<kind, quantity, growing>>
           \/ \E harvested \in SUBSET Ids :
                 /\ growing' = Aged(harvested)
                 /\ \A r \in Resources :
                       /\ kind'[r] = kind[r]
                       /\ r \in harvested => Regrown[r] > 0 /\ quantity'[r] = Regrown[r] - 1
                       /\ r \notin harvested => quantity'[r] = Regrown[r]
<1> DEFINE Shape(harvested) ==
              /\ growing' = Aged(harvested)
              /\ \A r \in Resources :
                    /\ kind'[r] = kind[r]
                    /\ r \in harvested => Regrown[r] > 0 /\ quantity'[r] = Regrown[r] - 1
                    /\ r \notin harvested => quantity'[r] = Regrown[r]
<1> SUFFICES \/ UNCHANGED <<kind, quantity, growing>>
             \/ \E harvested \in SUBSET Ids : Shape(harvested)
  OBVIOUS
<1>1. CASE Tick /\ UNCHANGED kind
  <2>1. Shape({})
    BY <1>1 DEF Tick
  <2>2. QED
    BY <2>1
<1>2. ASSUME NEW h \in Ids, Harvest(h), Regrown[h] > 0, UNCHANGED kind
      PROVE  \E harvested \in SUBSET Ids : Shape(harvested)
  <2>1. Shape({h})
    BY <1>2, RegrownTyped DEF Harvest
  <2>2. QED
    BY <2>1
<1>3. ASSUME NEW r \in DropIds, exec # None, exec.action = "drop", Drop(exec.target, r)
      PROVE  \E harvested \in SUBSET Ids : Shape(harvested)
  <2>1. \A q \in Resources : q # r
    BY ItemAssumption
  <2>2. growing' = Aged({r})
    BY <1>3 DEF Drop
  <2>3. \A q \in Resources : q \notin {r} /\ kind'[q] = kind[q] /\ quantity'[q] = Regrown[q]
    BY <1>3, <2>1, RegrownTyped DEF Drop, TypeOK
  <2>4. Shape({r})
    BY <2>2, <2>3
  <2>5. QED
    BY <2>4
<1>4. CASE Complete
  <2>1. CASE NoEffect
    BY <1>1, <2>1 DEF NoEffect
  <2>2. CASE exec.action = "pick_up" /\ PickUp(exec.target)
    BY <1>2, <1>4, <2>2, ExecTyped DEF PickUp, Available, Complete
  <2>3. CASE \E k \in Edible : EatCarried(k)
    BY <1>1, <2>3 DEF EatCarried
  <2>4. CASE \E r \in Ids : EatLying(r)
    BY <1>2, <2>4 DEF EatLying, EdibleResources, Available
  <2>5. CASE exec.action = "drop" /\ \E r \in DropIds : Drop(exec.target, r)
    BY <1>3, <1>4, <2>5 DEF Complete
  <2>6. CASE Build
    BY <1>1, <2>6 DEF Build
  <2>7. QED
    BY <1>4, <2>1, <2>2, <2>3, <2>4, <2>5, <2>6 DEF Complete, Effect
<1>5. CASE Idle \/ Continue \/ Interrupt
  BY <1>1, <1>5 DEF Idle, Continue, Interrupt, NoEffect
<1>6. QED
  BY <1>4, <1>5 DEF Next, Substep, Ask, Start, Refuse, vars

\* Every step keeps the clocks: a harvest starts one, and only a refill, which
\* is complete, stops it.
LEMMA GrowingNext ==
    TypeOK /\ WithinStock /\ DepletedIsGrowing /\ [Next]_vars
        => WithinStock' /\ DepletedIsGrowing'
<1> SUFFICES ASSUME TypeOK, WithinStock, DepletedIsGrowing, [Next]_vars,
                    NEW r \in Resources
             PROVE  /\ quantity'[r] <= StockOf[r] /\ kind'[r] = KindOf[r]
                    /\ quantity'[r] < StockOf[r] <=> growing'[r] > 0
  BY DEF WithinStock, DepletedIsGrowing
<1>1. /\ quantity[r] \in Nat /\ StockOf[r] \in Nat /\ quantity[r] <= StockOf[r]
      /\ kind[r] = KindOf[r] /\ growing[r] \in 0..Regrowth
      /\ quantity[r] < StockOf[r] <=> growing[r] > 0
  BY ItemAssumption DEF TypeOK, WithinStock, DepletedIsGrowing
<1>2. CASE UNCHANGED <<kind, quantity, growing>>
  BY <1>1, <1>2
<1>3. ASSUME NEW harvested \in SUBSET Ids, growing' = Aged(harvested),
             kind'[r] = kind[r],
             r \in harvested => Regrown[r] > 0 /\ quantity'[r] = Regrown[r] - 1,
             r \notin harvested => quantity'[r] = Regrown[r]
      PROVE  /\ quantity'[r] <= StockOf[r] /\ kind'[r] = KindOf[r]
             /\ quantity'[r] < StockOf[r] <=> growing'[r] > 0
  <2>1. Regrown[r] = IF quantity[r] < StockOf[r] /\ growing[r] = Regrowth
                     THEN StockOf[r] ELSE quantity[r]
    BY DEF Regrown, Ripe, MaxQuantity
  <2>2. growing'[r] = IF r \in harvested THEN 1
                      ELSE IF (quantity[r] < StockOf[r] /\ growing[r] = Regrowth) \/ growing[r] = 0
                           THEN 0
                      ELSE IF growing[r] < Regrowth THEN growing[r] + 1 ELSE Regrowth
    BY <1>3 DEF Aged, Ripe, MaxQuantity
  <2>3. QED
    BY <1>1, <1>3, <2>1, <2>2, BoundAssumption
<1>4. QED
  BY <1>2, <1>3, ResourcesNext

\* A generated resource below its stock always has its clock running.
THEOREM AlwaysGrowing == Spec => []DepletedIsGrowing
<1>1. Init => WithinStock /\ DepletedIsGrowing
  BY ItemAssumption DEF Init, WithinStock, DepletedIsGrowing
<1>2. QED
  BY <1>1, GrowingNext, TypeCorrect, PTL DEF Spec
=============================================================================
