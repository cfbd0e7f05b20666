---------------------------- MODULE LedgerProofs ----------------------------
(***************************************************************************)
(* ActionController implements ItemLedger, for any finite sets of          *)
(* resources and kinds: whatever the body and the world do to each other,  *)
(* items move as the ledger says.  And the body never holds more than it   *)
(* can carry.                                                              *)
(*                                                                         *)
(* Both are about sums over the resources of a kind and over the           *)
(* inventory; the lemmas on those are in SumTheorems.                      *)
(***************************************************************************)
EXTENDS ActionControllerProofs, SumTheorems

USE DEF Ids, Respawns, Exists, things

-----------------------------------------------------------------------------
(* How much there is of each kind. *)

\* The resources of a kind are finitely many.
LEMMA OfKindFinite ==
    ASSUME NEW ids \in SUBSET Ids, NEW k
    PROVE  IsFiniteSet({r \in ids : kind[r] = k})
  BY FinitenessAssumption, FS_Subset

\* There is a number of each kind.
LEMMA KindSumTyped ==
    ASSUME NEW ids \in SUBSET Ids, NEW f, Counts(f, ids)
    PROVE  KindSum(f, ids) \in [Kinds -> Nat]
<1> SUFFICES ASSUME NEW k \in Kinds
             PROVE  SumFunctionOnSet(f, {r \in ids : kind[r] = k}) \in Nat
  BY DEF KindSum
<1>1. Counts(f, {r \in ids : kind[r] = k})
  BY DEF Counts
<1>2. QED
  BY <1>1, OfKindFinite, SumIsNat

\* More of each resource is more of each kind.
LEMMA KindSumGrows ==
    ASSUME NEW ids \in SUBSET Ids, NEW f, NEW g, Counts(f, ids), Counts(g, ids),
           \A r \in ids : f[r] <= g[r], NEW k \in Kinds
    PROVE  KindSum(f, ids)[k] <= KindSum(g, ids)[k]
<1> DEFINE S == {r \in ids : kind[r] = k}
<1>1. IsFiniteSet(S) /\ Counts(f, S) /\ Counts(g, S) /\ \A r \in S : f[r] <= g[r]
  BY OfKindFinite DEF Counts
<1> HIDE DEF S
<1>2. SumFunctionOnSet(f, S) <= SumFunctionOnSet(g, S)
  BY <1>1, SumGrows
<1>3. QED
  BY <1>2 DEF KindSum, S

\* As much of each resource is as much of each kind.
LEMMA KindSumSame ==
    ASSUME NEW ids \in SUBSET Ids, NEW f, NEW g, Counts(f, ids),
           \A r \in ids : f[r] = g[r]
    PROVE  KindSum(f, ids) = KindSum(g, ids)
<1> SUFFICES ASSUME NEW k \in Kinds
             PROVE  SumFunctionOnSet(f, {r \in ids : kind[r] = k})
                      = SumFunctionOnSet(g, {r \in ids : kind[r] = k})
  BY Zenon DEF KindSum
<1>1. Counts(f, {r \in ids : kind[r] = k})
  BY DEF Counts
<1>2. QED
  BY <1>1, OfKindFinite, SumSame

\* One less of a resource is one less of its kind.
LEMMA KindSumTaken ==
    ASSUME NEW ids \in SUBSET Ids, NEW f, NEW g, Counts(f, ids), Counts(g, ids),
           NEW y \in ids, kind[y] \in Kinds, f[y] = g[y] + 1,
           \A r \in ids : r # y => g[r] = f[r]
    PROVE  /\ KindSum(g, ids) = [KindSum(f, ids) EXCEPT ![kind[y]] = @ - 1]
           /\ KindSum(f, ids) = [KindSum(g, ids) EXCEPT ![kind[y]] = @ + 1]
           /\ KindSum(f, ids)[kind[y]] > 0
<1>1. KindSum(f, ids) \in [Kinds -> Nat] /\ KindSum(g, ids) \in [Kinds -> Nat]
  BY KindSumTyped
<1>2. ASSUME NEW k \in Kinds
      PROVE  KindSum(f, ids)[k] = KindSum(g, ids)[k] + (IF k = kind[y] THEN 1 ELSE 0)
  <2> DEFINE S == {r \in ids : kind[r] = k}
  <2>1. IsFiniteSet(S) /\ Counts(f, S) /\ Counts(g, S)
    BY OfKindFinite DEF Counts
  <2>2. KindSum(f, ids)[k] = SumFunctionOnSet(f, S) /\ KindSum(g, ids)[k] = SumFunctionOnSet(g, S)
    BY DEF KindSum
  <2>3. CASE k = kind[y]
    <3>1. y \in S /\ \A r \in S : r # y => g[r] = f[r]
      BY <2>3
    <3>2. f[y] \in Nat /\ g[y] \in Nat
      BY DEF Counts
    <3> HIDE DEF S
    <3>3. SumFunctionOnSet(g, S) = SumFunctionOnSet(f, S) + g[y] - f[y]
      BY <2>1, <3>1, SumChanged
    <3>4. SumFunctionOnSet(f, S) \in Nat
      BY <2>1, SumIsNat
    <3>5. QED
      BY <2>2, <2>3, <3>2, <3>3, <3>4
  <2>4. CASE k # kind[y]
    <3>1. \A r \in S : f[r] = g[r]
      BY <2>4
    <3> HIDE DEF S
    <3>2. SumFunctionOnSet(f, S) = SumFunctionOnSet(g, S)
      BY <2>1, <3>1, SumSame
    <3>3. QED
      BY <1>1, <2>2, <2>4, <3>2
  <2>5. QED
    BY <2>3, <2>4
<1>3. QED
  BY <1>1, <1>2

\* Where nothing changes its kind, the sums of the next state are these.
LEMMA KindSumNext ==
    ASSUME NEW ids \in SUBSET Ids, \A r \in ids : kind'[r] = kind[r]
    PROVE  KindSum(quantity, ids)' = KindSum(quantity', ids)
<1>1. \A k \in Kinds : {r \in ids : kind'[r] = k} = {r \in ids : kind[r] = k}
  OBVIOUS
<1>2. QED
  BY <1>1, Zenon DEF KindSum

-----------------------------------------------------------------------------
(* The moves of the ledger. *)

\* What the generated resources hold, and what they hold after a tick.
LEMMA WildCounts ==
    ASSUME TypeOK, WithinStock
    PROVE  /\ Counts(quantity, Ids) /\ Counts(Regrown, Ids)
           /\ Counts(quantity, Resources) /\ Counts(Regrown, Resources)
           /\ Counts(StockOf, Resources)
           /\ Counts(quantity, DropIds) /\ Counts(Regrown, DropIds)
           /\ \A r \in Resources : quantity[r] <= Regrown[r] /\ Regrown[r] <= StockOf[r]
           /\ \A r \in DropIds : Regrown[r] = quantity[r]
<1>1. Regrown \in [Ids -> Nat] /\ quantity \in [Ids -> Nat] /\ StockOf \in [Resources -> Nat]
  BY RegrownTyped, ItemAssumption DEF TypeOK
<1>2. \A r \in Resources : quantity[r] <= Regrown[r] /\ Regrown[r] <= StockOf[r]
  BY <1>1 DEF Regrown, Ripe, MaxQuantity, WithinStock
<1>3. \A r \in DropIds : Regrown[r] = quantity[r]
  BY ItemAssumption DEF Regrown, Ripe
<1>4. QED
  BY <1>1, <1>2, <1>3 DEF Counts

\* The stock of the ledger is the stock of the resources, kind by kind.
LEMMA StockIsSum ==
    ASSUME WithinStock
    PROVE  [k \in Kinds |-> SumFunctionOnSet(StockOf, {r \in Resources : KindOf[r] = k})]
             = KindSum(StockOf, Resources)
<1>1. \A k \in Kinds : {r \in Resources : KindOf[r] = k} = {r \in Resources : kind[r] = k}
  BY DEF WithinStock
<1>2. QED
  BY <1>1, Zenon DEF KindSum

\* A tick makes the wild grow.
LEMMA TickGrows ==
    ASSUME TypeOK, WithinStock, NEW k \in Kinds
    PROVE  /\ KindSum(quantity, Resources)[k] <= KindSum(Regrown, Resources)[k]
           /\ KindSum(Regrown, Resources)[k]
                <= [i \in Kinds |-> SumFunctionOnSet(StockOf, {r \in Resources : KindOf[r] = i})][k]
<1>1. KindSum(quantity, Resources)[k] <= KindSum(Regrown, Resources)[k]
  BY WildCounts, KindSumGrows
<1>2. KindSum(Regrown, Resources)[k] <= KindSum(StockOf, Resources)[k]
  BY WildCounts, KindSumGrows
<1>3. QED
  BY <1>1, <1>2, StockIsSum

\* A step that only ticks leaves what was dropped and lets the wild grow.
LEMMA TickIsGrown ==
    ASSUME TypeOK, WithinStock, \A r \in Resources : quantity'[r] = Regrown[r] /\ kind'[r] = kind[r]
    PROVE  Ledger!Grown(KindSum(quantity, Resources)')
<1>1. KindSum(quantity, Resources)' = KindSum(Regrown, Resources)
  <2>1. KindSum(quantity, Resources)' = KindSum(quantity', Resources)
    BY KindSumNext
  <2>2. KindSum(Regrown, Resources) = KindSum(quantity', Resources)
    BY WildCounts, KindSumSame
  <2>3. QED
    BY <2>1, <2>2
<1>2. QED
  BY <1>1, TickGrows DEF Ledger!Grown

\* So does one that leaves every kind and ticks; what was dropped lies on.
LEMMA TickMoves ==
    ASSUME TypeOK, WithinStock, Tick, UNCHANGED kind
    PROVE  /\ Ledger!Grown(KindSum(quantity, Resources)')
           /\ UNCHANGED KindSum(quantity, DropIds)
<1>1. \A r \in Ids : quantity'[r] = Regrown[r] /\ kind'[r] = kind[r]
  BY DEF Tick
<1>2. \A r \in DropIds : quantity'[r] = quantity[r]
  BY <1>1, WildCounts
<1>3. KindSum(quantity, DropIds) = KindSum(quantity', DropIds)
  BY <1>2, WildCounts, KindSumSame
<1>4. KindSum(quantity, DropIds)' = KindSum(quantity', DropIds)
  BY <1>1, KindSumNext
<1>5. QED
  BY <1>1, <1>3, <1>4, TickIsGrown

\* A harvest takes one item of the kind, from the wild or from what was dropped.
LEMMA HarvestTakes ==
    ASSUME TypeOK, WithinStock, NEW y \in Ids, Harvest(y), Regrown[y] > 0,
           kind[y] \in Kinds, UNCHANGED kind
    PROVE  Ledger!Take(kind[y])
<1>1. /\ quantity'[y] = Regrown[y] - 1
      /\ \A r \in Ids : r # y => quantity'[r] = Regrown[r]
  BY DEF Harvest, Regrown
<1>2. Counts(quantity', Resources) /\ Counts(quantity', DropIds)
  BY HarvestTyped DEF Counts
<1>3. /\ KindSum(quantity, Resources)' = KindSum(quantity', Resources)
      /\ KindSum(quantity, DropIds)' = KindSum(quantity', DropIds)
  BY KindSumNext
<1>4. CASE y \in Resources
  <2>1. Regrown[y] = quantity'[y] + 1 /\ \A r \in Resources : r # y => quantity'[r] = Regrown[r]
    BY <1>1, <1>4, WildCounts DEF Counts
  <2>2. KindSum(Regrown, Resources) = [KindSum(quantity', Resources) EXCEPT ![kind[y]] = @ + 1]
    BY <1>2, <1>4, <2>1, WildCounts, KindSumTaken
  <2>3. \A r \in DropIds : quantity'[r] = quantity[r]
    BY <1>1, <1>4, WildCounts, ItemAssumption
  <2>4. KindSum(quantity, DropIds) = KindSum(quantity', DropIds)
    BY <2>3, WildCounts, KindSumSame
  <2>5. Ledger!Grown(KindSum(Regrown, Resources))
    BY TickGrows DEF Ledger!Grown
  <2>6. QED
    BY <1>3, <2>2, <2>4, <2>5 DEF Ledger!Take, Ledger!TakeWild
<1>5. CASE y \in DropIds
  <2>1. \A r \in Resources : quantity'[r] = Regrown[r] /\ kind'[r] = kind[r]
    BY <1>1, <1>5, ItemAssumption
  <2>2. quantity[y] = quantity'[y] + 1 /\ \A r \in DropIds : r # y => quantity'[r] = quantity[r]
    BY <1>1, <1>2, <1>5, WildCounts DEF Counts
  <2>3. /\ KindSum(quantity', DropIds) = [KindSum(quantity, DropIds) EXCEPT ![kind[y]] = @ - 1]
        /\ KindSum(quantity, DropIds)[kind[y]] > 0
    BY <1>2, <1>5, <2>2, WildCounts, KindSumTaken
  <2>4. QED
    BY <1>3, <2>1, <2>3, TickIsGrown DEF Ledger!Take, Ledger!TakeLeft
<1>6. QED
  BY <1>4, <1>5

\* A drop leaves one item more of its kind.
LEMMA DropLeaves ==
    ASSUME TypeOK, WithinStock, NEW k \in Kinds, NEW y \in DropIds, Drop(k, y)
    PROVE  /\ Ledger!Grown(KindSum(quantity, Resources)')
           /\ KindSum(quantity, DropIds)' = [KindSum(quantity, DropIds) EXCEPT ![k] = @ + 1]
<1>1. /\ kind[y] = None /\ kind'[y] = k /\ quantity'[y] = 1
      /\ \A r \in Ids : r # y => kind'[r] = kind[r] /\ quantity'[r] = Regrown[r]
  BY DEF Drop, TypeOK, Regrown
<1>2. Ledger!Grown(KindSum(quantity, Resources)')
  BY <1>1, TickIsGrown, ItemAssumption
<1>3. KindSum(quantity, DropIds) \in [Kinds -> Nat]
  BY WildCounts, KindSumTyped
<1>4. ASSUME NEW i \in Kinds
      PROVE  SumFunctionOnSet(quantity', {r \in DropIds : kind'[r] = i})
               = IF i = k THEN KindSum(quantity, DropIds)[i] + 1
                        ELSE KindSum(quantity, DropIds)[i]
  <2> DEFINE S == {r \in DropIds : kind[r] = i}
  <2>1. y \notin S /\ \A r \in S : quantity[r] = quantity'[r]
    BY <1>1, WildCounts, NoneAssumption
  <2>2. IsFiniteSet(S) /\ Counts(quantity, S) /\ Counts(quantity', S)
    BY <2>1, OfKindFinite, WildCounts DEF Counts
  <2>3. KindSum(quantity, DropIds)[i] = SumFunctionOnSet(quantity, S)
    BY DEF KindSum
  <2>4. kind[y] # i /\ kind'[y] = k /\ \A r \in DropIds : r # y => kind'[r] = kind[r]
    BY <1>1, NoneAssumption
  <2>5. CASE i = k
    <3>1. {r \in DropIds : kind'[r] = i} = S \cup {y}
      BY <2>4, <2>5
    <3> HIDE DEF S
    <3>2. SumFunctionOnSet(quantity', S) = SumFunctionOnSet(quantity, S)
          /\ SumFunctionOnSet(quantity', S) \in Nat
      BY <2>1, <2>2, SumSame, SumIsNat
    <3>3. SumFunctionOnSet(quantity', S \cup {y}) = 1 + SumFunctionOnSet(quantity', S)
      BY <1>1, <2>1, <2>2, SumWith
    <3>4. SumFunctionOnSet(quantity', S \cup {y}) = SumFunctionOnSet(quantity, S) + 1
      BY <3>2, <3>3
    <3>5. QED
      BY <2>3, <2>5, <3>1, <3>4, Zenon
  <2>6. CASE i # k
    <3>1. {r \in DropIds : kind'[r] = i} = S
      BY <2>4, <2>6
    <3> HIDE DEF S
    <3>2. SumFunctionOnSet(quantity', S) = SumFunctionOnSet(quantity, S)
      BY <2>1, <2>2, SumSame
    <3>3. QED
      BY <2>3, <2>6, <3>1, <3>2, Zenon
  <2>7. QED
    BY <2>5, <2>6
<1>5. KindSum(quantity, DropIds)' =
        [i \in Kinds |-> IF i = k THEN KindSum(quantity, DropIds)[i] + 1
                         ELSE KindSum(quantity, DropIds)[i]]
  BY <1>4 DEF KindSum
<1>6. KindSum(quantity, DropIds)' = [KindSum(quantity, DropIds) EXCEPT ![k] = @ + 1]
  BY <1>3, <1>5
<1>7. QED
  BY <1>2, <1>6

-----------------------------------------------------------------------------
(* Every step is a step of the ledger. *)

\* The world is generated full, and nothing is carried or dropped.
LEMMA InitIsLedger == Init => Ledger!Init
<1> SUFFICES ASSUME Init PROVE Ledger!Init
  OBVIOUS
<1>1. TypeOK /\ WithinStock
  BY InitTyped, ItemAssumption DEF Init, WithinStock
<1>2. \A r \in Resources : StockOf[r] = quantity[r]
  BY DEF Init
<1>3. KindSum(StockOf, Resources) = KindSum(quantity, Resources)
  BY <1>1, <1>2, WildCounts, KindSumSame
<1>4. \A k \in Kinds : {r \in DropIds : kind[r] = k} = {}
  BY ItemAssumption, NoneAssumption DEF Init
<1>5. SumFunctionOnSet(quantity, {}) = 0
  BY FS_EmptySet, SumOfZeros
<1>6. KindSum(quantity, DropIds) = [k \in Kinds |-> 0]
  BY <1>4, <1>5 DEF KindSum
<1>7. Len(shelters) = 0
  BY EmptySeq DEF Init
<1>8. QED
  BY <1>1, <1>3, <1>6, <1>7, StockIsSum DEF Init, Ledger!Init

\* A storm builds nothing.
LEMMA StormBuildsNothing ==
    ASSUME TypeOK, Storm(<<>>)
    PROVE  UNCHANGED Len(shelters)
<1>1. <<>> \in Seq(Shelters) /\ Len(<<>>) = 0 /\ Len(shelters) \in Nat
  BY EmptySeq, LenProperties DEF TypeOK
<1>2. Len(shelters') = Len(shelters) + Len(<<>>)
  BY <1>1, StormKeeps
<1>3. QED
  BY <1>1, <1>2

\* A substep without an effect only grows.
LEMMA NoEffectGrows ==
    ASSUME TypeOK, WithinStock, NoEffect
    PROVE  Ledger!Next
<1>1. Tick /\ Storm(<<>>) /\ UNCHANGED <<kind, inventory>>
  BY DEF NoEffect
<1>2. QED
  BY <1>1, TickMoves, StormBuildsNothing DEF Ledger!Next, Ledger!Grow

\* The load of the ledger is what CanAdd counts.
LEMMA LoadIsCarried == Ledger!Load = SumFunction(inventory)
  BY Zenon DEF Ledger!Load, SumFunction, SumFunctionOnSet, FoldFunctionOnSet, MapThenFoldSet,
               Ledger!SumFunction, Ledger!SumFunctionOnSet, Ledger!FoldFunctionOnSet,
               Ledger!MapThenFoldSet

\* Every effect of _complete is one move of the ledger.
LEMMA EffectMoves ==
    ASSUME TypeOK, WithinStock, exec # None, Effect
    PROVE  Ledger!Next
<1>1. CASE NoEffect
  BY <1>1, NoEffectGrows
<1>2. CASE exec.action = "pick_up" /\ PickUp(exec.target)
  <2>1. /\ exec.target \in Ids /\ Available(exec.target, Regrown) /\ Harvest(exec.target)
        /\ CanAdd /\ UNCHANGED kind /\ Storm(<<>>)
        /\ inventory' = [inventory EXCEPT ![kind[exec.target]] = @ + 1]
    BY <1>2, ExecTyped DEF PickUp
  <2>2. kind[exec.target] \in Kinds /\ Regrown[exec.target] > 0
    BY <2>1 DEF Available, TypeOK
  <2>3. Ledger!Gather(kind[exec.target])
    BY <2>1, <2>2, HarvestTakes, StormBuildsNothing, LoadIsCarried DEF Ledger!Gather, CanAdd
  <2>4. QED
    BY <2>2, <2>3 DEF Ledger!Next
<1>3. ASSUME NEW k \in Edible, EatCarried(k)
      PROVE  Ledger!Next
  <2>1. Ledger!EatCarried(k)
    BY <1>3, TickMoves, StormBuildsNothing DEF EatCarried, CarriedEdibles, Ledger!EatCarried
  <2>2. QED
    BY <2>1 DEF Ledger!Next
<1>4. ASSUME NEW r \in Ids, EatLying(r)
      PROVE  Ledger!Next
  <2>1. Regrown[r] > 0 /\ kind[r] \in Edible /\ Harvest(r) /\ UNCHANGED kind
    BY <1>4 DEF EatLying, EdibleResources, Available
  <2>2. Ledger!EatLying(kind[r])
    BY <1>4, <2>1, HarvestTakes, StormBuildsNothing, ItemAssumption DEF EatLying, Ledger!EatLying
  <2>3. QED
    BY <2>1, <2>2 DEF Ledger!Next
<1>5. ASSUME exec.action = "drop", NEW r \in DropIds, Drop(exec.target, r)
      PROVE  Ledger!Next
  <2>1. exec.target \in Kinds
    BY <1>5, ExecTyped
  <2>2. Ledger!Drop(exec.target)
    BY <1>5, <2>1, DropLeaves, StormBuildsNothing DEF Drop, Ledger!Drop
  <2>3. QED
    BY <2>1, <2>2 DEF Ledger!Next
<1>6. CASE Build
  <2> DEFINE new == [at |-> CellOf[place], sound |-> TRUE]
  <2>1. <<new>> \in Seq(Shelters) /\ Len(<<new>>) = 1 /\ Storm(<<new>>)
    BY <1>6, PlaceAssumption DEF TypeOK, Shelters, Build
  <2>2. Len(shelters') = Len(shelters) + 1
    BY <2>1, StormKeeps
  <2>3. Ledger!Build
    BY <1>6, <2>2, TickMoves DEF Build, HasMaterials, Ledger!Build
  <2>4. QED
    BY <2>3 DEF Ledger!Next
<1>7. QED
  BY <1>1, <1>2, <1>3, <1>4, <1>5, <1>6 DEF Effect

\* Every step is a move of the ledger, or leaves it alone.
LEMMA StepIsLedger ==
    TypeOK /\ WithinStock /\ [Next]_vars => [Ledger!Next]_Ledger!ledger
<1> SUFFICES ASSUME TypeOK, WithinStock, [Next]_vars
             PROVE  [Ledger!Next]_Ledger!ledger
  OBVIOUS
<1>1. CASE UNCHANGED <<things, shelters>>
  BY <1>1 DEF Ledger!ledger, KindSum
<1>2. CASE Idle \/ Continue \/ Interrupt
  BY <1>2, NoEffectGrows DEF Idle, Continue, Interrupt
<1>3. CASE Complete
  BY <1>3, EffectMoves DEF Complete
<1>4. QED
  BY <1>1, <1>2, <1>3 DEF Next, Substep, Ask, Start, Refuse, vars

\* Items are conserved: ActionController implements ItemLedger.
THEOREM ItemsAreConserved == Spec => ItemsConserved
<1>1. Init => WithinStock /\ DepletedIsGrowing
  BY ItemAssumption DEF Init, WithinStock, DepletedIsGrowing
<1>2. QED
  BY <1>1, GrowingNext, TypeCorrect, InitIsLedger, StepIsLedger, PTL
     DEF Spec, ItemsConserved, Ledger!Spec

-----------------------------------------------------------------------------
(* The body never holds more than it can carry. *)

\* The load is the sum over the kinds.
LEMMA LoadOverKinds ==
    ASSUME NEW carried \in [Kinds -> Nat]
    PROVE  /\ SumFunction(carried) = SumFunctionOnSet(carried, Kinds)
           /\ Counts(carried, Kinds)
  BY DEF SumFunction, Counts

NotOverloaded == SumFunction(inventory) <= Capacity

\* Only gathering adds to the load, and it asks first.
LEMMA LoadNext ==
    TypeOK /\ NotOverloaded /\ TypeOK' /\ [Ledger!Next]_Ledger!ledger => NotOverloaded'
<1> SUFFICES ASSUME inventory \in [Kinds -> Nat], inventory' \in [Kinds -> Nat],
                    NotOverloaded, [Ledger!Next]_Ledger!ledger
             PROVE  SumFunctionOnSet(inventory', Kinds) <= Capacity
  BY LoadOverKinds DEF TypeOK, NotOverloaded
<1>1. /\ SumFunction(inventory) = SumFunctionOnSet(inventory, Kinds)
      /\ Counts(inventory, Kinds) /\ Counts(inventory', Kinds) /\ IsFiniteSet(Kinds)
  BY LoadOverKinds, FinitenessAssumption
<1>2. /\ SumFunctionOnSet(inventory, Kinds) <= Capacity
      /\ SumFunctionOnSet(inventory, Kinds) \in Nat
      /\ SumFunctionOnSet(inventory', Kinds) \in Nat
  BY <1>1, SumIsNat DEF NotOverloaded
<1>3. ASSUME \A k \in Kinds : inventory'[k] <= inventory[k]
      PROVE  SumFunctionOnSet(inventory', Kinds) <= Capacity
  <2>1. SumFunctionOnSet(inventory', Kinds) <= SumFunctionOnSet(inventory, Kinds)
    BY <1>1, <1>3, SumGrows
  <2>2. QED
    BY <1>2, <2>1, BoundAssumption
<1>4. ASSUME NEW k \in Kinds, Ledger!Gather(k)
      PROVE  SumFunctionOnSet(inventory', Kinds) <= Capacity
  <2>1. /\ SumFunctionOnSet(inventory, Kinds) < Capacity
        /\ inventory' = [inventory EXCEPT ![k] = @ + 1]
    BY <1>1, <1>4, LoadIsCarried DEF Ledger!Gather
  <2>2. inventory'[k] = inventory[k] + 1 /\ \A i \in Kinds : i # k => inventory'[i] = inventory[i]
    BY <2>1
  <2>3. SumFunctionOnSet(inventory', Kinds)
          = SumFunctionOnSet(inventory, Kinds) + inventory'[k] - inventory[k]
    BY <1>1, <2>2, SumChanged
  <2>4. inventory[k] \in Nat
    OBVIOUS
  <2>5. QED
    BY <1>2, <2>1, <2>2, <2>3, <2>4, BoundAssumption
<1>5. CASE UNCHANGED inventory
  BY <1>3, <1>5
<1>6. ASSUME NEW k \in Kinds, inventory' = [inventory EXCEPT ![k] = @ - 1]
      PROVE  SumFunctionOnSet(inventory', Kinds) <= Capacity
  BY <1>3, <1>6
<1>7. CASE Ledger!Build
  <2>1. inventory' = [k \in Kinds |-> inventory[k] - Cost[k]]
    BY <1>7 DEF Ledger!Build
  <2>2. \A k \in Kinds : inventory'[k] <= inventory[k]
    BY <2>1, ItemAssumption
  <2>3. QED
    BY <1>3, <2>2
<1>8. QED
  BY <1>4, <1>5, <1>6, <1>7, ItemAssumption
     DEF Ledger!ledger, Ledger!Next, Ledger!Grow, Ledger!Drop, Ledger!EatCarried, Ledger!EatLying

\* However actions are started, replaced and interrupted, the body never holds
\* more than inventory_capacity: what the ledger allows is enough to see it.
THEOREM NeverOverloaded == Spec => []NotOverloaded
<1>1. Init => NotOverloaded
  <2> SUFFICES ASSUME Init PROVE NotOverloaded
    OBVIOUS
  <2>1. inventory \in [Kinds -> Nat] /\ \A k \in Kinds : inventory[k] = 0
    BY DEF Init
  <2>2. SumFunctionOnSet(inventory, Kinds) = 0
    BY <2>1, FinitenessAssumption, SumOfZeros
  <2>3. QED
    BY <2>1, <2>2, LoadOverKinds, BoundAssumption DEF NotOverloaded
<1>2. Init => WithinStock /\ DepletedIsGrowing
  BY ItemAssumption DEF Init, WithinStock, DepletedIsGrowing
<1>3. QED
  BY <1>1, <1>2, GrowingNext, TypeCorrect, StepIsLedger, LoadNext, PTL DEF Spec
=============================================================================
