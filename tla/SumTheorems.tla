---------------------------- MODULE SumTheorems -----------------------------
(***************************************************************************)
(* What a sum over a finite set is, for SumFunctionOnSet of the module     *)
(* Functions: how much a body carries and how much of a kind the world     *)
(* holds are such sums.                                                    *)
(*                                                                         *)
(* The sum is a fold, which is a function defined by recursion on the      *)
(* subsets of the set, element by CHOOSEn element.  Every induction below  *)
(* is the choice of a smallest subset that a statement fails for: strict   *)
(* inclusion is well founded on the subsets of a finite set.               *)
(***************************************************************************)
EXTENDS Integers, Functions, FiniteSetTheorems, TLAPS

\* Of the subsets in a family there is a smallest.
LEMMA SmallestSubset ==
    ASSUME NEW S, IsFiniteSet(S), NEW family \in SUBSET SUBSET S, family # {}
    PROVE  \E T \in family : \A U \in family : U \subseteq T => U = T
<1>1. IsWellFoundedOn(StrictSubsetOrdering(S), SUBSET S)
  BY FS_StrictSubsetOrderingWellFounded, FS_FiniteSubsetsOfFinite
<1>2. \E T \in family : \A U \in family : <<U, T>> \notin StrictSubsetOrdering(S)
  BY <1>1, WFMin
<1>3. QED
  BY <1>2 DEF StrictSubsetOrdering

\* Induction on the subsets of a finite set, for a statement given as the family
\* of the subsets that it holds for.
LEMMA SubsetInduction ==
    ASSUME NEW S, IsFiniteSet(S), NEW good,
           \A T \in SUBSET S : (\A U \in SUBSET T : U # T => U \in good) => T \in good
    PROVE  \A T \in SUBSET S : T \in good
<1> DEFINE bad == {T \in SUBSET S : T \notin good}
<1> SUFFICES ASSUME bad # {} PROVE FALSE
  OBVIOUS
<1>1. bad \in SUBSET SUBSET S
  OBVIOUS
<1> HIDE DEF bad
<1>2. PICK T \in bad : \A U \in bad : U \subseteq T => U = T
  BY <1>1, SmallestSubset
<1> USE DEF bad
<1>3. \A U \in SUBSET T : U # T => U \in good
  BY <1>2
<1>4. QED
  BY <1>2, <1>3

-----------------------------------------------------------------------------
(* The recursion is well defined. *)

\* The element that the fold takes first.
First(T) == CHOOSE x \in T : TRUE
Rest(T) == T \ {First(T)}

\* g is the sum of f on every subset of S.
Adds(f, S, g) ==
    g = [T \in SUBSET S |-> IF T = {} THEN 0 ELSE f[First(T)] + g[Rest(T)]]

\* What the fold computes, without its helpers.
LEMMA SumUnfolded ==
    ASSUME NEW f, NEW S
    PROVE  SumFunctionOnSet(f, S) = (CHOOSE g : Adds(f, S, g))[S]
  BY Zenon DEF SumFunctionOnSet, FoldFunctionOnSet, MapThenFoldSet, Adds, First, Rest

\* A set has its first element, and the rest is smaller.
LEMMA FirstRest ==
    ASSUME NEW T, T # {}
    PROVE  First(T) \in T /\ Rest(T) \subseteq T /\ Rest(T) # T
           /\ T = Rest(T) \cup {First(T)} /\ First(T) \notin Rest(T)
<1>1. First(T) \in T
  BY DEF First
<1>2. QED
  BY <1>1 DEF Rest

\* Two sums of the same function agree wherever both are defined.
LEMMA SumsAgree ==
    ASSUME NEW f, NEW S, NEW T, IsFiniteSet(S), NEW g, NEW h,
           Adds(f, S, g), Adds(f, T, h)
    PROVE  \A U \in SUBSET (S \cap T) : g[U] = h[U]
<1> DEFINE wrong == {U \in SUBSET (S \cap T) : g[U] # h[U]}
<1> SUFFICES ASSUME wrong # {} PROVE FALSE
  OBVIOUS
<1>1. wrong \in SUBSET SUBSET S
  OBVIOUS
<1> HIDE DEF wrong
<1>2. PICK U \in wrong : \A V \in wrong : V \subseteq U => V = U
  BY <1>1, SmallestSubset
<1> USE DEF wrong
<1>3. /\ g[U] = IF U = {} THEN 0 ELSE f[First(U)] + g[Rest(U)]
      /\ h[U] = IF U = {} THEN 0 ELSE f[First(U)] + h[Rest(U)]
  BY <1>2 DEF Adds
<1>4. U # {} => Rest(U) \notin wrong /\ Rest(U) \in SUBSET (S \cap T)
  BY <1>2, FirstRest
<1>5. QED
  BY <1>2, <1>3, <1>4

\* Every finite set has a sum.
LEMMA SumExists ==
    ASSUME NEW f, NEW S, IsFiniteSet(S)
    PROVE  \E g : Adds(f, S, g)
<1> DEFINE Sum(T) == CHOOSE g : Adds(f, T, g)
           wrong == {T \in SUBSET S : ~ \E g : Adds(f, T, g)}
<1> SUFFICES ASSUME wrong # {} PROVE FALSE
  BY DEF wrong
<1>1. wrong \in SUBSET SUBSET S
  OBVIOUS
<1> HIDE DEF wrong
<1>2. PICK T \in wrong : \A V \in wrong : V \subseteq T => V = T
  BY <1>1, SmallestSubset
<1> USE DEF wrong
<1> DEFINE sum == [V \in SUBSET T |-> IF V = {} THEN 0 ELSE f[First(V)] + Sum(Rest(V))[Rest(V)]]
<1>3. ASSUME NEW V \in SUBSET T, V # T
      PROVE  Adds(f, V, Sum(V)) /\ IsFiniteSet(V)
  <2>1. V \notin wrong /\ V \in SUBSET S
    BY <1>2, <1>3
  <2>2. QED
    BY <2>1, FS_Subset
<1>4. ASSUME NEW V \in SUBSET T, V # T
      PROVE  sum[V] = Sum(V)[V]
  <2>1. Adds(f, V, Sum(V)) /\ IsFiniteSet(V)
    BY <1>3, <1>4
  <2> HIDE DEF Sum
  <2>2. Sum(V)[V] = IF V = {} THEN 0 ELSE f[First(V)] + Sum(V)[Rest(V)]
    BY <2>1 DEF Adds
  <2>3. ASSUME V # {}
        PROVE  Sum(V)[Rest(V)] = Sum(Rest(V))[Rest(V)]
    <3>1. Rest(V) \subseteq V /\ Rest(V) \in SUBSET T /\ Rest(V) # T
      BY <1>4, <2>3, FirstRest
    <3>2. Adds(f, Rest(V), Sum(Rest(V)))
      BY <1>3, <3>1
    <3>3. QED
      BY <2>1, <3>1, <3>2, SumsAgree
  <2>4. QED
    BY <2>2, <2>3
<1> HIDE DEF Sum
<1>5. ASSUME NEW V \in SUBSET T
      PROVE  sum[V] = IF V = {} THEN 0 ELSE f[First(V)] + sum[Rest(V)]
  <2>1. CASE V = {}
    BY <2>1
  <2>2. CASE V # {}
    <3>1. Rest(V) \in SUBSET T /\ Rest(V) # T
      BY <2>2, FirstRest
    <3>2. sum[Rest(V)] = Sum(Rest(V))[Rest(V)]
      BY <1>4, <3>1
    <3>3. QED
      BY <2>2, <3>2
  <2>3. QED
    BY <2>1, <2>2
<1>6. Adds(f, T, sum)
  <2>1. sum = [V \in SUBSET T |-> sum[V]]
    OBVIOUS
  <2> HIDE DEF sum
  <2>2. QED
    BY <1>5, <2>1 DEF Adds
<1>7. QED
  BY <1>2, <1>6

\* The equation that the fold is meant to satisfy.
LEMMA SumEquation ==
    ASSUME NEW f, NEW S, IsFiniteSet(S)
    PROVE  SumFunctionOnSet(f, S) =
             IF S = {} THEN 0 ELSE f[First(S)] + SumFunctionOnSet(f, Rest(S))
<1> DEFINE Sum(T) == CHOOSE g : Adds(f, T, g)
<1>1. \A T : SumFunctionOnSet(f, T) = Sum(T)[T]
  BY SumUnfolded
<1>2. Adds(f, S, Sum(S))
  BY SumExists
<1>3. S # {} => Adds(f, Rest(S), Sum(Rest(S)))
  BY FirstRest, FS_Subset, SumExists
<1> HIDE DEF Sum
<1>4. Sum(S)[S] = IF S = {} THEN 0 ELSE f[First(S)] + Sum(S)[Rest(S)]
  BY <1>2 DEF Adds
<1>5. S # {} => Sum(S)[Rest(S)] = Sum(Rest(S))[Rest(S)]
  BY <1>2, <1>3, FirstRest, SumsAgree
<1>6. QED
  BY <1>1, <1>4, <1>5

-----------------------------------------------------------------------------
(* What sums of natural numbers are. *)

\* A function has a natural number for each element.
Counts(f, S) == \A x \in S : f[x] \in Nat

\* A sum of natural numbers is one.
LEMMA SumIsNat ==
    ASSUME NEW f, NEW S, IsFiniteSet(S), Counts(f, S)
    PROVE  SumFunctionOnSet(f, S) \in Nat
<1> DEFINE good == {T \in SUBSET S : SumFunctionOnSet(f, T) \in Nat}
<1>1. ASSUME NEW T \in SUBSET S, \A U \in SUBSET T : U # T => U \in good
      PROVE  T \in good
  <2>1. SumFunctionOnSet(f, T) = IF T = {} THEN 0 ELSE f[First(T)] + SumFunctionOnSet(f, Rest(T))
    BY FS_Subset, SumEquation
  <2>2. ASSUME T # {}
        PROVE  f[First(T)] \in Nat /\ SumFunctionOnSet(f, Rest(T)) \in Nat
    BY <1>1, <2>2, FirstRest DEF Counts
  <2>3. QED
    BY <2>1, <2>2
<1> HIDE DEF good
<1>2. S \in good
  BY <1>1, SubsetInduction
<1>3. QED
  BY <1>2 DEF good

\* No element has to be the first: any one may be taken out.
LEMMA SumWithout ==
    ASSUME NEW f, NEW S, IsFiniteSet(S), Counts(f, S), NEW y \in S
    PROVE  SumFunctionOnSet(f, S) = f[y] + SumFunctionOnSet(f, S \ {y})
<1> DEFINE Sum(T) == SumFunctionOnSet(f, T)
           good == {T \in SUBSET S : \A x \in T : Sum(T) = f[x] + Sum(T \ {x})}
<1>1. ASSUME NEW T \in SUBSET S
      PROVE  /\ Sum(T) \in Nat
             /\ Sum(T) = IF T = {} THEN 0 ELSE f[First(T)] + Sum(Rest(T))
  BY FS_Subset, SumEquation, SumIsNat DEF Counts
<1> HIDE DEF Sum
<1>2. ASSUME NEW T \in SUBSET S, \A U \in SUBSET T : U # T => U \in good, NEW x \in T
      PROVE  Sum(T) = f[x] + Sum(T \ {x})
  <2>1. /\ First(T) \in T /\ Rest(T) \in SUBSET T /\ Rest(T) # T
        /\ Rest(T) = T \ {First(T)}
    BY FirstRest DEF Rest
  <2>2. Sum(T) = f[First(T)] + Sum(Rest(T))
    BY <1>1
  <2>3. CASE x = First(T)
    <3>1. T \ {x} = Rest(T)
      BY <2>1, <2>3
    <3>2. QED
      BY <2>2, <2>3, <3>1
  <2>4. CASE x # First(T)
    <3>1. x \in Rest(T) /\ First(T) \in T \ {x} /\ T \ {x} # T
      BY <2>1, <2>4
    <3>2. Sum(Rest(T)) = f[x] + Sum(Rest(T) \ {x})
      BY <1>2, <2>1, <3>1
    <3>3. Sum(T \ {x}) = f[First(T)] + Sum((T \ {x}) \ {First(T)})
      BY <1>2, <3>1
    <3>4. (T \ {x}) \ {First(T)} = Rest(T) \ {x}
      BY <2>1
    <3>5. f[x] \in Nat /\ f[First(T)] \in Nat /\ Sum(Rest(T) \ {x}) \in Nat
      BY <1>1, <2>1 DEF Counts
    <3>6. Sum(T \ {x}) = f[First(T)] + Sum(Rest(T) \ {x})
      BY <3>3, <3>4
    <3>7. QED
      BY <2>2, <3>2, <3>5, <3>6
  <2>5. QED
    BY <2>3, <2>4
<1>3. \A T \in SUBSET S : (\A U \in SUBSET T : U # T => U \in good) => T \in good
  BY <1>2
<1> HIDE DEF good
<1>4. S \in good
  BY <1>3, SubsetInduction
<1>5. QED
  BY <1>4 DEF good, Sum

\* Where one function is never above another, nor is its sum.
LEMMA SumGrows ==
    ASSUME NEW f, NEW g, NEW S, IsFiniteSet(S), Counts(f, S), Counts(g, S),
           \A x \in S : f[x] <= g[x]
    PROVE  SumFunctionOnSet(f, S) <= SumFunctionOnSet(g, S)
<1> DEFINE good == {T \in SUBSET S : SumFunctionOnSet(f, T) <= SumFunctionOnSet(g, T)}
<1>1. ASSUME NEW T \in SUBSET S, \A U \in SUBSET T : U # T => U \in good
      PROVE  T \in good
  <2>1. /\ SumFunctionOnSet(f, T) = IF T = {} THEN 0 ELSE f[First(T)] + SumFunctionOnSet(f, Rest(T))
        /\ SumFunctionOnSet(g, T) = IF T = {} THEN 0 ELSE g[First(T)] + SumFunctionOnSet(g, Rest(T))
    BY FS_Subset, SumEquation
  <2>2. ASSUME T # {}
        PROVE  /\ f[First(T)] \in Nat /\ g[First(T)] \in Nat /\ f[First(T)] <= g[First(T)]
               /\ SumFunctionOnSet(f, Rest(T)) \in Nat /\ SumFunctionOnSet(g, Rest(T)) \in Nat
               /\ SumFunctionOnSet(f, Rest(T)) <= SumFunctionOnSet(g, Rest(T))
    <3>1. First(T) \in S /\ Rest(T) \subseteq S /\ Rest(T) \in good
      BY <1>1, <2>2, FirstRest
    <3>2. IsFiniteSet(Rest(T)) /\ Counts(f, Rest(T)) /\ Counts(g, Rest(T))
      BY <3>1, FS_Subset DEF Counts
    <3>3. QED
      BY <3>1, <3>2, SumIsNat DEF Counts
  <2>3. QED
    BY <2>1, <2>2
<1> HIDE DEF good
<1>2. S \in good
  BY <1>1, SubsetInduction
<1>3. QED
  BY <1>2 DEF good

\* Functions that agree on a set have the same sum there.
LEMMA SumSame ==
    ASSUME NEW f, NEW g, NEW S, IsFiniteSet(S), Counts(f, S), \A x \in S : f[x] = g[x]
    PROVE  SumFunctionOnSet(f, S) = SumFunctionOnSet(g, S)
<1>1. Counts(g, S) /\ (\A x \in S : f[x] <= g[x] /\ g[x] <= f[x])
  BY DEF Counts
<1>2. /\ SumFunctionOnSet(f, S) <= SumFunctionOnSet(g, S)
      /\ SumFunctionOnSet(g, S) <= SumFunctionOnSet(f, S)
  BY <1>1, SumGrows
<1>3. QED
  BY <1>1, <1>2, SumIsNat

\* One more element adds what it counts.
LEMMA SumWith ==
    ASSUME NEW f, NEW S, IsFiniteSet(S), Counts(f, S), NEW y, y \notin S, f[y] \in Nat
    PROVE  SumFunctionOnSet(f, S \cup {y}) = f[y] + SumFunctionOnSet(f, S)
<1>1. IsFiniteSet(S \cup {y}) /\ Counts(f, S \cup {y}) /\ (S \cup {y}) \ {y} = S
  BY FS_AddElement DEF Counts
<1>2. QED
  BY <1>1, SumWithout

\* A change of one value changes the sum by as much.
LEMMA SumChanged ==
    ASSUME NEW f, NEW g, NEW S, IsFiniteSet(S), Counts(f, S), Counts(g, S),
           NEW y \in S, \A x \in S : x # y => g[x] = f[x]
    PROVE  SumFunctionOnSet(g, S) = SumFunctionOnSet(f, S) + g[y] - f[y]
<1>1. /\ SumFunctionOnSet(f, S) = f[y] + SumFunctionOnSet(f, S \ {y})
      /\ SumFunctionOnSet(g, S) = g[y] + SumFunctionOnSet(g, S \ {y})
  BY SumWithout
<1>2. IsFiniteSet(S \ {y}) /\ Counts(f, S \ {y})
  BY FS_Subset DEF Counts
<1>3. /\ SumFunctionOnSet(f, S \ {y}) = SumFunctionOnSet(g, S \ {y})
      /\ SumFunctionOnSet(f, S \ {y}) \in Nat
  BY <1>2, SumSame, SumIsNat
<1>4. QED
  BY <1>1, <1>3 DEF Counts

\* A function of zeros sums to nothing.
LEMMA SumOfZeros ==
    ASSUME NEW f, NEW S, IsFiniteSet(S), \A x \in S : f[x] = 0
    PROVE  SumFunctionOnSet(f, S) = 0
<1> DEFINE good == {T \in SUBSET S : SumFunctionOnSet(f, T) = 0}
<1>1. ASSUME NEW T \in SUBSET S, \A U \in SUBSET T : U # T => U \in good
      PROVE  T \in good
  <2>1. SumFunctionOnSet(f, T) = IF T = {} THEN 0 ELSE f[First(T)] + SumFunctionOnSet(f, Rest(T))
    BY FS_Subset, SumEquation
  <2>2. T # {} => f[First(T)] = 0 /\ SumFunctionOnSet(f, Rest(T)) = 0
    BY <1>1, FirstRest
  <2>3. QED
    BY <2>1, <2>2
<1> HIDE DEF good
<1>2. S \in good
  BY <1>1, SubsetInduction
<1>3. QED
  BY <1>2 DEF good
=============================================================================
