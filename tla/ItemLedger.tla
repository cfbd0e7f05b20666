----------------------------- MODULE ItemLedger -----------------------------
(***************************************************************************)
(* What the body and the world owe each other, item by item: the contract  *)
(* that ActionController keeps, however its actions begin, are replaced,   *)
(* are interrupted and end.                                                *)
(*                                                                         *)
(* Items lie in the wild, lie where they were left, or are carried.  The   *)
(* wild grows back up to its stock; nothing else ever comes into being.    *)
(* In one step the body moves one item, eats one, or turns the materials   *)
(* of a shelter into a shelter, and never holds more than it can carry.    *)
(***************************************************************************)
EXTENDS Integers, Functions

CONSTANTS
    Kinds,     \* kinds of items
    Edible,    \* those that can be eaten
    Cost,      \* how many of each kind a shelter takes
    Stock,     \* how many of each kind the wild holds at most
    Capacity   \* how many items the body can carry

VARIABLES
    wild,      \* items of each kind that grow in the world
    left,      \* items of each kind that were dropped and still lie there
    carried,   \* items of each kind on the body
    built      \* shelters ever built

ledger == <<wild, left, carried, built>>

Load == SumFunction(carried)

Init ==
    /\ wild = Stock
    /\ left = [k \in Kinds |-> 0]
    /\ carried = [k \in Kinds |-> 0]
    /\ built = 0

\* Between wild and ground the world has only grown.
Grown(ground) == \A k \in Kinds : wild[k] <= ground[k] /\ ground[k] <= Stock[k]

Grow ==
    /\ Grown(wild')
    /\ UNCHANGED <<left, carried, built>>

\* One item of kind k leaves the wild, or the place it was left at.
TakeWild(k) ==
    /\ Grown([wild' EXCEPT ![k] = @ + 1])
    /\ UNCHANGED left

TakeLeft(k) ==
    /\ left[k] > 0
    /\ left' = [left EXCEPT ![k] = @ - 1]
    /\ Grown(wild')

Take(k) == TakeWild(k) \/ TakeLeft(k)

Gather(k) ==
    /\ Load < Capacity
    /\ Take(k)
    /\ carried' = [carried EXCEPT ![k] = @ + 1]
    /\ UNCHANGED built

Drop(k) ==
    /\ carried[k] > 0
    /\ Grown(wild')
    /\ left' = [left EXCEPT ![k] = @ + 1]
    /\ carried' = [carried EXCEPT ![k] = @ - 1]
    /\ UNCHANGED built

EatCarried(k) ==
    /\ carried[k] > 0
    /\ Grown(wild')
    /\ carried' = [carried EXCEPT ![k] = @ - 1]
    /\ UNCHANGED <<left, built>>

EatLying(k) ==
    /\ Take(k)
    /\ UNCHANGED <<carried, built>>

Build ==
    /\ \A k \in Kinds : carried[k] >= Cost[k]
    /\ Grown(wild')
    /\ carried' = [k \in Kinds |-> carried[k] - Cost[k]]
    /\ built' = built + 1
    /\ UNCHANGED left

Next ==
    \/ Grow
    \/ \E k \in Kinds : Gather(k) \/ Drop(k)
    \/ \E k \in Edible : EatCarried(k) \/ EatLying(k)
    \/ Build

Spec == Init /\ [][Next]_ledger
=============================================================================
