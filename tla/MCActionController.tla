------------------------- MODULE MCActionController -------------------------
(***************************************************************************)
(* An instance of ActionController for TLC: three walkable cells around a  *)
(* rock, in half-cell coordinates, with the real distances.                *)
(*                                                                         *)
(*      (0,1) north     .                                                  *)
(*      (0,0) centre   rock                                                *)
(*        .             (1,-1) corner                                      *)
(*                                                                         *)
(* North and corner are just out of each other's reach, and a way from     *)
(* between north and centre to the corner cuts the rock.  A bush with a    *)
(* berry grows in the north, a tree with a branch at the corner, where one *)
(* branch makes a shelter; one item can be carried and one dropped.        *)
(***************************************************************************)
EXTENDS ActionController

North  == <<0, 2>>
Centre == <<0, 0>>
Corner == <<2, -2>>
NorthOfCentre == <<0, 1>>

GridCells   == {North, Centre, Corner}
BodyPlaces  == GridCells \cup {NorthOfCentre}

\* Python rounds a half to the even neighbour.
Rounded == [p \in BodyPlaces |-> IF p \in GridCells THEN p ELSE Centre]

\* Cells within a radius, given as four times its square.
Within(radius) ==
    [p \in BodyPlaces |->
        {c \in GridCells : (c[1] - p[1]) * (c[1] - p[1]) + (c[2] - p[2]) * (c[2] - p[2]) <= radius}]

InteractionRadius == Within(19)   \* 2.2
ShelterRadius     == Within(16)   \* 2.0

Paths ==
    [p \in BodyPlaces |-> [goal \in GridCells |->
        IF Rounded[p] = goal THEN <<>>
        ELSE IF Rounded[p] = Centre \/ goal = Centre THEN <<goal>>
        ELSE <<Centre, goal>>]]

Midway ==
    [p \in BodyPlaces |-> [next \in GridCells |->
        IF {p, next} = {North, Centre} THEN {NorthOfCentre} ELSE {}]]

RockInTheWay == [p \in BodyPlaces |-> IF p = NorthOfCentre THEN {Corner} ELSE {}]

Clearing == {Corner}

Items     == {"berry", "branch"}
Food      == {"berry"}
OneBranch == [k \in Items |-> IF k = "branch" THEN 1 ELSE 0]

Generated == {"bush", "tree"}
Yields    == [r \in Generated |-> IF r = "bush" THEN "berry" ELSE "branch"]
Positions == [r \in Generated |-> IF r = "bush" THEN North ELSE Corner]
OneEach   == [r \in Generated |-> 1]
OneDrop   == {"dropped"}
=============================================================================
