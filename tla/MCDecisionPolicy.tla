-------------------------- MODULE MCDecisionPolicy --------------------------
(***************************************************************************)
(* Instances of DecisionPolicy for TLC: what its model may propose.        *)
(***************************************************************************)
EXTENDS DecisionPolicy

\* Everything, and what concerns the plant.
AnyProposal == Proposals
OfPlant == {Decision(a, "plant") : a \in {"eat", "pick_up"}}
=============================================================================
