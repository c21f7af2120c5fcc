------------------------- MODULE MCCostingPipeline -------------------------
(* Small instances of CostingPipeline for TLC. *)
EXTENDS CostingPipeline, TLC

CONSTANTS p1, p2, r1, r2

MCPages == {1, 2}

OneSlot == [l \in Lanes |-> 1]

AllStages == {Lanes}

\* Every choice of the upload dialog but the drawing or the costing alone.
AnyStages == (SUBSET Lanes) \ {{}, {"drawing"}, {"costing"}}
=============================================================================
