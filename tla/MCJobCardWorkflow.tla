------------------------- MODULE MCJobCardWorkflow -------------------------
(***************************************************************************)
(* Two stages: the first triggers the requisition, a branch of its own,    *)
(* and the quality chain, the last of which does not block.                *)
(***************************************************************************)
EXTENDS JobCardWorkflow, TLC
CONSTANTS r1, r2, requisition, qaCheck, certs, qaReview, repairs, finalCheck, blue

MCSiblings == <<<<requisition, qaCheck, certs, qaReview, repairs, finalCheck>>, <<>>>>
MCColour == [s \in ToSet(MCSiblings[1]) |-> IF s = requisition THEN blue ELSE NoColour]
MCDownstream == <<finalCheck>>
MCSymmetry == Permutations(Requests)
=============================================================================
