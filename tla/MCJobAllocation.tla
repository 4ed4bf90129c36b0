--------------------------- MODULE MCJobAllocation ---------------------------
(* Small instances of JobAllocation.                                        *)
EXTENDS JobAllocation, TLC

MCQuantities == 1..2

MCSymmetry == Permutations(Workers)

=============================================================================
