---------------------------- MODULE MCBoqReview ----------------------------
(* Small instances of BoqReview.                                           *)
EXTENDS BoqReview, TLC

MCSymmetry == Permutations(Requests)

=============================================================================
