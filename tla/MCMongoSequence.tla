-------------------------- MODULE MCMongoSequence --------------------------
(* Small instances of MongoSequence.                                       *)
EXTENDS MongoSequence, TLC

MCSymmetry == Permutations(Workers) \cup Permutations(Collections)

MCWorkerSymmetry == Permutations(Workers)

=============================================================================
