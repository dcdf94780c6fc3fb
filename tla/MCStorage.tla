------------------------------- MODULE MCStorage -------------------------------
(* Instances of Storage for TLC. *)
EXTENDS Storage, TLC

BatchSymmetry == Permutations(Batches)

=============================================================================
