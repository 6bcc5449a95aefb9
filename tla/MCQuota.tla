------------------------------ MODULE MCQuota ------------------------------
(* Instances of Quota for TLC. *)
EXTENDS Quota, TLC

Symmetry == Permutations(Messages) \union Permutations(Runs)
=============================================================================
