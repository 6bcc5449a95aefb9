--------------------------- MODULE MCSubscriptions ---------------------------
(* Instances of Subscriptions for TLC. *)
EXTENDS Subscriptions, TLC

Symmetry == Permutations(Accounts) \union Permutations(Purchases)
=============================================================================
