---------------------------- MODULE MCActivityChain ----------------------------
(* Instances of ActivityChain for TLC. *)
EXTENDS ActivityChain, TLC

Symmetry == Permutations(Writers) \union Permutations(Cleaners)

===============================================================================
