-------------------------- MODULE MCKnowledgeIngestion --------------------------
(* Instances of KnowledgeIngestion for TLC. *)
EXTENDS KnowledgeIngestion, TLC

Symmetry == Permutations(Docs) \union Permutations(Workers)

===============================================================================
