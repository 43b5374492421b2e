--------------------------- MODULE MCActionExecution ---------------------------
(* Instances of ActionExecution for TLC. *)
EXTENDS ActionExecution, TLC

CONSTANTS lamp, plug, both, single, weird, banned

\* One device, two devices, arguments that do not fit, a forbidden capability.
MCTargetsOf == [p \in Proposals |-> IF p = both THEN {lamp, plug} ELSE {lamp}]

RequestSymmetry == Permutations(Requests)

Symmetry == RequestSymmetry \union Permutations(Keys)

===============================================================================
