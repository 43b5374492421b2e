-------------------------- MODULE MCGatewayCommands ---------------------------
(* Model-checking instance of GatewayCommands: in the safety runs commands are *)
(* interchangeable, and so are gateways.                                       *)
EXTENDS GatewayCommands, TLC

CommandSymmetry == Permutations(Commands)
Symmetry == CommandSymmetry \union Permutations(Gateways)
===============================================================================
