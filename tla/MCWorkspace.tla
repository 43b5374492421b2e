------------------------------ MODULE MCWorkspace ------------------------------
(* The workspace for TLC: workspace.cfg gives the bounds, one gateway device *)
(* (a lamp) and one panel of lights.                                         *)
EXTENDS Workspace
================================================================================
