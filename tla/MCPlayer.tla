------------------------------ MODULE MCPlayer ------------------------------
(* The player with a few open, close, pause and window commands.            *)
EXTENDS PlayerTime
=============================================================================
