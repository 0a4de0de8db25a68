-------------------------- MODULE MCThreadControl --------------------------
(* ThreadControl for TLC; the threads are model values. *)
EXTENDS ThreadControl
=============================================================================
