----------------------------- MODULE MCSrswFifo -----------------------------
(* The lockless fifo on a ring of BufferSize slots, with one reader. *)
EXTENDS SrswFifo
=============================================================================
