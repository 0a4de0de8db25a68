---------------------------- MODULE MCMutexFifo ----------------------------
(* A queue of two slots that grows twice; the two elements are             *)
(* interchangeable.                                                        *)
EXTENDS MutexFifo, TLC

ElemSymmetry == Permutations(Elems)
=============================================================================
