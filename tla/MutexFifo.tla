----------------------------- MODULE MutexFifo -----------------------------
(***************************************************************************)
(* lue::mutex_fifo (cpaf_libs/luepp_develop/concurrent/mutex_fifo.hpp),    *)
(* the queue of open and close jobs of the play handler thread.  Any       *)
(* number of threads may use it: each call holds the mutex from its first  *)
(* to its last line, so each call is one step.  A push into a full queue   *)
(* grows it, which moves every element.                                    *)
(***************************************************************************)
EXTENDS RingOps

CONSTANTS Elems,         \* the values pushed
          InitialSlots,  \* the queue sizes the constructor is called with
          MaxSlots,      \* bound: the queue does not grow beyond this
          Nil            \* a default constructed or moved-from element

ASSUME SlotsAssumption == MaxSlots \in Nat /\ InitialSlots \subseteq 2 .. MaxSlots
ASSUME NilAssumption == Nil \notin Elems

VARIABLES fifo,    \* fifo_
          popped,  \* the element the last successful pop_front gave
          pushed   \* what the last push returned

vars == <<fifo, popped, pushed>>

TypeOK ==
    /\ \E n \in 2 .. MaxSlots :
          fifo \in [slots : {n}, queue : [0 .. n - 1 -> Elems \cup {Nil}],
                   r : 0 .. n - 1, w : 0 .. n - 1]
    /\ popped \in Elems \cup {Nil}
    /\ pushed \in BOOLEAN

Init ==
    /\ fifo \in {NewFifo(n, Nil) : n \in InitialSlots}
    /\ popped = Nil
    /\ pushed = TRUE

(* push or emplace: a full fifo is resized to twice what it holds first. *)
Grown == IF Full(fifo) THEN ResizeQueue(fifo, 2 * Size(fifo), Nil) ELSE fifo

PushElem(v) ==
    /\ Grown.slots <= MaxSlots
    /\ fifo' = Push(Grown, v)
    /\ pushed' = ~Full(Grown)
    /\ UNCHANGED popped

PopFront ==
    /\ Size(fifo) > 0
    /\ popped' = fifo.queue[fifo.r]
    /\ fifo' = TakeFront(fifo, Nil)
    /\ UNCHANGED pushed

(* pop(): the slot keeps its value. *)
Pop ==
    /\ Size(fifo) > 0
    /\ fifo' = [fifo EXCEPT !.r = IncIndex(fifo.r, fifo.slots)]
    /\ UNCHANGED <<popped, pushed>>

Flush ==
    /\ fifo' = [fifo EXCEPT !.r = fifo.w]
    /\ UNCHANGED <<popped, pushed>>

Next == (\E v \in Elems : PushElem(v)) \/ PopFront \/ Pop \/ Flush

Spec == Init /\ [][Next]_vars

-----------------------------------------------------------------------------
(* Properties *)

(* open_async and close_async ignore what emplace returns: a job is never   *)
(* refused, because a full queue grows by more than it needs.               *)
PushSucceeds == pushed

(* Growing moves the elements without losing, duplicating or reordering     *)
(* one, wherever the ring had wrapped: the queue is a first-in first-out    *)
(* queue that never fills.                                                  *)
Abstract == INSTANCE Fifo WITH Capacity <- MaxSlots, q <- Contents(fifo), out <- popped

ImplementsFifo == Abstract!Spec
=============================================================================
