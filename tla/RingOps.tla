------------------------------ MODULE RingOps ------------------------------
(***************************************************************************)
(* Index arithmetic of lue::srsw_fifo (cul/luepp/lue/concurrent/           *)
(* srsw_fifo.hpp) and the fifo as a value, for the classes that only touch *)
(* it inside a lock (lue::mutex_fifo).  A ring of n slots is addressed by  *)
(* 0 .. n-1; one slot is always left free, so it holds at most n-1         *)
(* elements.                                                               *)
(***************************************************************************)
EXTENDS Integers, Sequences

(* Mutant: the index does not wrap. *)
IncIndexNoWrap(i, n) == i + 1

(* The slot after slot i in a ring of n slots. *)
IncIndex(i, n) == (i + 1) % n

(* size(): the number of slots from read index r up to write index w. *)
SizeOf(r, w, n) == IF w >= r THEN w - r ELSE n - r + w

IsFull(r, w, n) == IncIndex(w, n) = r

(* The slots from r up to w, oldest first: what the fifo holds. *)
SlotSeq(queue, r, w, n) ==
    [k \in 1 .. SizeOf(r, w, n) |-> queue[(r + k - 1) % n]]

(***************************************************************************)
(* The fifo as a record [queue, r, w]; the number of slots is the size of  *)
(* the queue vector.  Nil stands for the value of a slot that was default  *)
(* constructed or moved from.                                              *)
(***************************************************************************)
NewFifo(n, Nil) == [slots |-> n, queue |-> [k \in 0 .. n - 1 |-> Nil], r |-> 0, w |-> 0]

Contents(f) == SlotSeq(f.queue, f.r, f.w, f.slots)

Size(f) == SizeOf(f.r, f.w, f.slots)

Full(f) == IsFull(f.r, f.w, f.slots)

(* push(v): the fifo after the call, unchanged when the call returns false. *)
Push(f, v) ==
    IF IncIndex(f.w, f.slots) # f.r
    THEN [f EXCEPT !.queue[f.w] = v, !.w = IncIndex(f.w, f.slots)]
    ELSE f

(* Move the front out and pop. *)
TakeFront(f, Nil) ==
    [f EXCEPT !.queue[f.r] = Nil, !.r = IncIndex(f.r, f.slots)]

(* Mutant: the vector is given n slots in all. *)
InitQueueReplaces(f, n, Nil) ==
    [slots |-> n, queue |-> [k \in 0 .. n - 1 |-> Nil], r |-> 0, w |-> 0]

(* init_queue pushes n fresh slots BEHIND the slots the vector already has. *)
InitQueue(f, n, Nil) ==
    [slots |-> f.slots + n,
     queue |-> [k \in 0 .. f.slots + n - 1 |-> IF k < f.slots THEN f.queue[k] ELSE Nil],
     r |-> 0, w |-> 0]

(* Mutant: the elements stay in their slots. *)
ResizeQueueInPlace(f, n, Nil) ==
    [InitQueue(f, n, Nil) EXCEPT !.w = Size(f)]

(* resize_queue's second loop: the fifo after the first k elements of held   *)
(* were pushed back.                                                        *)
Refill(fresh, held) ==
    LET refilled[k \in 0 .. Len(held)] ==
            IF k = 0 THEN fresh ELSE Push(refilled[k - 1], held[k])
    IN  refilled[Len(held)]

(* resize_queue: move everything out, init_queue, push it back in order. *)
ResizeQueue(f, n, Nil) ==
    LET held    == Contents(f)
        drained == [f EXCEPT !.queue = [k \in 0 .. f.slots - 1 |-> Nil]]
        fresh   == InitQueue(drained, n, Nil)
    IN  Refill(fresh, held)
=============================================================================
