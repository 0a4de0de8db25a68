-------------------------------- MODULE Fifo --------------------------------
(***************************************************************************)
(* What a fifo promises: a bounded first-in first-out queue q and the      *)
(* element out that its reader saw last.  SrswFifo and MutexFifo are shown *)
(* to implement it.                                                        *)
(***************************************************************************)
EXTENDS Naturals, Sequences

CONSTANTS Elems,     \* what can be put into the queue
          Capacity,  \* the most elements it holds
          Nil        \* nothing seen yet

VARIABLES q, out

TypeOK == /\ q \in Seq(Elems) /\ Len(q) <= Capacity
          /\ out \in Elems \cup {Nil}

Init == q = << >> /\ out = Nil

Enqueue(v) == Len(q) < Capacity /\ q' = Append(q, v) /\ UNCHANGED out

(* The reader looks at the oldest element. *)
Peek == q # << >> /\ out' = Head(q) /\ UNCHANGED q

(* The reader takes the oldest element. *)
Take == q # << >> /\ out' = Head(q) /\ q' = Tail(q)

(* The reader discards the oldest element unseen. *)
Drop == q # << >> /\ q' = Tail(q) /\ UNCHANGED out

(* Everything is discarded at once. *)
Clear == q' = << >> /\ UNCHANGED out

Next == (\E v \in Elems : Enqueue(v)) \/ Peek \/ Take \/ Drop \/ Clear

Spec == Init /\ [][Next]_<<q, out>>
=============================================================================
