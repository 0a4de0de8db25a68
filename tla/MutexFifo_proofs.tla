-------------------------- MODULE MutexFifo_proofs --------------------------
(***************************************************************************)
(* The job queue that grows implements the bounded queue of Fifo: the      *)
(* calls are single steps, so this is about what growing does to the ring. *)
(***************************************************************************)
EXTENDS MutexFifo, RingOps_proofs

Values == Elems \cup {Nil}

(* The fifo of a well typed state is a ring of some number of slots.        *)
LEMMA FifoIsRing ==
  ASSUME TypeOK
  PROVE  \E n \in 2 .. MaxSlots : fifo \in FifosOf(n, Values)
BY DEF TypeOK, FifosOf, Rings, SlotsOf, Values

(* A ring within the bound is well typed.                                   *)
LEMMA RingIsFifo ==
  ASSUME NEW n \in 2 .. MaxSlots, NEW f \in FifosOf(n, Values)
  PROVE  \E k \in 2 .. MaxSlots :
            f \in [slots : {k}, queue : [0 .. k - 1 -> Elems \cup {Nil}],
                  r : 0 .. k - 1, w : 0 .. k - 1]
BY DEF FifosOf, Rings, SlotsOf, Values

(* push and emplace: what is held is kept, there is room, and the new       *)
(* element comes last (mutex_fifo::push, emplace).                          *)
LEMMA PushGrows ==
  ASSUME TypeOK, NEW v \in Elems, PushElem(v)
  PROVE  /\ TypeOK' /\ pushed'
         /\ Contents(fifo') = Append(Contents(fifo), v)
         /\ Len(Contents(fifo)) < MaxSlots
<1>1. PICK n \in 2 .. MaxSlots : fifo \in FifosOf(n, Values)
  BY FifoIsRing
<1>2. n \in Nat \ {0} /\ Nil \in Values /\ v \in Values
  BY SlotsAssumption DEF Values
<1>3. \E k \in 2 .. MaxSlots :
        Grown \in FifosOf(k, Values) /\ Contents(Grown) = Contents(fifo) /\ ~Full(Grown)
  <2>1. CASE Full(fifo)
    <3>1. Size(fifo) = n - 1
      BY <1>1, <1>2, <2>1, FullSize
    <3>2. 2 * Size(fifo) \in Nat \ {0}
      BY <3>1, SlotsAssumption
    <3>3. /\ ResizeQueue(fifo, 2 * Size(fifo), Nil) \in FifosOf(n + 2 * Size(fifo), Values)
          /\ Contents(ResizeQueue(fifo, 2 * Size(fifo), Nil)) = Contents(fifo)
          /\ ~Full(ResizeQueue(fifo, 2 * Size(fifo), Nil))
      BY <1>1, <1>2, <3>2, ResizeKeeps
    <3>4. /\ Grown \in FifosOf(n + 2 * Size(fifo), Values)
          /\ Contents(Grown) = Contents(fifo) /\ ~Full(Grown)
      BY <2>1, <3>3 DEF Grown
    <3>5. Grown.slots = n + 2 * Size(fifo) /\ Grown.slots <= MaxSlots
      BY <3>4 DEF FifosOf, PushElem
    <3>6. n + 2 * Size(fifo) \in 2 .. MaxSlots
      BY <3>2, <3>5, SlotsAssumption
    <3> QED
      BY <3>4, <3>6
  <2>2. CASE ~Full(fifo)
    BY <1>1, <2>2 DEF Grown
  <2> QED
    BY <2>1, <2>2
<1>4. PICK k \in 2 .. MaxSlots :
        Grown \in FifosOf(k, Values) /\ Contents(Grown) = Contents(fifo) /\ ~Full(Grown)
  BY <1>3
<1>5. k \in Nat \ {0}
  BY SlotsAssumption
<1>6. /\ Push(Grown, v) \in FifosOf(k, Values)
      /\ Contents(Push(Grown, v)) = Append(Contents(Grown), v)
  BY <1>2, <1>4, <1>5, PushAppends
<1>7. fifo' = Push(Grown, v) /\ pushed' = ~Full(Grown) /\ popped' = popped
  BY DEF PushElem
<1>8. TypeOK'
  <2>1. pushed' \in BOOLEAN /\ popped' \in Elems \cup {Nil}
    BY <1>4, <1>7 DEF TypeOK
  <2> QED
    BY <1>6, <1>7, <2>1, RingIsFifo DEF TypeOK
<1>9. Len(Contents(fifo)) < MaxSlots
  <2>1. Len(Contents(fifo)) = Size(fifo) /\ Size(fifo) \in SlotsOf(n)
    BY <1>1, <1>2, ContentsSeq
  <2> QED
    BY <2>1, SlotsAssumption DEF SlotsOf
<1> QED
  BY <1>4, <1>6, <1>7, <1>8, <1>9

(* pop_front and pop remove the oldest element; pop_front hands it out      *)
(* (mutex_fifo::pop_front, pop).                                            *)
LEMMA PopsOldest ==
  ASSUME TypeOK, PopFront \/ Pop
  PROVE  /\ TypeOK' /\ pushed' = pushed
         /\ Contents(fifo) # << >> /\ Contents(fifo') = Tail(Contents(fifo))
         /\ PopFront => popped' = Head(Contents(fifo))
         /\ Pop => popped' = popped
<1>1. PICK n \in 2 .. MaxSlots : fifo \in FifosOf(n, Values)
  BY FifoIsRing
<1>2. n \in Nat \ {0} /\ Nil \in Values /\ Size(fifo) > 0
  BY SlotsAssumption DEF Values, PopFront, Pop
<1>3. /\ TakeFront(fifo, Nil) \in FifosOf(n, Values)
      /\ [fifo EXCEPT !.r = IncIndex(fifo.r, fifo.slots)] \in FifosOf(n, Values)
      /\ Contents(fifo) # << >> /\ Head(Contents(fifo)) = fifo.queue[fifo.r]
      /\ Contents(TakeFront(fifo, Nil)) = Tail(Contents(fifo))
      /\ Contents([fifo EXCEPT !.r = IncIndex(fifo.r, fifo.slots)]) = Tail(Contents(fifo))
  BY <1>1, <1>2, TakeFrontDrops
<1>4. fifo.queue[fifo.r] \in Elems \cup {Nil}
  BY <1>1 DEF FifosOf, Rings, Values
<1>5. popped' \in Elems \cup {Nil} /\ pushed' \in BOOLEAN
  BY <1>4 DEF TypeOK, PopFront, Pop
<1>6. fifo' \in FifosOf(n, Values)
  BY <1>3 DEF PopFront, Pop
<1>7. TypeOK'
  BY <1>5, <1>6, RingIsFifo DEF TypeOK
<1> QED
  BY <1>3, <1>7 DEF PopFront, Pop

(* flush leaves nothing (mutex_fifo::flush).                                *)
LEMMA FlushClears ==
  ASSUME TypeOK, Flush
  PROVE  TypeOK' /\ pushed' = pushed /\ popped' = popped /\ Contents(fifo') = << >>
<1>1. PICK n \in 2 .. MaxSlots : fifo \in FifosOf(n, Values)
  BY FifoIsRing
<1>2. n \in Nat \ {0}
  BY SlotsAssumption
<1>3. [fifo EXCEPT !.r = fifo.w] \in FifosOf(n, Values) /\ Contents([fifo EXCEPT !.r = fifo.w]) = << >>
  BY <1>1, <1>2, FlushEmpties
<1>4. fifo' \in FifosOf(n, Values) /\ UNCHANGED <<popped, pushed>>
  BY <1>3 DEF Flush
<1>5. TypeOK'
  BY <1>4, RingIsFifo DEF TypeOK
<1> QED
  BY <1>3, <1>4, <1>5 DEF Flush

(* The constructed queue (mutex_fifo::mutex_fifo).                          *)
LEMMA InitRing ==
  ASSUME Init
  PROVE  TypeOK /\ pushed /\ popped = Nil /\ Contents(fifo) = << >>
<1>1. PICK n \in InitialSlots : fifo = NewFifo(n, Nil)
  BY DEF Init
<1>2. n \in 2 .. MaxSlots /\ n \in Nat \ {0} /\ Nil \in Values
  BY SlotsAssumption DEF Values
<1>3. fifo \in FifosOf(n, Values) /\ Contents(fifo) = << >>
  BY <1>1, <1>2, NewFifoEmpty
<1> QED
  BY <1>2, <1>3, RingIsFifo DEF Init, TypeOK

(* Every state of the queue is well typed, however often it has grown: the  *)
(* indices stay within the slots of the moment (mutex_fifo).                *)
THEOREM TypeCorrect == Spec => []TypeOK
<1>1. Init => TypeOK
  BY InitRing
<1>2. TypeOK /\ [Next]_vars => TypeOK'
  <2> SUFFICES ASSUME TypeOK, [Next]_vars PROVE TypeOK'
    OBVIOUS
  <2>1. CASE UNCHANGED vars
    BY <2>1 DEF vars, TypeOK
  <2> QED
    BY <2>1, PushGrows, PopsOldest, FlushClears DEF Next
<1> QED
  BY <1>1, <1>2, PTL DEF Spec

(* No job is ever refused: open_async and close_async may ignore what       *)
(* emplace returns (mutex_fifo::emplace, play_handler).                     *)
THEOREM NeverRefuses == Spec => []PushSucceeds
<1>1. Init => PushSucceeds
  BY InitRing DEF PushSucceeds
<1>2. TypeOK /\ PushSucceeds /\ [Next]_vars => PushSucceeds'
  <2> SUFFICES ASSUME TypeOK, PushSucceeds, [Next]_vars PROVE PushSucceeds'
    OBVIOUS
  <2>1. CASE UNCHANGED vars
    BY <2>1 DEF vars, PushSucceeds
  <2> QED
    BY <2>1, PushGrows, PopsOldest, FlushClears DEF Next, PushSucceeds
<1> QED
  BY <1>1, <1>2, TypeCorrect, PTL DEF Spec

(* The queue of jobs is a first-in first-out queue for any sizes and any    *)
(* number of growths: none loses, duplicates or reorders a job              *)
(* (mutex_fifo::push, srsw_fifo::resize_queue).                             *)
THEOREM RefinesFifo == Spec => ImplementsFifo
<1>1. Init => Abstract!Init
  BY InitRing DEF Abstract!Init
<1>2. TypeOK /\ [Next]_vars => [Abstract!Next]_<<Contents(fifo), popped>>
  <2> SUFFICES ASSUME TypeOK, [Next]_vars
               PROVE  [Abstract!Next]_<<Contents(fifo), popped>>
    OBVIOUS
  <2>1. ASSUME NEW v \in Elems, PushElem(v)
        PROVE  Abstract!Enqueue(v)
    <3>1. popped' = popped
      BY <2>1 DEF PushElem
    <3> QED
      BY <2>1, <3>1, PushGrows DEF Abstract!Enqueue
  <2>2. CASE PopFront
    BY <2>2, PopsOldest DEF Abstract!Next, Abstract!Take
  <2>3. CASE Pop
    BY <2>3, PopsOldest DEF Abstract!Next, Abstract!Drop
  <2>4. CASE Flush
    BY <2>4, FlushClears DEF Abstract!Next, Abstract!Clear
  <2>5. CASE UNCHANGED vars
    BY <2>5 DEF vars
  <2> QED
    BY <2>1, <2>2, <2>3, <2>4, <2>5 DEF Next, Abstract!Next
<1> QED
  BY <1>1, <1>2, TypeCorrect, PTL DEF Spec, ImplementsFifo, Abstract!Spec

(* What the queue holds are elements that were pushed, never a default      *)
(* constructed or a moved-from one (mutex_fifo, srsw_fifo::resize_queue).   *)
LEMMA HoldsElements == Spec => [](Contents(fifo) \in Seq(Elems))
<1> DEFINE Held == Contents(fifo) \in Seq(Elems)
<1>1. Init => Held
  BY InitRing
<1>2. TypeOK /\ Held /\ [Next]_vars => Held'
  <2> SUFFICES ASSUME TypeOK, Held, [Next]_vars PROVE Held'
    OBVIOUS
  <2>1. ASSUME NEW v \in Elems, PushElem(v)
        PROVE  Held'
    BY <2>1, PushGrows, AppendProperties
  <2>2. CASE PopFront \/ Pop
    BY <2>2, PopsOldest, HeadTailProperties
  <2>3. CASE Flush
    BY <2>3, FlushClears
  <2>4. CASE UNCHANGED vars
    BY <2>4 DEF vars
  <2> QED
    BY <2>1, <2>2, <2>3, <2>4 DEF Next
<1> QED
  BY <1>1, <1>2, TypeCorrect, PTL DEF Spec

(* Whoever pops a job gets one that was pushed: the play handler never runs *)
(* a moved-from one (mutex_fifo::pop_front, play_handler_thread).           *)
THEOREM PopsElements == Spec => [][PopFront => popped' \in Elems]_vars
<1>1. TypeOK /\ Contents(fifo) \in Seq(Elems) /\ [Next]_vars
        => [PopFront => popped' \in Elems]_vars
  <2> SUFFICES ASSUME TypeOK, Contents(fifo) \in Seq(Elems), PopFront
               PROVE  popped' \in Elems
    OBVIOUS
  <2> QED
    BY PopsOldest, HeadTailProperties
<1> QED
  BY <1>1, TypeCorrect, HoldsElements, PTL DEF Spec
=============================================================================
