-------------------------- MODULE SrswFifo_proofs --------------------------
(***************************************************************************)
(* Proofs about SrswFifo, for every buffer size, every set of elements and *)
(* every behaviour: type correctness with any number of readers, the       *)
(* safety of the slots with at most one, and that with one reader it       *)
(* implements the bounded queue of Fifo.                                   *)
(***************************************************************************)
EXTENDS SrswFifo, RingOps_proofs

-----------------------------------------------------------------------------
(* The ring lemmas for this buffer *)

(* What a slot can hold, and the values of m_queue. *)
Values == Elems \cup {Nil}
Queues == Rings(BufferSize, Values)

(* The slot after the last one is slot 0; otherwise it is the next number   *)
(* (srsw_fifo::incIndex).                                                   *)
LEMMA IncIndexValue ==
  ASSUME NEW i \in Slots
  PROVE  IncIndex(i, BufferSize) = IF i = BufferSize - 1 THEN 0 ELSE i + 1
BY IncIndexInRing, BufferSizeAssumption DEF Slots, SlotsOf

(* Incrementing stays among the slots and never merges two of them, so the  *)
(* two indices of the ring can only meet by catching up with each other.    *)
LEMMA IncIndexInjective ==
  ASSUME NEW i \in Slots, NEW j \in Slots
  PROVE  /\ IncIndex(i, BufferSize) \in Slots
         /\ IncIndex(i, BufferSize) = IncIndex(j, BufferSize) => i = j
BY IncIndexInjectiveInRing, BufferSizeAssumption DEF Slots, SlotsOf

(* What size() returns is less than the number of slots (srsw_fifo::size).  *)
LEMMA SizeOfSlots ==
  ASSUME NEW r \in Slots, NEW w \in Slots
  PROVE  SizeOf(r, w, BufferSize) \in Slots
BY SizeInRing, BufferSizeAssumption DEF Slots, SlotsOf

(* The slots from the read to the write index are a sequence as long as     *)
(* size() says.                                                             *)
LEMMA RingSeq ==
  ASSUME NEW queue \in Queues, NEW r \in Slots, NEW w \in Slots
  PROVE  /\ SlotSeq(queue, r, w, BufferSize) \in Seq(Values)
         /\ Len(SlotSeq(queue, r, w, BufferSize)) = SizeOf(r, w, BufferSize)
         /\ SizeOf(r, w, BufferSize) \in Slots
         /\ \A k \in 1 .. SizeOf(r, w, BufferSize) :
              /\ (r + k - 1) % BufferSize \in Slots
              /\ SlotSeq(queue, r, w, BufferSize)[k] = queue[(r + k - 1) % BufferSize]
BY SeqInRing, BufferSizeAssumption DEF Queues, Slots, SlotsOf

(* push: moving the write index over the slot it just filled appends that   *)
(* slot, and there was room for it (srsw_fifo::push).                       *)
LEMMA RingPush ==
  ASSUME NEW queue \in Queues, NEW r \in Slots, NEW w \in Slots,
         IncIndex(w, BufferSize) # r
  PROVE  /\ SizeOf(r, w, BufferSize) < BufferSize - 1
         /\ SlotSeq(queue, r, IncIndex(w, BufferSize), BufferSize)
              = Append(SlotSeq(queue, r, w, BufferSize), queue[w])
BY PushInRing, BufferSizeAssumption DEF Queues, Slots, SlotsOf

(* pop: moving the read index drops the oldest element, the one front()     *)
(* shows (srsw_fifo::pop, front).                                           *)
LEMMA RingPop ==
  ASSUME NEW queue \in Queues, NEW r \in Slots, NEW w \in Slots,
         r # w
  PROVE  /\ SlotSeq(queue, r, w, BufferSize) # << >>
         /\ Head(SlotSeq(queue, r, w, BufferSize)) = queue[r]
         /\ SlotSeq(queue, IncIndex(r, BufferSize), w, BufferSize)
              = Tail(SlotSeq(queue, r, w, BufferSize))
BY PopInRing, BufferSizeAssumption DEF Queues, Slots, SlotsOf

(* push's store before it publishes the index changes nothing that is held  *)
(* (srsw_fifo::push).                                                       *)
LEMMA RingStore ==
  ASSUME NEW queue \in Queues, NEW r \in Slots, NEW w \in Slots, NEW e \in Values
  PROVE  SlotSeq([queue EXCEPT ![w] = e], r, w, BufferSize) = SlotSeq(queue, r, w, BufferSize)
BY StoreInRing, BufferSizeAssumption DEF Queues, Slots, SlotsOf

(* Moving the front out leaves the rest of what is held (the callers of     *)
(* srsw_fifo::front).                                                       *)
LEMMA RingTake ==
  ASSUME NEW queue \in Queues, NEW stored \in Queues, NEW r \in Slots, NEW w \in Slots,
         r # w, \A k \in Slots \ {r} : stored[k] = queue[k]
  PROVE  /\ SlotSeq(stored, r, w, BufferSize) # << >>
         /\ Head(SlotSeq(stored, r, w, BufferSize)) = stored[r]
         /\ Tail(SlotSeq(stored, r, w, BufferSize))
              = Tail(SlotSeq(queue, r, w, BufferSize))
BY TakeInRing, BufferSizeAssumption DEF Queues, Slots, SlotsOf

-----------------------------------------------------------------------------
(* Type correctness *)

(* The constructed fifo is type correct (srsw_fifo::srsw_fifo).             *)
LEMMA InitTypeOK == Init => TypeOK
<1>1. 0 \in Slots
  BY BufferSizeAssumption DEF Slots
<1> QED
  BY <1>1 DEF Init, TypeOK, WriterPcs, ReaderPcs

(* No step of the writer or of a reader leaves the types: the indices stay  *)
(* among the slots (srsw_fifo::push, pop, flush).                           *)
LEMMA NextTypeOK == TypeOK /\ [Next]_vars => TypeOK'
<1> SUFFICES ASSUME TypeOK, [Next]_vars
             PROVE  TypeOK'
  OBVIOUS
<1> USE DEF fifoVars, writerVars, readerVars
<1>1. CASE UNCHANGED vars
  BY <1>1 DEF TypeOK, vars
<1>2. CASE Writer
  <2>1. CASE FullCheck
    BY <2>1 DEF TypeOK, FullCheck
  <2>2. ASSUME NEW v \in Elems, PushBegin(v)
        PROVE  TypeOK'
    BY <2>2 DEF TypeOK, PushBegin, WriterPcs
  <2>3. CASE PushCheck
    BY <2>3 DEF TypeOK, PushCheck, WriterPcs
  <2>4. CASE PushStore
    BY <2>4 DEF TypeOK, PushStore, WriterPcs
  <2>5. CASE PushPublish
    <3>1. m_write_index' \in Slots
      BY <2>5, IncIndexInjective DEF TypeOK, PushPublish
    <3> QED
      BY <2>5, <3>1 DEF TypeOK, PushPublish, WriterPcs
  <2> QED
    BY <1>2, <2>1, <2>2, <2>3, <2>4, <2>5 DEF Writer
<1>3. ASSUME NEW t \in Readers, Reader(t)
      PROVE  TypeOK'
  <2>1. CASE EmptyCheck(t)
    BY <2>1 DEF TypeOK, EmptyCheck, ReaderPcs
  <2>2. CASE Peek(t)
    <3>1. m_queue[m_read_index] \in Elems \cup {Nil}
      BY DEF TypeOK
    <3> QED
      BY <2>2, <3>1 DEF TypeOK, Peek, ReaderPcs
  <2>3. CASE Take(t)
    <3>1. m_queue[m_read_index] \in Elems \cup {Nil}
      BY DEF TypeOK
    <3> QED
      BY <2>3, <3>1 DEF TypeOK, Take, ReaderPcs
  <2>4. CASE PopCheck(t)
    BY <2>4 DEF TypeOK, PopCheck, AfterPop, ReaderPcs
  <2>5. CASE PopLoad(t)
    BY <2>5 DEF TypeOK, PopLoad, ReaderPcs
  <2>6. CASE PopAdvance(t)
    <3>1. m_read_index' \in Slots
      BY <2>6, IncIndexInjective DEF TypeOK, PopAdvance
    <3> QED
      BY <2>6, <3>1 DEF TypeOK, PopAdvance, AfterPop, ReaderPcs
  <2>7. CASE FlushBegin(t)
    <3>1. SizeOf(m_read_index, m_write_index, BufferSize) \in Slots
      BY SizeOfSlots DEF TypeOK
    <3> QED
      BY <2>7, <3>1 DEF TypeOK, FlushBegin, ReaderPcs
  <2>8. CASE FlushPop(t)
    <3>1. r_left[t] - 1 \in Slots
      BY <2>8, BufferSizeAssumption DEF TypeOK, FlushPop, Slots
    <3> QED
      BY <2>8, <3>1 DEF TypeOK, FlushPop, ReaderPcs
  <2>9. CASE FlushEnd(t)
    <3>1. 0 \in Slots
      BY BufferSizeAssumption DEF Slots
    <3> QED
      BY <2>9, <3>1 DEF TypeOK, FlushEnd, ReaderPcs
  <2> QED
    BY <1>3, <2>1, <2>2, <2>3, <2>4, <2>5, <2>6, <2>7, <2>8, <2>9 DEF Reader
<1> QED
  BY <1>1, <1>2, <1>3 DEF Next

(* The indices, locals and slots of the fifo keep their types however many  *)
(* threads pop it.                                                          *)
THEOREM TypeCorrect == Spec => []TypeOK
<1>1. Init => TypeOK
  BY InitTypeOK
<1>2. TypeOK /\ [Next]_vars => TypeOK'
  BY NextTypeOK
<1> QED
  BY <1>1, <1>2, PTL DEF Spec

-----------------------------------------------------------------------------
(* The slots, with one reader *)

(* The assumption of the class: at most one thread pops. *)
SingleReader == \A t, u \in Readers : t = u

(* The constructed, empty fifo satisfies the inductive invariant            *)
(* (srsw_fifo::srsw_fifo).                                                  *)
LEMMA InitSafety == Init => SafetyInv
BY InitTypeOK, BufferSizeAssumption
DEF SafetyInv, Init, WriterInv, ReaderInv, SlotsInv, Consuming, Occupied, Slots

(* full() and push keep the invariant: the free slot that the check found   *)
(* stays free until the index is published (srsw_fifo::full, push).         *)
LEMMA WriterSafety == SafetyInv /\ Writer => SafetyInv'
<1> SUFFICES ASSUME SafetyInv, Writer
             PROVE  SafetyInv'
  OBVIOUS
<1>1. TypeOK'
  BY NextTypeOK DEF SafetyInv, Next
<1> USE DEF readerVars
<1>2. CASE FullCheck
  BY <1>1, <1>2
  DEF FullCheck, fifoVars, SafetyInv, WriterInv, ReaderInv, SlotsInv, Consuming, Occupied, Empty, IsFull
<1>3. ASSUME NEW v \in Elems, PushBegin(v)
      PROVE  SafetyInv'
  BY <1>1, <1>3
  DEF PushBegin, fifoVars, SafetyInv, WriterInv, ReaderInv, SlotsInv, Consuming, Occupied, Empty
<1>4. CASE PushCheck
  BY <1>1, <1>4
  DEF PushCheck, fifoVars, SafetyInv, TypeOK, WriterInv, ReaderInv, SlotsInv, Consuming, Occupied, Empty
<1>5. CASE PushStore
  <2>1. m_queue' = [m_queue EXCEPT ![m_write_index] = w_elem] /\ w_elem \in Elems
    BY <1>5 DEF PushStore, SafetyInv, WriterInv
  <2>2. WriterInv' /\ ReaderInv'
    BY <1>5, <2>1 DEF PushStore, SafetyInv, TypeOK, WriterInv, ReaderInv, Consuming, Empty
  <2>3. SlotsInv'
    BY <1>5, <2>1 DEF PushStore, SafetyInv, TypeOK, SlotsInv, Occupied, Slots
  <2> QED
    BY <1>1, <2>2, <2>3 DEF SafetyInv
<1>6. CASE PushPublish
  <2> DEFINE w == m_write_index
             r == m_read_index
  <2>1. w \in Slots /\ r \in Slots /\ w' = IncIndex(w, BufferSize) /\ r' = r /\ w' # r
    BY <1>6 DEF PushPublish, SafetyInv, TypeOK, WriterInv
  <2>2. WriterInv' /\ ReaderInv'
    BY <1>6, <2>1 DEF PushPublish, SafetyInv, WriterInv, ReaderInv, Consuming, Empty
  <2>3. m_queue' = m_queue /\ m_queue[w] \in Elems
    BY <1>6 DEF PushPublish, SafetyInv, WriterInv
  <2>4. w' = IF w = BufferSize - 1 THEN 0 ELSE w + 1
    BY <2>1, IncIndexValue
  <2>5. \A k \in Slots : Occupied(k)' => Occupied(k) \/ k = w
    BY <2>1, <2>4, BufferSizeAssumption DEF Occupied, Slots
  <2>6. SlotsInv'
    BY <1>6, <2>1, <2>3, <2>5 DEF PushPublish, SafetyInv, SlotsInv
  <2> QED
    BY <1>1, <2>2, <2>6 DEF SafetyInv
<1> QED
  BY <1>2, <1>3, <1>4, <1>5, <1>6 DEF Writer

(* With one reader empty(), front(), pop() and flush() keep the invariant:  *)
(* nobody else moves the read index between the test and the advance        *)
(* (srsw_fifo::empty, front, pop, flush).                                   *)
LEMMA ReaderSafety ==
  ASSUME SingleReader, NEW t \in Readers, SafetyInv, Reader(t)
  PROVE  SafetyInv'
<1>1. TypeOK'
  BY NextTypeOK DEF SafetyInv, Next
<1>2. \A u \in Readers : u = t
  BY DEF SingleReader
<1> USE DEF writerVars
<1>3. CASE EmptyCheck(t)
  BY <1>1, <1>2, <1>3
  DEF EmptyCheck, fifoVars, SafetyInv, TypeOK, WriterInv, ReaderInv, SlotsInv, Consuming, Occupied, Empty
<1>4. CASE Peek(t)
  BY <1>1, <1>2, <1>4
  DEF Peek, fifoVars, SafetyInv, TypeOK, WriterInv, ReaderInv, SlotsInv, Consuming, Occupied, Empty
<1>5. CASE Take(t)
  <2>1. m_read_index # m_write_index
    BY <1>5 DEF Take, SafetyInv, ReaderInv, Consuming, Empty
  <2>2. WriterInv'
    BY <1>5, <2>1 DEF Take, SafetyInv, TypeOK, WriterInv
  <2>3. ReaderInv'
    BY <1>2, <1>5 DEF Take, SafetyInv, TypeOK, ReaderInv, Consuming, Empty
  <2>4. r_pc'[t] = "pop"
    BY <1>5 DEF Take, SafetyInv, TypeOK
  <2>5. SlotsInv'
    BY <1>2, <1>5, <2>4 DEF Take, SafetyInv, TypeOK, SlotsInv, Occupied
  <2> QED
    BY <1>1, <2>2, <2>3, <2>5 DEF SafetyInv
<1>6. CASE PopCheck(t)
  <2>1. ~Empty /\ r_pc'[t] = "load"
    BY <1>6 DEF PopCheck, SafetyInv, TypeOK, ReaderInv, Consuming
  <2> QED
    BY <1>1, <1>2, <1>6, <2>1
    DEF PopCheck, fifoVars, SafetyInv, TypeOK, WriterInv, ReaderInv, SlotsInv, Consuming, Occupied, Empty
<1>7. CASE PopLoad(t)
  BY <1>1, <1>2, <1>7
  DEF PopLoad, fifoVars, SafetyInv, TypeOK, WriterInv, ReaderInv, SlotsInv, Consuming, Occupied, Empty
<1>8. CASE PopAdvance(t)
  <2> DEFINE w == m_write_index
             r == m_read_index
  <2>1. w \in Slots /\ r \in Slots /\ w # r /\ w' = w /\ r' = IncIndex(r, BufferSize)
    BY <1>8 DEF PopAdvance, SafetyInv, TypeOK, ReaderInv, Consuming, Empty
  <2>2. IncIndex(w, BufferSize) # r'
    BY <2>1, IncIndexInjective
  <2>3. WriterInv'
    BY <1>8, <2>1, <2>2 DEF PopAdvance, SafetyInv, WriterInv
  <2>4. r_pc'[t] \in {"idle", "flush"}
    BY <1>8 DEF PopAdvance, AfterPop, SafetyInv, TypeOK
  <2>5. ReaderInv'
    BY <1>2, <2>4 DEF ReaderInv, Consuming
  <2>6. r' = IF r = BufferSize - 1 THEN 0 ELSE r + 1
    BY <2>1, IncIndexValue
  <2>7. \A k \in Slots : Occupied(k)' => Occupied(k) /\ k # r
    BY <2>1, <2>6, BufferSizeAssumption DEF Occupied, Slots
  <2>8. SlotsInv'
    BY <1>8, <2>7 DEF PopAdvance, SafetyInv, SlotsInv
  <2> QED
    BY <1>1, <2>3, <2>5, <2>8 DEF SafetyInv
<1>9. CASE FlushBegin(t)
  BY <1>1, <1>2, <1>9
  DEF FlushBegin, fifoVars, SafetyInv, TypeOK, WriterInv, ReaderInv, SlotsInv, Consuming, Occupied, Empty
<1>10. CASE FlushPop(t)
  BY <1>1, <1>2, <1>10
  DEF FlushPop, fifoVars, SafetyInv, TypeOK, WriterInv, ReaderInv, SlotsInv, Consuming, Occupied, Empty
<1>11. CASE FlushEnd(t)
  BY <1>1, <1>2, <1>11
  DEF FlushEnd, fifoVars, SafetyInv, TypeOK, WriterInv, ReaderInv, SlotsInv, Consuming, Occupied, Empty
<1> QED
  BY <1>3, <1>4, <1>5, <1>6, <1>7, <1>8, <1>9, <1>10, <1>11 DEF Reader

(* Every step keeps the invariant (srsw_fifo).                              *)
LEMMA NextSafety ==
  ASSUME SingleReader
  PROVE  SafetyInv /\ [Next]_vars => SafetyInv'
<1>1. SafetyInv /\ Next => SafetyInv'
  BY WriterSafety, ReaderSafety DEF Next
<1>2. SafetyInv /\ UNCHANGED vars => SafetyInv'
  BY NextTypeOK
  DEF vars, fifoVars, writerVars, readerVars, SafetyInv, WriterInv, ReaderInv,
      SlotsInv, Consuming, Occupied, Empty
<1> QED
  BY <1>1, <1>2

(* The invariant implies the safety properties of the fifo                  *)
(* (srsw_fifo::push, front, full).                                          *)
LEMMA SafetyInvImplies ==
  ASSUME SingleReader
  PROVE  SafetyInv => NoDataRace /\ FrontIsElement /\ PushAfterRoomSucceeds
<1> SUFFICES ASSUME SafetyInv
             PROVE  NoDataRace /\ FrontIsElement /\ PushAfterRoomSucceeds
  OBVIOUS
<1>1. NoDataRace
  BY DEF SafetyInv, WriterInv, ReaderInv, NoDataRace, Consuming, Empty
<1>2. PushAfterRoomSucceeds
  BY DEF SafetyInv, WriterInv, PushAfterRoomSucceeds
<1>3. ASSUME NEW t \in Readers, r_pc[t] = "front"
      PROVE  m_queue[m_read_index] \in Elems
  <2>1. m_read_index \in Slots /\ m_write_index \in Slots
    BY DEF SafetyInv, TypeOK
  <2>2. m_read_index # m_write_index
    BY <1>3 DEF SafetyInv, ReaderInv, Consuming, Empty
  <2>3. Occupied(m_read_index)
    BY <2>1, <2>2, BufferSizeAssumption DEF Occupied, Slots
  <2>4. \A u \in Readers : r_pc[u] = "front"
    BY <1>3 DEF SingleReader
  <2> QED
    BY <2>1, <2>3, <2>4 DEF SafetyInv, SlotsInv
<1> QED
  BY <1>1, <1>2, <1>3 DEF FrontIsElement

(* With one reader: push never overwrites the slot a reader is about to     *)
(* access, front() after a negative empty() gives an element that was       *)
(* pushed, and push cannot fail after full() said there is room             *)
(* (srsw_fifo::push, front, full).                                          *)
THEOREM SlotsSafe ==
  ASSUME SingleReader
  PROVE  Spec => [](NoDataRace /\ FrontIsElement /\ PushAfterRoomSucceeds)
<1>1. Init => SafetyInv
  BY InitSafety
<1>2. SafetyInv /\ [Next]_vars => SafetyInv'
  BY NextSafety
<1>3. SafetyInv => NoDataRace /\ FrontIsElement /\ PushAfterRoomSucceeds
  BY SafetyInvImplies
<1> QED
  BY <1>1, <1>2, <1>3, PTL DEF Spec

(* With one reader: between full() returning false and the push that        *)
(* follows, the reader can only make more room, so the packet that          *)
(* read_packet_to_queue hands to push is never dropped (srsw_fifo::full,    *)
(* push).                                                                   *)
THEOREM RoomStays ==
  ASSUME SingleReader
  PROVE  Spec => []PushAfterRoomSucceeds
BY SlotsSafe, PTL

-----------------------------------------------------------------------------
(* The refinement *)

(* What lies between the indices. *)
Ring == SlotSeq(m_queue, m_read_index, m_write_index, BufferSize)

(* The ring as a sequence, and when its front was moved out. *)
LEMMA RingFacts ==
  ASSUME SafetyInv
  PROVE  /\ m_queue \in Queues /\ m_read_index \in Slots /\ m_write_index \in Slots
         /\ Ring \in Seq(Values)
         /\ Empty => Ring = << >>
         /\ ~Empty => Ring # << >> /\ Head(Ring) = m_queue[m_read_index]
<1>1. m_queue \in Queues /\ m_read_index \in Slots /\ m_write_index \in Slots
  BY DEF SafetyInv, TypeOK, Queues, Rings, SlotsOf, Slots, Values
<1>2. Ring \in Seq(Values) /\ Len(Ring) = SizeOf(m_read_index, m_write_index, BufferSize)
  BY <1>1, RingSeq DEF Ring
<1>3. Empty => Ring = << >>
  <2>1. Empty => Len(Ring) = 0
    BY <1>1, <1>2 DEF Empty, SizeOf, Slots
  <2> QED
    BY <1>2, <2>1
<1>4. ~Empty => Ring # << >> /\ Head(Ring) = m_queue[m_read_index]
  BY <1>1, RingPop DEF Ring, Empty
<1> QED
  BY <1>1, <1>2, <1>3, <1>4

(* Outside of pop() nothing is moved out: all of the ring is held. *)
LEMMA HeldIsRing ==
  ASSUME SafetyInv, \A t \in Readers : r_pc[t] \notin {"pop", "load", "advance"}
  PROVE  Held = Ring
<1>1. CASE Empty
  BY <1>1, RingFacts DEF Held, Ring
<1>2. CASE ~Empty
  <2>1. Occupied(m_read_index)
    BY <1>2, RingFacts, BufferSizeAssumption DEF Empty, Occupied, Slots
  <2>2. m_queue[m_read_index] \in Elems
    BY <2>1, RingFacts DEF SafetyInv, SlotsInv
  <2>3. Head(Ring) # Nil
    BY <1>2, <2>2, RingFacts, NilAssumption
  <2> QED
    BY <2>3 DEF Held, Ring
<1> QED
  BY <1>1, <1>2

(* A step of the writer is the queue's Enqueue (when push publishes) or     *)
(* invisible (srsw_fifo::push).                                             *)
LEMMA WriterRefines ==
  ASSUME SafetyInv, Writer
  PROVE  [Abstract!Next]_<<Held, r_elem[TheReader]>>
<1>1. CASE FullCheck \/ (\E v \in Elems : PushBegin(v)) \/ PushCheck
  BY <1>1 DEF FullCheck, PushBegin, PushCheck, fifoVars, readerVars, Held
<1>2. CASE PushStore
  <2>1. /\ m_queue' = [m_queue EXCEPT ![m_write_index] = w_elem] /\ w_elem \in Values
        /\ UNCHANGED <<m_read_index, m_write_index, r_elem>>
    BY <1>2 DEF PushStore, SafetyInv, WriterInv, Values, readerVars
  <2>2. Ring' = Ring
    BY <2>1, RingFacts, RingStore DEF Ring
  <2>3. Held' = Held
    BY <2>2 DEF Held, Ring
  <2> QED
    BY <2>1, <2>3
<1>3. CASE PushPublish
  <2>1. /\ m_write_index' = IncIndex(m_write_index, BufferSize)
        /\ m_queue[m_write_index] = w_elem /\ w_elem \in Elems
        /\ IncIndex(m_write_index, BufferSize) # m_read_index
        /\ UNCHANGED <<m_queue, m_read_index, r_elem>>
    BY <1>3 DEF PushPublish, SafetyInv, WriterInv, readerVars
  <2>2. /\ SizeOf(m_read_index, m_write_index, BufferSize) < BufferSize - 1
        /\ Ring' = Append(Ring, w_elem)
    BY <2>1, RingFacts, RingPush DEF Ring
  <2>3. Ring \in Seq(Values) /\ Len(Ring) = SizeOf(m_read_index, m_write_index, BufferSize)
    BY RingFacts, RingSeq DEF Ring
  <2>4. w_elem \in Values /\ w_elem # Nil
    BY <2>1, NilAssumption DEF Values
  <2>5. Ring' # << >>
    BY <2>2, <2>3, <2>4, AppendProperties
  <2>6. /\ Head(Ring') = IF Ring = << >> THEN w_elem ELSE Head(Ring)
        /\ Tail(Ring') = IF Ring = << >> THEN << >> ELSE Append(Tail(Ring), w_elem)
    BY <2>2, <2>3, <2>4, HeadTailAppend
  <2>7. Held' = Append(Held, w_elem)
    BY <2>2, <2>4, <2>5, <2>6 DEF Held, Ring
  <2>8. Len(Held) < BufferSize - 1
    <3>1. CASE Ring # << >> /\ Head(Ring) = Nil
      <4>1. Held = Tail(Ring) /\ Len(Tail(Ring)) = Len(Ring) - 1
        BY <3>1, <2>3, HeadTailProperties DEF Held, Ring
      <4>2. SizeOf(m_read_index, m_write_index, BufferSize) \in Slots
        BY RingFacts, SizeOfSlots
      <4> QED
        BY <4>1, <4>2, <2>2, <2>3, BufferSizeAssumption DEF Slots
    <3>2. CASE ~(Ring # << >> /\ Head(Ring) = Nil)
      <4>1. Held = Ring
        BY <3>2 DEF Held, Ring
      <4> QED
        BY <4>1, <2>2, <2>3
    <3> QED
      BY <3>1, <3>2
  <2> QED
    BY <2>1, <2>7, <2>8 DEF Abstract!Next, Abstract!Enqueue
<1> QED
  BY <1>1, <1>2, <1>3 DEF Writer

(* A step of the reader is the queue's Peek, Take or Drop, or invisible     *)
(* (srsw_fifo::front, pop, flush).                                          *)
LEMMA ReaderRefines ==
  ASSUME SingleReader, NEW t \in Readers, SafetyInv, SafetyInv', Reader(t)
  PROVE  [Abstract!Next]_<<Held, r_elem[TheReader]>>
<1>1. t = TheReader /\ \A u \in Readers : u = t
  BY DEF SingleReader, TheReader
<1>2. CASE \/ EmptyCheck(t) \/ PopCheck(t) \/ PopLoad(t)
           \/ FlushBegin(t) \/ FlushPop(t) \/ FlushEnd(t)
  BY <1>2 DEF EmptyCheck, PopCheck, PopLoad, FlushBegin, FlushPop, FlushEnd, fifoVars, Held
<1>3. CASE Peek(t)
  <2>1. ~Empty /\ r_pc[t] = "front"
    BY <1>3 DEF Peek, SafetyInv, ReaderInv, Consuming
  <2>2. Held = Ring /\ Ring # << >> /\ Head(Ring) = m_queue[m_read_index]
    BY <1>1, <2>1, HeldIsRing, RingFacts
  <2>3. Held' = Held /\ r_elem'[t] = m_queue[m_read_index]
    BY <1>3 DEF Peek, fifoVars, Held, SafetyInv, TypeOK
  <2> QED
    BY <1>1, <2>2, <2>3 DEF Abstract!Next, Abstract!Peek
<1>4. CASE Take(t)
  <2>1. ~Empty /\ r_pc[t] = "front"
    BY <1>4 DEF Take, SafetyInv, ReaderInv, Consuming
  <2>2. Held = Ring /\ Ring # << >> /\ Head(Ring) = m_queue[m_read_index]
    BY <1>1, <2>1, HeldIsRing, RingFacts
  <2>3. /\ m_queue' = [m_queue EXCEPT ![m_read_index] = Nil] /\ Nil \in Values
        /\ UNCHANGED <<m_read_index, m_write_index>>
        /\ r_elem'[t] = m_queue[m_read_index]
    BY <1>4 DEF Take, SafetyInv, TypeOK, Values
  <2>4. Ring' # << >> /\ Head(Ring') = Nil /\ Tail(Ring') = Tail(Ring)
    <3> DEFINE taken == m_queue'
    <3>1. Ring' = SlotSeq(taken, m_read_index, m_write_index, BufferSize)
      BY <2>3 DEF Ring
    <3>2. m_queue \in Queues /\ m_read_index \in Slots /\ m_write_index \in Slots
      BY RingFacts
    <3>3. taken \in Queues /\ taken[m_read_index] = Nil
          /\ \A k \in Slots \ {m_read_index} : taken[k] = m_queue[k]
      BY <2>3, <3>2 DEF Queues, Rings, SlotsOf, Slots
    <3>4. m_read_index # m_write_index
      BY <2>1 DEF Empty
    <3> HIDE DEF taken
    <3> QED
      BY <3>1, <3>2, <3>3, <3>4, RingTake DEF Ring
  <2>5. Held' = Tail(Held)
    BY <2>2, <2>4 DEF Held, Ring
  <2> QED
    BY <1>1, <2>2, <2>3, <2>5 DEF Abstract!Next, Abstract!Take
<1>5. CASE PopAdvance(t)
  <2>1. ~Empty /\ r_index[t] = m_read_index
    BY <1>5 DEF PopAdvance, SafetyInv, ReaderInv, Consuming
  <2>a. /\ m_read_index' = IncIndex(m_read_index, BufferSize)
        /\ UNCHANGED <<m_queue, m_write_index, r_elem>>
    BY <1>5, <2>1 DEF PopAdvance
  <2>b. r_pc'[t] \in {"idle", "flush"}
    <3>1. r_pc' = [r_pc EXCEPT ![t] = AfterPop(t)] /\ r_pc \in [Readers -> ReaderPcs]
      BY <1>5 DEF PopAdvance, SafetyInv, TypeOK
    <3> QED
      BY <3>1 DEF AfterPop
  <2>2. Ring # << >> /\ Ring' = Tail(Ring)
    BY <2>1, <2>a, RingFacts, RingPop DEF Ring, Empty
  <2>3. Held' = Ring'
    <3>1. \A u \in Readers : r_pc'[u] \notin {"pop", "load", "advance"}
      BY <1>1, <2>b
    <3>2. CASE Empty'
      <4>1. m_queue' \in Queues /\ m_read_index' \in Slots /\ m_write_index' \in Slots
        BY DEF SafetyInv, TypeOK, Queues, Rings, SlotsOf, Slots, Values
      <4>2. Ring' \in Seq(Values) /\ Len(Ring') = SizeOf(m_read_index', m_write_index', BufferSize)
        BY <4>1, RingSeq DEF Ring
      <4>3. SizeOf(m_read_index', m_write_index', BufferSize) = 0
        <5>1. m_read_index' = m_write_index'
          BY <3>2 DEF Empty
        <5>2. \A i \in Slots : SizeOf(i, i, BufferSize) = 0
          BY BufferSizeAssumption DEF SizeOf, Slots
        <5> QED
          BY <4>1, <5>1, <5>2
      <4>4. Ring' = << >>
        BY <4>2, <4>3
      <4> QED
        BY <4>4 DEF Held, Ring
    <3>3. CASE ~Empty'
      <4>1. m_queue' \in Queues /\ m_read_index' \in Slots /\ m_write_index' \in Slots
        BY DEF SafetyInv, TypeOK, Queues, Rings, SlotsOf, Slots, Values
      <4>2. Head(Ring') = m_queue'[m_read_index']
        BY <3>3, <4>1, RingPop DEF Ring, Empty
      <4>3. Occupied(m_read_index)'
        BY <3>3, <4>1, BufferSizeAssumption DEF Empty, Occupied, Slots
      <4>4. m_queue'[m_read_index'] \in Elems
        BY <3>1, <4>1, <4>3 DEF SafetyInv, SlotsInv
      <4> QED
        BY <4>2, <4>4, NilAssumption DEF Held, Ring
    <3> QED
      BY <3>2, <3>3
  <2>4. CASE Head(Ring) = Nil
    <3>1. Held' = Held
      BY <2>2, <2>3, <2>4 DEF Held, Ring
    <3> QED
      BY <2>a, <3>1
  <2>5. CASE Head(Ring) # Nil
    <3>1. Held = Ring
      BY <2>5 DEF Held, Ring
    <3> QED
      BY <2>a, <2>2, <2>3, <3>1 DEF Abstract!Next, Abstract!Drop
  <2> QED
    BY <2>4, <2>5
<1> QED
  BY <1>2, <1>3, <1>4, <1>5 DEF Reader

(* With one reader the lockless ring implements the bounded first-in        *)
(* first-out queue of Fifo: push appends, front shows the oldest element,   *)
(* pop removes it, whatever the interleaving of the writer's and the        *)
(* reader's steps (srsw_fifo).                                              *)
THEOREM RefinesFifo ==
  ASSUME SingleReader, Readers # {}
  PROVE  Spec => ImplementsFifo
<1>1. Init => Abstract!Init
  <2> SUFFICES ASSUME Init
               PROVE  Abstract!Init
    OBVIOUS
  <2>1. SafetyInv
    BY InitSafety
  <2>2. Empty
    BY DEF Init, Empty
  <2>3. Held = << >>
    BY <2>1, <2>2, RingFacts DEF Held, Ring
  <2>4. TheReader \in Readers
    BY DEF TheReader
  <2>5. r_elem[TheReader] = Nil
    BY <2>4 DEF Init
  <2> QED
    BY <2>3, <2>5 DEF Abstract!Init
<1>2. SafetyInv /\ SafetyInv' /\ [Next]_vars => [Abstract!Next]_<<Held, r_elem[TheReader]>>
  <2> SUFFICES ASSUME SafetyInv, SafetyInv', [Next]_vars
               PROVE  [Abstract!Next]_<<Held, r_elem[TheReader]>>
    OBVIOUS
  <2>1. CASE Writer
    BY <2>1, WriterRefines
  <2>2. ASSUME NEW t \in Readers, Reader(t)
        PROVE  [Abstract!Next]_<<Held, r_elem[TheReader]>>
    BY <2>2, ReaderRefines
  <2>3. CASE UNCHANGED vars
    BY <2>3 DEF vars, fifoVars, readerVars, Held
  <2> QED
    BY <2>1, <2>2, <2>3 DEF Next
<1>3. Init => SafetyInv
  BY InitSafety
<1>4. SafetyInv /\ [Next]_vars => SafetyInv'
  BY NextSafety
<1> QED
  BY <1>1, <1>2, <1>3, <1>4, PTL DEF Spec, ImplementsFifo, Abstract!Spec
=============================================================================
