------------------------------ MODULE SrswFifo ------------------------------
(***************************************************************************)
(* lue::srsw_fifo, the lockless single reader, single writer fifo that     *)
(* carries packets and subtitles between the threads of the player         *)
(* (cul/luepp/lue/concurrent/srsw_fifo.hpp).                               *)
(*                                                                         *)
(* The indices are sequentially consistent atomics and the slots are plain *)
(* memory, so every atomic load or store that another thread can see and   *)
(* every slot access is a step of its own.  The class is written for ONE   *)
(* reader; the set Readers is a parameter because the player hands its     *)
(* subtitles queue to two threads that pop it.                             *)
(***************************************************************************)
EXTENDS RingOps, FiniteSets

CONSTANTS Elems,       \* the values pushed
          Readers,     \* the threads that pop; the class is made for one
          BufferSize,  \* slots of m_queue, capacity()
          Nil          \* a default constructed or moved-from slot

ASSUME BufferSizeAssumption == BufferSize \in Nat \ {0}
ASSUME NilAssumption == Nil \notin Elems

VARIABLES
    m_queue, m_write_index, m_read_index,  \* the members of the class
    w_pc,           \* where the writer is: idle, check, store or publish
    w_write_index,  \* push's local write_index
    w_elem,         \* push's argument
    w_room,         \* full() returned false and nothing was pushed since
    r_pc,           \* where each reader is
    r_index,        \* the value of m_read_index pop() is about to replace
    r_left,         \* flush's elements_to_pop
    r_flushing,     \* the reader is inside flush()
    r_elem          \* the element front() gave it last

fifoVars   == <<m_queue, m_write_index, m_read_index>>
writerVars == <<w_pc, w_write_index, w_elem, w_room>>
readerVars == <<r_pc, r_index, r_left, r_flushing, r_elem>>
vars == <<fifoVars, writerVars, readerVars>>

Slots == 0 .. BufferSize - 1

WriterPcs == {"idle", "check", "store", "publish"}
ReaderPcs == {"idle", "front", "pop", "load", "advance", "flush"}

TypeOK ==
    /\ m_queue \in [Slots -> Elems \cup {Nil}]
    /\ m_write_index \in Slots
    /\ m_read_index \in Slots
    /\ w_pc \in WriterPcs
    /\ w_write_index \in Slots
    /\ w_elem \in Elems \cup {Nil}
    /\ w_room \in BOOLEAN
    /\ r_pc \in [Readers -> ReaderPcs]
    /\ r_index \in [Readers -> Slots]
    /\ r_left \in [Readers -> Slots]
    /\ r_flushing \in [Readers -> BOOLEAN]
    /\ r_elem \in [Readers -> Elems \cup {Nil}]

Init ==
    /\ m_queue = [k \in Slots |-> Nil]
    /\ m_write_index = 0
    /\ m_read_index = 0
    /\ w_pc = "idle" /\ w_write_index = 0 /\ w_elem = Nil /\ w_room = FALSE
    /\ r_pc = [t \in Readers |-> "idle"]
    /\ r_index = [t \in Readers |-> 0]
    /\ r_left = [t \in Readers |-> 0]
    /\ r_flushing = [t \in Readers |-> FALSE]
    /\ r_elem = [t \in Readers |-> Nil]

Empty == m_write_index = m_read_index

-----------------------------------------------------------------------------
(* The writer: full(), and push or emplace in its four steps. *)

(* Mutant: the indices are compared without the free slot. *)
FullCheckNoFreeSlot ==
    /\ w_pc = "idle"
    /\ w_room' = (m_write_index # m_read_index)
    /\ UNCHANGED <<fifoVars, w_pc, w_write_index, w_elem, readerVars>>

FullCheck ==
    /\ w_pc = "idle"
    /\ w_room' = ~IsFull(m_read_index, m_write_index, BufferSize)
    /\ UNCHANGED <<fifoVars, w_pc, w_write_index, w_elem, readerVars>>

PushBegin(v) ==
    /\ w_pc = "idle"
    /\ w_write_index' = m_write_index
    /\ w_elem' = v
    /\ w_pc' = "check"
    /\ UNCHANGED <<fifoVars, w_room, readerVars>>

(* Mutant: push never finds the fifo full. *)
PushCheckNeverFull ==
    /\ w_pc = "check"
    /\ w_pc' = "store"
    /\ UNCHANGED <<fifoVars, w_write_index, w_elem, w_room, readerVars>>

PushCheck ==
    /\ w_pc = "check"
    /\ IF IncIndex(w_write_index, BufferSize) # m_read_index
       THEN w_pc' = "store" /\ UNCHANGED w_room
       ELSE w_pc' = "idle" /\ w_room' = FALSE
    /\ UNCHANGED <<fifoVars, w_write_index, w_elem, readerVars>>

PushStore ==
    /\ w_pc = "store"
    /\ m_queue' = [m_queue EXCEPT ![w_write_index] = w_elem]
    /\ w_pc' = "publish"
    /\ UNCHANGED <<m_write_index, m_read_index, w_write_index, w_elem, w_room, readerVars>>

PushPublish ==
    /\ w_pc = "publish"
    /\ m_write_index' = IncIndex(w_write_index, BufferSize)
    /\ w_pc' = "idle"
    /\ w_room' = FALSE
    /\ UNCHANGED <<m_queue, m_read_index, w_write_index, w_elem, readerVars>>

Writer == FullCheck \/ (\E v \in Elems : PushBegin(v)) \/ PushCheck \/ PushStore \/ PushPublish

-----------------------------------------------------------------------------
(***************************************************************************)
(* A reader.  Its callers test empty() before they use front(), so a       *)
(* reader reaches "front" through EmptyCheck; it may look at the front     *)
(* (Peek), move it out (Take), and then pop().                             *)
(***************************************************************************)
EmptyCheck(t) ==
    /\ r_pc[t] = "idle"
    /\ ~Empty
    /\ r_pc' = [r_pc EXCEPT ![t] = "front"]
    /\ UNCHANGED <<fifoVars, writerVars, r_index, r_left, r_flushing, r_elem>>

Peek(t) ==
    /\ r_pc[t] = "front"
    /\ r_elem' = [r_elem EXCEPT ![t] = m_queue[m_read_index]]
    /\ \E pc \in {"idle", "front", "pop"} : r_pc' = [r_pc EXCEPT ![t] = pc]
    /\ UNCHANGED <<fifoVars, writerVars, r_index, r_left, r_flushing>>

Take(t) ==
    /\ r_pc[t] = "front"
    /\ r_elem' = [r_elem EXCEPT ![t] = m_queue[m_read_index]]
    /\ m_queue' = [m_queue EXCEPT ![m_read_index] = Nil]
    /\ r_pc' = [r_pc EXCEPT ![t] = "pop"]
    /\ UNCHANGED <<m_write_index, m_read_index, writerVars, r_index, r_left, r_flushing>>

(* Where a reader goes when pop() returns. *)
AfterPop(t) == IF r_flushing[t] THEN "flush" ELSE "idle"

PopCheck(t) ==
    /\ r_pc[t] = "pop"
    /\ r_pc' = [r_pc EXCEPT ![t] = IF Empty THEN AfterPop(t) ELSE "load"]
    /\ UNCHANGED <<fifoVars, writerVars, r_index, r_left, r_flushing, r_elem>>

PopLoad(t) ==
    /\ r_pc[t] = "load"
    /\ r_index' = [r_index EXCEPT ![t] = m_read_index]
    /\ r_pc' = [r_pc EXCEPT ![t] = "advance"]
    /\ UNCHANGED <<fifoVars, writerVars, r_left, r_flushing, r_elem>>

(* Mutant: the read index stays where it was. *)
PopAdvanceNoIncrement(t) ==
    /\ r_pc[t] = "advance"
    /\ m_read_index' = r_index[t]
    /\ r_pc' = [r_pc EXCEPT ![t] = AfterPop(t)]
    /\ UNCHANGED <<m_queue, m_write_index, writerVars, r_index, r_left, r_flushing, r_elem>>

PopAdvance(t) ==
    /\ r_pc[t] = "advance"
    /\ m_read_index' = IncIndex(r_index[t], BufferSize)
    /\ r_pc' = [r_pc EXCEPT ![t] = AfterPop(t)]
    /\ UNCHANGED <<m_queue, m_write_index, writerVars, r_index, r_left, r_flushing, r_elem>>

(* flush(): at most as many pops as there were elements when it began. *)
FlushBegin(t) ==
    /\ r_pc[t] = "idle"
    /\ r_left' = [r_left EXCEPT ![t] = SizeOf(m_read_index, m_write_index, BufferSize)]
    /\ r_flushing' = [r_flushing EXCEPT ![t] = TRUE]
    /\ r_pc' = [r_pc EXCEPT ![t] = "flush"]
    /\ UNCHANGED <<fifoVars, writerVars, r_index, r_elem>>

(* Mutant: flush pops until the fifo is empty. *)
FlushPopUncounted(t) ==
    /\ r_pc[t] = "flush"
    /\ ~Empty /\ r_left[t] > 0
    /\ r_pc' = [r_pc EXCEPT ![t] = "pop"]
    /\ UNCHANGED <<fifoVars, writerVars, r_index, r_left, r_flushing, r_elem>>

FlushPop(t) ==
    /\ r_pc[t] = "flush"
    /\ ~Empty /\ r_left[t] > 0
    /\ r_left' = [r_left EXCEPT ![t] = @ - 1]
    /\ r_pc' = [r_pc EXCEPT ![t] = "pop"]
    /\ UNCHANGED <<fifoVars, writerVars, r_index, r_flushing, r_elem>>

FlushEnd(t) ==
    /\ r_pc[t] = "flush"
    /\ Empty \/ r_left[t] = 0
    /\ r_left' = [r_left EXCEPT ![t] = 0]
    /\ r_flushing' = [r_flushing EXCEPT ![t] = FALSE]
    /\ r_pc' = [r_pc EXCEPT ![t] = "idle"]
    /\ UNCHANGED <<fifoVars, writerVars, r_index, r_elem>>

Reader(t) ==
    \/ EmptyCheck(t) \/ Peek(t) \/ Take(t)
    \/ PopCheck(t) \/ PopLoad(t) \/ PopAdvance(t)
    \/ FlushBegin(t) \/ FlushPop(t) \/ FlushEnd(t)

-----------------------------------------------------------------------------
Next == Writer \/ \E t \in Readers : Reader(t)

Spec == Init /\ [][Next]_vars

(* The steps of a call that has begun; a thread in the middle of one runs on. *)
InsideCall(t) ==
    \/ Take(t) \/ PopCheck(t) \/ PopLoad(t) \/ PopAdvance(t) \/ FlushPop(t) \/ FlushEnd(t)

FairSpec == Spec /\ \A t \in Readers : WF_vars(InsideCall(t))

-----------------------------------------------------------------------------
(* Properties *)

(* The slots are not atomic: no reader is about to access the slot that     *)
(* push is about to overwrite (srsw_fifo.hpp push, front).                  *)
NoDataRace ==
    \A t \in Readers : ~(w_pc = "store" /\ r_pc[t] = "front" /\ w_write_index = m_read_index)

(* A caller of front() that saw empty() return false gets an element that   *)
(* was pushed, never a default constructed or a moved-from one.             *)
FrontIsElement ==
    \A t \in Readers : r_pc[t] = "front" => m_queue[m_read_index] \in Elems

(* After full() returned false the writer's next push cannot fail, whatever *)
(* the reader does in between; read_packet_to_queue ignores push's result.  *)
PushAfterRoomSucceeds ==
    w_pc = "check" /\ w_room => IncIndex(w_write_index, BufferSize) # m_read_index

(* flush() returns even if the writer never stops pushing: that is what its *)
(* elements_to_pop count is for.                                            *)
FlushTerminates ==
    \A t \in Readers : r_flushing[t] ~> ~r_flushing[t]

(* The elements in the fifo, without a front that was moved out but not     *)
(* popped yet.                                                              *)
Held ==
    LET slots == SlotSeq(m_queue, m_read_index, m_write_index, BufferSize)
    IN  IF slots # << >> /\ Head(slots) = Nil THEN Tail(slots) ELSE slots

TheReader == CHOOSE t \in Readers : TRUE

Abstract == INSTANCE Fifo
    WITH Capacity <- BufferSize - 1, q <- Held, out <- r_elem[TheReader]

(* With one reader the lockless ring is a bounded first-in first-out queue: *)
(* nothing is lost, duplicated, reordered or read before it is published.   *)
ImplementsFifo == Abstract!Spec

-----------------------------------------------------------------------------
(***************************************************************************)
(* The inductive invariant behind the safety properties, for one reader.   *)
(***************************************************************************)

(* Slot k holds an element: it lies from the read index up to the write     *)
(* index.                                                                   *)
Occupied(k) ==
    IF m_read_index <= m_write_index
    THEN m_read_index <= k /\ k < m_write_index
    ELSE m_read_index <= k \/ k < m_write_index

(* A reader between its empty() test and its store of m_read_index.         *)
Consuming(t) == r_pc[t] \in {"front", "pop", "load", "advance"}

(* The writer's local index is the published one; past PushCheck, and after *)
(* full() said no, there is a free slot behind it.                          *)
WriterInv ==
    /\ w_pc # "idle" => w_write_index = m_write_index /\ w_elem \in Elems
    /\ w_pc \in {"store", "publish"} => IncIndex(m_write_index, BufferSize) # m_read_index
    /\ w_pc \in {"idle", "check"} /\ w_room => IncIndex(m_write_index, BufferSize) # m_read_index
    /\ w_pc = "publish" => m_queue[m_write_index] = w_elem

(* A consuming reader finds the fifo non-empty, and advances from where the *)
(* read index is.                                                           *)
ReaderInv ==
    \A t \in Readers :
        /\ Consuming(t) => ~Empty
        /\ r_pc[t] = "advance" => r_index[t] = m_read_index

(* Every occupied slot holds an element, except the front that a reader has *)
(* moved out and not popped yet.                                            *)
SlotsInv ==
    \A k \in Slots : Occupied(k) =>
        \/ m_queue[k] \in Elems
        \/ k = m_read_index /\ \E t \in Readers : r_pc[t] \in {"pop", "load", "advance"}

SafetyInv == TypeOK /\ WriterInv /\ ReaderInv /\ SlotsInv
=============================================================================
