---------------------------- MODULE RingOps_proofs ----------------------------
(***************************************************************************)
(* Lemmas about RingOps, for rings of any number n of slots: where the     *)
(* indices go, and what push and pop do to the sequence of the elements    *)
(* between them.                                                           *)
(***************************************************************************)
EXTENDS RingOps, SequenceTheorems, FiniteSetTheorems, TLAPS

(* The slots of a ring of n slots, and the rings that hold members of V.    *)
SlotsOf(n)  == 0 .. n - 1
Rings(n, V) == [SlotsOf(n) -> V]

(* The slot after the last one is slot 0; otherwise it is the next number   *)
(* (srsw_fifo::incIndex).                                                   *)
LEMMA IncIndexInRing ==
  ASSUME NEW n \in Nat \ {0}, NEW i \in SlotsOf(n)
  PROVE  IncIndex(i, n) = IF i = n - 1 THEN 0 ELSE i + 1
<1>1. CASE i = n - 1
  <2>1. i + 1 = n
    BY <1>1
  <2>2. \A d \in Nat \ {0} : d % d = 0
    BY Z3
  <2> QED
    BY <1>1, <2>1, <2>2 DEF IncIndex
<1>2. CASE i # n - 1
  <2>1. i + 1 \in SlotsOf(n)
    BY <1>2 DEF SlotsOf
  <2>2. \A d \in Nat \ {0} : \A k \in 0 .. d - 1 : k % d = k
    BY Z3
  <2> QED
    BY <1>2, <2>1, <2>2 DEF IncIndex, SlotsOf
<1> QED
  BY <1>1, <1>2

(* Incrementing stays among the slots and never merges two of them, so the  *)
(* two indices of the ring can only meet by catching up with each other.    *)
LEMMA IncIndexInjectiveInRing ==
  ASSUME NEW n \in Nat \ {0}, NEW i \in SlotsOf(n), NEW j \in SlotsOf(n)
  PROVE  /\ IncIndex(i, n) \in SlotsOf(n)
         /\ IncIndex(i, n) = IncIndex(j, n) => i = j
BY IncIndexInRing DEF SlotsOf

(* What size() returns is less than the number of slots (srsw_fifo::size).  *)
LEMMA SizeInRing ==
  ASSUME NEW n \in Nat \ {0}, NEW r \in SlotsOf(n), NEW w \in SlotsOf(n)
  PROVE  SizeOf(r, w, n) \in SlotsOf(n)
BY DEF SizeOf, SlotsOf

(* The k-th slot from slot r on, without the modulus: it wraps at most once *)
(* (incIndex applied k-1 times).                                            *)
LEMMA SlotInRing ==
  ASSUME NEW n \in Nat \ {0}, NEW r \in SlotsOf(n), NEW k \in 1 .. n
  PROVE  (r + k - 1) % n =
            IF r + k - 1 < n THEN r + k - 1 ELSE r + k - 1 - n
<1>1. CASE r + k - 1 < n
  <2>1. \A d \in Nat \ {0} : \A j \in 0 .. d - 1 : j % d = j
    BY Z3
  <2> QED
    BY <1>1, <2>1 DEF SlotsOf
<1>2. CASE ~(r + k - 1 < n)
  <2>1. \A d \in Nat \ {0} : \A j \in d .. 2 * d - 1 : j % d = j - d
    BY Z3
  <2>2. r + k - 1 \in n .. 2 * n - 1
    BY <1>2 DEF SlotsOf
  <2> QED
    BY <1>2, <2>1, <2>2 DEF SlotsOf
<1> QED
  BY <1>1, <1>2

(* The slots from the read to the write index are a sequence as long as     *)
(* size() says.                                                             *)
LEMMA SeqInRing ==
  ASSUME NEW n \in Nat \ {0}, NEW V, NEW queue \in Rings(n, V),
         NEW r \in SlotsOf(n), NEW w \in SlotsOf(n)
  PROVE  /\ SlotSeq(queue, r, w, n) \in Seq(V)
         /\ Len(SlotSeq(queue, r, w, n)) = SizeOf(r, w, n)
         /\ SizeOf(r, w, n) \in SlotsOf(n)
         /\ \A k \in 1 .. SizeOf(r, w, n) :
              /\ (r + k - 1) % n \in SlotsOf(n)
              /\ SlotSeq(queue, r, w, n)[k] = queue[(r + k - 1) % n]
<1>1. SizeOf(r, w, n) \in SlotsOf(n)
  BY SizeInRing
<1>2. \A k \in 1 .. SizeOf(r, w, n) : (r + k - 1) % n \in SlotsOf(n)
  BY <1>1, SlotInRing DEF SlotsOf
<1>3. SlotSeq(queue, r, w, n) \in [1 .. SizeOf(r, w, n) -> V]
  BY <1>2 DEF SlotSeq, Rings
<1>4. SizeOf(r, w, n) \in Nat
  BY <1>1 DEF SlotsOf
<1>5. SlotSeq(queue, r, w, n) \in Seq(V) /\ Len(SlotSeq(queue, r, w, n)) = SizeOf(r, w, n)
  BY <1>3, <1>4, LenProperties, SeqDef
<1> QED
  BY <1>1, <1>2, <1>5 DEF SlotSeq

(* push: moving the write index over the slot it just filled appends that   *)
(* slot, and there was room for it (srsw_fifo::push).                       *)
LEMMA PushInRing ==
  ASSUME NEW n \in Nat \ {0}, NEW V, NEW queue \in Rings(n, V),
         NEW r \in SlotsOf(n), NEW w \in SlotsOf(n),
         IncIndex(w, n) # r
  PROVE  /\ SizeOf(r, w, n) < n - 1
         /\ SlotSeq(queue, r, IncIndex(w, n), n)
              = Append(SlotSeq(queue, r, w, n), queue[w])
<1> DEFINE v   == IncIndex(w, n)
           old == SlotSeq(queue, r, w, n)
           new == SlotSeq(queue, r, v, n)
           m   == SizeOf(r, w, n)
<1>1. v \in SlotsOf(n) /\ v = IF w = n - 1 THEN 0 ELSE w + 1
  BY IncIndexInjectiveInRing, IncIndexInRing
<1>2. m \in Nat /\ m < n - 1 /\ SizeOf(r, v, n) = m + 1
  BY <1>1 DEF SizeOf, SlotsOf
<1>3. (r + (m + 1) - 1) % n = w
  BY <1>2, SlotInRing DEF SizeOf, SlotsOf
<1>old. old \in Seq(V) /\ Len(old) = m /\ \A k \in 1 .. m : old[k] = queue[(r + k - 1) % n]
  BY SeqInRing
<1>new. /\ new \in Seq(V) /\ Len(new) = m + 1
        /\ \A k \in 1 .. m + 1 : new[k] = queue[(r + k - 1) % n]
  <2>1. v \in SlotsOf(n)
    BY <1>1
  <2> HIDE DEF v
  <2>2. /\ new \in Seq(V) /\ Len(new) = SizeOf(r, v, n)
        /\ \A k \in 1 .. SizeOf(r, v, n) : new[k] = queue[(r + k - 1) % n]
    BY <2>1, SeqInRing
  <2> QED
    BY <2>2, <1>2
<1> HIDE DEF old, new, m, v
<1>5. queue[w] \in V
  BY DEF Rings
<1>6. Append(old, queue[w]) \in Seq(V) /\ Len(Append(old, queue[w])) = m + 1
  BY <1>old, <1>5, AppendProperties
<1>7. ASSUME NEW k \in 1 .. m + 1
      PROVE  new[k] = Append(old, queue[w])[k]
  <2>1. new[k] = queue[(r + k - 1) % n]
    BY <1>new
  <2>2. CASE k = m + 1
    BY <1>3, <1>old, <1>5, <2>1, <2>2, AppendProperties
  <2>3. CASE k \in 1 .. m
    <3>1. old[k] = queue[(r + k - 1) % n]
      BY <2>3, <1>old
    <3> QED
      BY <1>old, <1>5, <2>1, <2>3, <3>1, AppendProperties
  <2> QED
    <3>1. m \in Nat
      BY <1>2
    <3>2. k = m + 1 \/ k \in 1 .. m
      BY <3>1
    <3> QED
      BY <3>2, <2>2, <2>3
<1> QED
  <2>1. new = Append(old, queue[w])
    BY <1>new, <1>6, <1>7, SeqEqual
  <2> QED
    BY <1>2, <2>1 DEF m, old, new, v

(* pop: moving the read index drops the oldest element, the one front()     *)
(* shows (srsw_fifo::pop, front).                                           *)
LEMMA PopInRing ==
  ASSUME NEW n \in Nat \ {0}, NEW V, NEW queue \in Rings(n, V),
         NEW r \in SlotsOf(n), NEW w \in SlotsOf(n),
         r # w
  PROVE  /\ SlotSeq(queue, r, w, n) # << >>
         /\ Head(SlotSeq(queue, r, w, n)) = queue[r]
         /\ SlotSeq(queue, IncIndex(r, n), w, n)
              = Tail(SlotSeq(queue, r, w, n))
<1> DEFINE old == SlotSeq(queue, r, w, n)
           m   == SizeOf(r, w, n)
<1>old. old \in Seq(V) /\ Len(old) = m /\ \A k \in 1 .. m : old[k] = queue[(r + k - 1) % n]
  BY SeqInRing
<1> DEFINE v   == IncIndex(r, n)
           new == SlotSeq(queue, v, w, n)
<1>1. v \in SlotsOf(n) /\ v = IF r = n - 1 THEN 0 ELSE r + 1
  BY IncIndexInjectiveInRing, IncIndexInRing
<1>2. m \in Nat /\ 0 < m /\ m < n /\ SizeOf(v, w, n) = m - 1
  BY <1>1 DEF SizeOf, SlotsOf
<1>new. /\ new \in Seq(V) /\ Len(new) = m - 1
        /\ \A k \in 1 .. m - 1 : new[k] = queue[(v + k - 1) % n]
  <2>1. v \in SlotsOf(n)
    BY <1>1
  <2> HIDE DEF v
  <2>2. /\ new \in Seq(V) /\ Len(new) = SizeOf(v, w, n)
        /\ \A k \in 1 .. SizeOf(v, w, n) : new[k] = queue[(v + k - 1) % n]
    BY <2>1, SeqInRing
  <2> QED
    BY <2>2, <1>2
<1>3. ASSUME NEW k \in 1 .. m - 1
      PROVE  (v + k - 1) % n = (r + (k + 1) - 1) % n
  <2>1. k \in 1 .. n /\ k + 1 \in 1 .. n
    BY <1>2
  <2> QED
    BY <1>1, <2>1, SlotInRing DEF SlotsOf
<1>4. (r + 1 - 1) % n = r
  BY SlotInRing DEF SlotsOf
<1> HIDE DEF old, new, m, v
<1>5. old # << >>
  BY <1>old, <1>2
<1>6. Head(old) = queue[r]
  BY <1>old, <1>2, <1>4, <1>5
<1>7. Tail(old) \in Seq(V) /\ Len(Tail(old)) = m - 1 /\ \A k \in 1 .. m - 1 : Tail(old)[k] = old[k + 1]
  BY <1>old, <1>5, HeadTailProperties
<1>8. ASSUME NEW k \in 1 .. m - 1
      PROVE  new[k] = Tail(old)[k]
  <2>1. k + 1 \in 1 .. m
    BY <1>2
  <2> QED
    BY <2>1, <1>old, <1>new, <1>3, <1>7
<1>9. new = Tail(old)
  BY <1>new, <1>7, <1>8, SeqEqual
<1> QED
  BY <1>5, <1>6, <1>9 DEF old, new, v

(* push's store before it publishes the index changes nothing that is held  *)
(* (srsw_fifo::push).                                                       *)
LEMMA StoreInRing ==
  ASSUME NEW n \in Nat \ {0}, NEW V, NEW queue \in Rings(n, V),
         NEW r \in SlotsOf(n), NEW w \in SlotsOf(n), NEW e \in V
  PROVE  SlotSeq([queue EXCEPT ![w] = e], r, w, n) = SlotSeq(queue, r, w, n)
<1> DEFINE stored == [queue EXCEPT ![w] = e]
           m == SizeOf(r, w, n)
<1>1. stored \in Rings(n, V)
  BY DEF Rings
<1>2. m \in SlotsOf(n)
  BY SizeInRing
<1>3. ASSUME NEW k \in 1 .. m
      PROVE  (r + k - 1) % n \in SlotsOf(n) \ {w}
  <2>1. k \in 1 .. n
    BY <1>2 DEF SlotsOf
  <2> QED
    BY <2>1, SlotInRing DEF SizeOf, SlotsOf
<1>4. \A k \in 1 .. m : stored[(r + k - 1) % n] = queue[(r + k - 1) % n]
  BY <1>3 DEF Rings
<1> QED
  BY <1>4 DEF SlotSeq

(* Moving the front out leaves the rest of what is held (the callers of     *)
(* srsw_fifo::front).                                                       *)
LEMMA TakeInRing ==
  ASSUME NEW n \in Nat \ {0}, NEW V, NEW queue \in Rings(n, V),
         NEW stored \in Rings(n, V), NEW r \in SlotsOf(n), NEW w \in SlotsOf(n),
         r # w, \A k \in SlotsOf(n) \ {r} : stored[k] = queue[k]
  PROVE  /\ SlotSeq(stored, r, w, n) # << >>
         /\ Head(SlotSeq(stored, r, w, n)) = stored[r]
         /\ Tail(SlotSeq(stored, r, w, n))
              = Tail(SlotSeq(queue, r, w, n))
<1> DEFINE v == IncIndex(r, n)
           m == SizeOf(v, w, n)
<1>1. v \in SlotsOf(n) /\ v = IF r = n - 1 THEN 0 ELSE r + 1
  BY IncIndexInjectiveInRing, IncIndexInRing
<1>2. m \in SlotsOf(n)
  BY <1>1, SizeInRing
<1>3. ASSUME NEW k \in 1 .. m
      PROVE  (v + k - 1) % n \in SlotsOf(n) \ {r}
  <2>1. k \in 1 .. n
    BY <1>2 DEF SlotsOf
  <2> QED
    BY <2>1, <1>1, SlotInRing DEF SizeOf, SlotsOf
<1>4. \A k \in 1 .. m : stored[(v + k - 1) % n] = queue[(v + k - 1) % n]
  BY <1>3
<1>5. SlotSeq(stored, v, w, n) = SlotSeq(queue, v, w, n)
  BY <1>4 DEF SlotSeq
<1>6. SlotSeq(queue, v, w, n) = Tail(SlotSeq(queue, r, w, n))
  BY PopInRing
<1>7. /\ SlotSeq(stored, r, w, n) # << >>
      /\ Head(SlotSeq(stored, r, w, n)) = stored[r]
      /\ SlotSeq(stored, v, w, n) = Tail(SlotSeq(stored, r, w, n))
  BY PopInRing
<1> QED
  BY <1>5, <1>6, <1>7

-----------------------------------------------------------------------------
(* The fifo as a record *)

FifosOf(n, V) == [slots : {n}, queue : Rings(n, V), r : SlotsOf(n), w : SlotsOf(n)]

(* What a fifo holds is a sequence shorter than its number of slots.        *)
LEMMA ContentsSeq ==
  ASSUME NEW n \in Nat \ {0}, NEW V, NEW f \in FifosOf(n, V)
  PROVE  /\ Contents(f) \in Seq(V) /\ Len(Contents(f)) = Size(f) /\ Size(f) \in SlotsOf(n)
         /\ Size(f) = 0 <=> f.r = f.w
<1>1. /\ f.slots = n /\ f.queue \in Rings(n, V)
      /\ f.r \in SlotsOf(n) /\ f.w \in SlotsOf(n)
  BY DEF FifosOf
<1>2. /\ SlotSeq(f.queue, f.r, f.w, n) \in Seq(V)
      /\ Len(SlotSeq(f.queue, f.r, f.w, n)) = SizeOf(f.r, f.w, n)
      /\ SizeOf(f.r, f.w, n) \in SlotsOf(n)
  BY <1>1, SeqInRing
<1>3. SizeOf(f.r, f.w, n) = 0 <=> f.r = f.w
  BY <1>1 DEF SizeOf, SlotsOf
<1> QED
  BY <1>1, <1>2, <1>3 DEF Contents, Size

(* push appends when there is room, and changes nothing when there is none  *)
(* (srsw_fifo::push, full).                                                 *)
LEMMA PushAppends ==
  ASSUME NEW n \in Nat \ {0}, NEW V, NEW f \in FifosOf(n, V), NEW v \in V
  PROVE  /\ Push(f, v) \in FifosOf(n, V)
         /\ Full(f) => Push(f, v) = f
         /\ ~Full(f) => /\ Contents(Push(f, v)) = Append(Contents(f), v)
                       /\ Size(f) < n - 1
<1>1. /\ f.slots = n /\ f.queue \in Rings(n, V)
      /\ f.r \in SlotsOf(n) /\ f.w \in SlotsOf(n)
  BY DEF FifosOf
<1>2. CASE Full(f)
  BY <1>1, <1>2 DEF Full, IsFull, Push
<1>3. CASE ~Full(f)
  <2> DEFINE q == [f.queue EXCEPT ![f.w] = v]
             g == Push(f, v)
  <2>1. g = [f EXCEPT !.queue[f.w] = v, !.w = IncIndex(f.w, n)] /\ IncIndex(f.w, n) # f.r
    BY <1>1, <1>3 DEF Full, IsFull, Push
  <2>2. q \in Rings(n, V) /\ q[f.w] = v
    BY <1>1 DEF Rings
  <2>3. IncIndex(f.w, n) \in SlotsOf(n)
    BY <1>1, IncIndexInjectiveInRing
  <2>4. /\ g \in FifosOf(n, V) /\ g.slots = n /\ g.queue = q
        /\ g.r = f.r /\ g.w = IncIndex(f.w, n)
    BY <1>1, <2>1, <2>2, <2>3 DEF FifosOf
  <2>5. SlotSeq(q, f.r, f.w, n) = SlotSeq(f.queue, f.r, f.w, n)
    BY <1>1, StoreInRing
  <2>6. /\ SizeOf(f.r, f.w, n) < n - 1
        /\ SlotSeq(q, f.r, IncIndex(f.w, n), n) = Append(SlotSeq(q, f.r, f.w, n), q[f.w])
    <3> HIDE DEF q
    <3> QED
      BY <1>1, <2>1, <2>2, PushInRing
  <2> HIDE DEF g, q
  <2>7. Contents(g) = Append(Contents(f), v) /\ Size(f) < n - 1
    BY <1>1, <2>2, <2>4, <2>5, <2>6 DEF Contents, Size
  <2> QED
    BY <1>3, <2>4, <2>7 DEF g
<1> QED
  BY <1>2, <1>3

(* A full fifo holds as many elements as it has slots, but one              *)
(* (srsw_fifo::full, size).                                                 *)
LEMMA FullSize ==
  ASSUME NEW n \in Nat \ {0}, NEW V, NEW f \in FifosOf(n, V), Full(f)
  PROVE  Size(f) = n - 1
<1>1. f.slots = n /\ f.r \in SlotsOf(n) /\ f.w \in SlotsOf(n)
  BY DEF FifosOf
<1>2. f.r = IF f.w = n - 1 THEN 0 ELSE f.w + 1
  BY <1>1, IncIndexInRing DEF Full, IsFull
<1> QED
  BY <1>1, <1>2 DEF Size, SizeOf, SlotsOf

-----------------------------------------------------------------------------
(* Induction *)

(* Every non-empty set of natural numbers has a least element.              *)
LEMMA LeastNumber ==
  ASSUME NEW T \in SUBSET Nat, T # {}
  PROVE  \E k \in T : \A j \in T : k <= j
<1> DEFINE Up == {0 .. k : k \in T}
           R  == StrictSubsetOrdering(Nat)
           F  == FiniteSubsetsOf(Nat)
<1>1. IsWellFoundedOn(R, F)
  BY FS_StrictSubsetOrderingWellFounded
<1>2. Up \subseteq F /\ Up # {}
  <2>1. ASSUME NEW k \in T
        PROVE  0 .. k \in F
    BY FS_Interval DEF FiniteSubsetsOf
  <2> QED
    BY <2>1
<1>3. PICK x \in Up : \A y \in Up : ~(<<y, x>> \in R)
  <2> HIDE DEF Up, R, F
  <2> QED
    BY <1>1, <1>2, WFMin
<1>4. PICK k \in T : x = 0 .. k
  OBVIOUS
<1>5. ASSUME NEW j \in T, j < k
      PROVE  FALSE
  <2>1. 0 .. j \in Up /\ 0 .. j \subseteq 0 .. k /\ 0 .. j # 0 .. k
    <3>1. k \in 0 .. k /\ k \notin 0 .. j
      BY <1>5
    <3> QED
      BY <1>5, <3>1
  <2>2. 0 .. j \in SUBSET Nat /\ 0 .. k \in SUBSET Nat
    OBVIOUS
  <2>3. <<0 .. j, 0 .. k>> \in R
    BY <2>1, <2>2 DEF StrictSubsetOrdering
  <2> QED
    BY <1>3, <1>4, <2>1, <2>3
<1> QED
  BY <1>5

(* Induction, over the members of a set because the library's theorem takes *)
(* an operator.                                                             *)
LEMMA SetInduction ==
  ASSUME NEW S, 0 \in S, \A k \in Nat : k \in S => k + 1 \in S
  PROVE  Nat \subseteq S
<1> DEFINE T == Nat \ S
<1> SUFFICES ASSUME T # {} PROVE FALSE
  OBVIOUS
<1>1. PICK k \in T : \A j \in T : k <= j
  BY LeastNumber
<1>2. k # 0 /\ k - 1 \in Nat
  OBVIOUS
<1>3. k - 1 \in S
  BY <1>1, <1>2
<1> QED
  BY <1>2, <1>3

-----------------------------------------------------------------------------
(* Growing *)

(* Pushing a sequence into an empty ring that is large enough leaves        *)
(* exactly that sequence in it (the second loop of resize_queue).           *)
LEMMA RefillHolds ==
  ASSUME NEW n \in Nat \ {0}, NEW V, NEW fresh \in FifosOf(n, V), fresh.r = 0, fresh.w = 0,
         NEW held \in Seq(V), Len(held) < n
  PROVE  Refill(fresh, held) \in FifosOf(n, V) /\ Contents(Refill(fresh, held)) = held
<1> DEFINE L == Len(held)
           Step(f, k) == IF k = 0 THEN fresh ELSE Push(f[k - 1], held[k])
           refilled == CHOOSE f : f = [k \in 0 .. L |-> Step(f, k)]
           queue(k) == [i \in SlotsOf(n) |-> IF i < k THEN held[i + 1] ELSE fresh.queue[i]]
           closed == [k \in 0 .. L |-> [slots |-> n, queue |-> queue(k), r |-> 0, w |-> k]]
<1>1. Refill(fresh, held) = refilled[L]
  BY DEF Refill
<1>2. L \in Nat /\ L < n /\ held \in [1 .. L -> V]
  BY LenProperties
<1> HIDE DEF L, Step, refilled, queue, closed
<1>3. fresh = [slots |-> n, queue |-> fresh.queue, r |-> 0, w |-> 0]
      /\ fresh.queue \in [SlotsOf(n) -> V]
  BY DEF FifosOf, Rings
<1>4. ASSUME NEW k \in 0 .. L
      PROVE  /\ k \in SlotsOf(n) /\ queue(k) \in Rings(n, V)
             /\ closed[k] = [slots |-> n, queue |-> queue(k), r |-> 0, w |-> k]
  <2>1. k \in SlotsOf(n)
    BY <1>2 DEF SlotsOf
  <2>2. \A i \in SlotsOf(n) : i < k => held[i + 1] \in V
    BY <1>2 DEF SlotsOf
  <2>3. queue(k) \in Rings(n, V)
    BY <1>3, <2>2 DEF Rings, queue
  <2> QED
    BY <2>1, <2>3 DEF closed
<1>5. ASSUME NEW k \in 0 .. L
      PROVE  closed[k] = Step(closed, k)
  <2>1. CASE k = 0
    <3>1. queue(0) = fresh.queue
      BY <1>3 DEF queue, SlotsOf
    <3> QED
      BY <2>1, <1>3, <1>4, <3>1 DEF Step
  <2>2. CASE k # 0
    <3>1. k - 1 \in 0 .. L /\ k - 1 \in SlotsOf(n) /\ k \in SlotsOf(n)
      BY <2>2, <1>2 DEF SlotsOf
    <3>2. IncIndex(k - 1, n) = k
      BY <2>2, <3>1, IncIndexInRing DEF SlotsOf
    <3>3. /\ closed[k - 1] = [slots |-> n, queue |-> queue(k - 1), r |-> 0, w |-> k - 1]
          /\ closed[k] = [slots |-> n, queue |-> queue(k), r |-> 0, w |-> k]
      BY <1>4, <3>1
    <3>4. [queue(k - 1) EXCEPT ![k - 1] = held[k]] = queue(k)
      <4>1. \A i \in SlotsOf(n) :
              queue(k)[i] = IF i = k - 1 THEN held[k] ELSE queue(k - 1)[i]
        BY <2>2, <3>1 DEF SlotsOf, queue
      <4>2. queue(k) \in Rings(n, V) /\ queue(k - 1) \in Rings(n, V)
        BY <1>4, <3>1
      <4> QED
        BY <3>1, <4>1, <4>2 DEF Rings
    <3>5. Push(closed[k - 1], held[k])
            = [slots |-> n, queue |-> [queue(k - 1) EXCEPT ![k - 1] = held[k]], r |-> 0, w |-> k]
      <4> DEFINE c == closed[k - 1]
      <4>1. /\ c = [slots |-> n, queue |-> queue(k - 1), r |-> 0, w |-> k - 1]
            /\ c.slots = n /\ c.r = 0 /\ c.w = k - 1 /\ c.queue = queue(k - 1)
        BY <3>3
      <4> HIDE DEF c
      <4>2. Push(c, held[k]) = [c EXCEPT !.queue[k - 1] = held[k], !.w = k]
        BY <2>2, <3>2, <4>1 DEF Push
      <4> QED
        BY <4>1, <4>2 DEF c
    <3> QED
      BY <2>2, <3>3, <3>4, <3>5 DEF Step
  <2> QED
    BY <2>1, <2>2
<1>6. \A k \in 0 .. L : refilled[k] = Step(refilled, k)
  <2>1. closed = [k \in 0 .. L |-> closed[k]]
    BY DEF closed
  <2>2. closed = [k \in 0 .. L |-> Step(closed, k)]
    BY <1>5, <2>1
  <2>3. \E f : f = [k \in 0 .. L |-> Step(f, k)]
    BY <2>2
  <2>4. refilled = [k \in 0 .. L |-> Step(refilled, k)]
    BY <2>3 DEF refilled
  <2> QED
    BY <2>4
<1>7. \A k \in 0 .. L : refilled[k] = closed[k]
  <2> DEFINE S == {k \in Nat : k \in 0 .. L => refilled[k] = closed[k]}
  <2>1. 0 \in S
    BY <1>2, <1>5, <1>6 DEF Step
  <2>2. ASSUME NEW k \in Nat, k \in S
        PROVE  k + 1 \in S
    <3>1. CASE k + 1 \in 0 .. L
      <4>1. k \in 0 .. L /\ k + 1 # 0 /\ (k + 1) - 1 = k
        BY <1>2, <3>1
      <4>2. refilled[k] = closed[k]
        BY <2>2, <4>1
      <4>3. refilled[k + 1] = Push(refilled[k], held[k + 1])
        BY <1>6, <3>1, <4>1 DEF Step
      <4>4. closed[k + 1] = Push(closed[k], held[k + 1])
        BY <1>5, <3>1, <4>1 DEF Step
      <4> QED
        BY <4>2, <4>3, <4>4
    <3> QED
      BY <3>1
  <2> HIDE DEF S
  <2>3. Nat \subseteq S
    BY <2>1, <2>2, SetInduction
  <2> QED
    BY <1>2, <2>3 DEF S
<1>8. L \in 0 .. L
  BY <1>2
<1>9. /\ Refill(fresh, held) = [slots |-> n, queue |-> queue(L), r |-> 0, w |-> L]
      /\ L \in SlotsOf(n) /\ queue(L) \in Rings(n, V)
  BY <1>1, <1>4, <1>7, <1>8
<1>10. SlotSeq(queue(L), 0, L, n) = held
  <2>1. SizeOf(0, L, n) = L
    BY <1>2 DEF SizeOf
  <2>2. ASSUME NEW k \in 1 .. L
        PROVE  queue(L)[(0 + k - 1) % n] = held[k]
    <3>1. 0 \in SlotsOf(n) /\ k \in 1 .. n
      BY <1>2 DEF SlotsOf
    <3>2. (0 + k - 1) % n = k - 1
      BY <1>2, <3>1, SlotInRing
    <3>3. k - 1 \in SlotsOf(n)
      BY <1>2 DEF SlotsOf
    <3> QED
      BY <3>2, <3>3, <1>2 DEF queue
  <2>3. SlotSeq(queue(L), 0, L, n) = [k \in 1 .. L |-> held[k]]
    BY <2>1, <2>2 DEF SlotSeq
  <2> QED
    BY <2>3, <1>2
<1> QED
  <2>1. 0 \in SlotsOf(n)
    BY DEF SlotsOf
  <2> QED
    BY <1>9, <1>10, <2>1 DEF FifosOf, Contents

(* Growing by at least one slot keeps what is held, in its order, and       *)
(* leaves room (srsw_fifo::resize_queue, init_queue).                       *)
THEOREM ResizeKeeps ==
  ASSUME NEW n \in Nat \ {0}, NEW m \in Nat \ {0}, NEW V, NEW Nil \in V,
         NEW f \in FifosOf(n, V)
  PROVE  /\ ResizeQueue(f, m, Nil) \in FifosOf(n + m, V)
         /\ Contents(ResizeQueue(f, m, Nil)) = Contents(f)
         /\ ~Full(ResizeQueue(f, m, Nil))
<1> DEFINE drained == [f EXCEPT !.queue = [k \in 0 .. f.slots - 1 |-> Nil]]
           fresh   == InitQueue(drained, m, Nil)
           grown   == ResizeQueue(f, m, Nil)
<1>1. grown = Refill(fresh, Contents(f))
  BY DEF ResizeQueue
<1>2. /\ Contents(f) \in Seq(V) /\ Len(Contents(f)) = Size(f) /\ Size(f) \in SlotsOf(n)
  BY ContentsSeq
<1>3. fresh \in FifosOf(n + m, V) /\ fresh.r = 0 /\ fresh.w = 0
  <2>1. f.slots = n
    BY DEF FifosOf
  <2>2. drained.slots = n /\ drained.queue = [k \in 0 .. n - 1 |-> Nil]
    BY <2>1 DEF FifosOf
  <2> HIDE DEF drained
  <2>3. fresh = [slots |-> n + m,
                 queue |-> [k \in 0 .. n + m - 1 |-> IF k < n THEN drained.queue[k] ELSE Nil],
                 r |-> 0, w |-> 0]
    BY <2>2 DEF InitQueue
  <2>4. [k \in 0 .. n + m - 1 |-> IF k < n THEN drained.queue[k] ELSE Nil] \in Rings(n + m, V)
    BY <2>2 DEF Rings, SlotsOf
  <2>5. 0 \in SlotsOf(n + m)
    BY DEF SlotsOf
  <2> HIDE DEF fresh
  <2> QED
    BY <2>3, <2>4, <2>5 DEF FifosOf
<1>4. n + m \in Nat \ {0} /\ Len(Contents(f)) < n + m
  BY <1>2 DEF SlotsOf
<1> HIDE DEF fresh, grown, drained
<1>5. grown \in FifosOf(n + m, V) /\ Contents(grown) = Contents(f)
  BY <1>1, <1>2, <1>3, <1>4, RefillHolds
<1>6. ~Full(grown)
  <2>1. Size(grown) = Size(f)
    BY <1>2, <1>4, <1>5, ContentsSeq
  <2>2. Full(grown) => Size(grown) = n + m - 1
    BY <1>4, <1>5, FullSize
  <2> QED
    BY <1>2, <2>1, <2>2 DEF SlotsOf
<1> QED
  BY <1>5, <1>6 DEF grown

-----------------------------------------------------------------------------
(* Taking *)

(* pop drops the oldest element; with front before it, it is the one that   *)
(* was moved out (srsw_fifo::front, pop).                                   *)
LEMMA TakeFrontDrops ==
  ASSUME NEW n \in Nat \ {0}, NEW V, NEW Nil \in V, NEW f \in FifosOf(n, V), Size(f) > 0
  PROVE  /\ TakeFront(f, Nil) \in FifosOf(n, V)
         /\ [f EXCEPT !.r = IncIndex(f.r, f.slots)] \in FifosOf(n, V)
         /\ Contents(f) # << >> /\ Head(Contents(f)) = f.queue[f.r]
         /\ Contents(TakeFront(f, Nil)) = Tail(Contents(f))
         /\ Contents([f EXCEPT !.r = IncIndex(f.r, f.slots)]) = Tail(Contents(f))
<1> DEFINE taken  == [f.queue EXCEPT ![f.r] = Nil]
           next   == IncIndex(f.r, n)
<1>1. /\ f.slots = n /\ f.queue \in Rings(n, V) /\ f.r \in SlotsOf(n) /\ f.w \in SlotsOf(n)
  BY DEF FifosOf
<1>2. f.r # f.w
  BY ContentsSeq
<1>3. taken \in Rings(n, V) /\ \A k \in SlotsOf(n) \ {f.r} : taken[k] = f.queue[k]
  BY <1>1 DEF Rings
<1>4. next \in SlotsOf(n)
  BY <1>1, IncIndexInjectiveInRing
<1> DEFINE out == TakeFront(f, Nil)
           dropped == [f EXCEPT !.r = IncIndex(f.r, f.slots)]
<1>5. /\ out \in FifosOf(n, V)
      /\ out.slots = n /\ out.queue = taken /\ out.r = next /\ out.w = f.w
  BY <1>1, <1>3, <1>4 DEF TakeFront, FifosOf
<1>6. /\ dropped \in FifosOf(n, V)
      /\ dropped.slots = n /\ dropped.queue = f.queue /\ dropped.r = next /\ dropped.w = f.w
  BY <1>1, <1>4 DEF FifosOf
<1> HIDE DEF taken, next, out, dropped
<1>7. /\ SlotSeq(f.queue, f.r, f.w, n) # << >> /\ Head(SlotSeq(f.queue, f.r, f.w, n)) = f.queue[f.r]
      /\ SlotSeq(f.queue, next, f.w, n) = Tail(SlotSeq(f.queue, f.r, f.w, n))
  BY <1>1, <1>2, PopInRing DEF next
<1>8. SlotSeq(taken, next, f.w, n) = Tail(SlotSeq(taken, f.r, f.w, n))
  BY <1>1, <1>2, <1>3, PopInRing DEF next
<1>9. Tail(SlotSeq(taken, f.r, f.w, n)) = Tail(SlotSeq(f.queue, f.r, f.w, n))
  BY <1>1, <1>2, <1>3, TakeInRing
<1>10. /\ Contents(f) # << >> /\ Head(Contents(f)) = f.queue[f.r]
       /\ Contents(out) = Tail(Contents(f)) /\ Contents(dropped) = Tail(Contents(f))
  BY <1>1, <1>5, <1>6, <1>7, <1>8, <1>9 DEF Contents
<1> QED
  BY <1>5, <1>6, <1>10 DEF out, dropped

(* Between equal indices there is nothing (srsw_fifo::empty).               *)
LEMMA EqualIndices ==
  ASSUME NEW n \in Nat \ {0}, NEW V, NEW f \in FifosOf(n, V), f.r = f.w
  PROVE  Contents(f) = << >>
<1>1. Contents(f) \in Seq(V) /\ Len(Contents(f)) = 0
  BY ContentsSeq
<1> QED
  BY <1>1, EmptySeq

(* Setting the read index to the write index leaves nothing                 *)
(* (mutex_fifo::flush).                                                     *)
LEMMA FlushEmpties ==
  ASSUME NEW n \in Nat \ {0}, NEW V, NEW f \in FifosOf(n, V)
  PROVE  /\ [f EXCEPT !.r = f.w] \in FifosOf(n, V)
         /\ Contents([f EXCEPT !.r = f.w]) = << >>
<1>1. [f EXCEPT !.r = f.w] \in FifosOf(n, V) /\ [f EXCEPT !.r = f.w].r = [f EXCEPT !.r = f.w].w
  BY DEF FifosOf
<1> QED
  BY <1>1, EqualIndices

(* A constructed fifo is empty (srsw_fifo::srsw_fifo).                      *)
LEMMA NewFifoEmpty ==
  ASSUME NEW n \in Nat \ {0}, NEW V, NEW Nil \in V
  PROVE  NewFifo(n, Nil) \in FifosOf(n, V) /\ Contents(NewFifo(n, Nil)) = << >>
<1>1. 0 \in SlotsOf(n) /\ [k \in 0 .. n - 1 |-> Nil] \in Rings(n, V)
  BY DEF SlotsOf, Rings
<1>2. NewFifo(n, Nil) \in FifosOf(n, V) /\ NewFifo(n, Nil).r = NewFifo(n, Nil).w
  BY <1>1 DEF NewFifo, FifosOf
<1> QED
  BY <1>2, EqualIndices
=============================================================================
