------------------------ MODULE SPSCRingBufferProofs ------------------------
(***************************************************************************)
(* Proofs about the SPSC ring of SPSCRingBuffer, for every power-of-two    *)
(* Capacity and every set of values.                                       *)
(***************************************************************************)
EXTENDS SPSCRingBuffer, SequenceTheorems, TLAPS

-----------------------------------------------------------------------------
(* Index arithmetic.                                                       *)

(* The slot after slot i wraps from Capacity - 1 to 0. *)
LEMMA NextSlotValue ==
  ASSUME NEW i \in Slots
  PROVE  /\ NextSlot(i) \in Slots
         /\ NextSlot(i) = IF i = Capacity - 1 THEN 0 ELSE i + 1
BY CapacityPositive DEF NextSlot, Slots

(* The circular distance from h to t, without the modulus. *)
LEMMA DistanceValue ==
  ASSUME NEW h \in Slots, NEW t \in Slots
  PROVE  (t - h + Capacity) % Capacity =
           IF t >= h THEN t - h ELSE t - h + Capacity
BY CapacityPositive DEF Slots

-----------------------------------------------------------------------------
(* Type correctness.                                                       *)

(* One step of push or pop keeps every variable in its type. *)
LEMMA TypeOKStep == TypeOK /\ [Next]_vars => TypeOK'
<1> SUFFICES ASSUME TypeOK, [Next]_vars PROVE TypeOK'
  OBVIOUS
<1>1. ASSUME NEW v \in Values, PushBegin(v) PROVE TypeOK'
  BY <1>1 DEF PushBegin, TypeOK
<1>2. CASE PushWrite
  BY <1>2 DEF PushWrite, TypeOK
<1>3. CASE PushPublish
  BY <1>3, NextSlotValue DEF PushPublish, TypeOK
<1>4. CASE PopBegin
  BY <1>4 DEF PopBegin, TypeOK
<1>5. CASE PopRead
  BY <1>5 DEF PopRead, TypeOK
<1>6. CASE PopPublish
  BY <1>6, NextSlotValue DEF PopPublish, TypeOK
<1>7. CASE UNCHANGED vars
  BY <1>7 DEF vars, TypeOK
<1>8. QED
  BY <1>1, <1>2, <1>3, <1>4, <1>5, <1>6, <1>7 DEF Next

(* Every reachable state gives each variable a value of its type: both     *)
(* indices stay inside the ring after every wrap of push and pop.          *)
THEOREM TypeCorrect == Spec => []TypeOK
<1>1. Init => TypeOK
  BY CapacityPositive DEF Init, TypeOK, Slots
<1>2. QED
  BY <1>1, TypeOKStep, PTL DEF Spec

-----------------------------------------------------------------------------
(* Data-race freedom.                                                      *)

(* NoDataRace is not inductive by itself: a state where the consumer is    *)
(* about to read slot head while the ring looks empty would be followed by *)
(* a racing write.  The strengthening records what each thread learned     *)
(* when it loaded the other's index and what it has written since: the     *)
(* producer, once past its full check, has a free slot that consumer steps *)
(* can only enlarge; the consumer, once past its empty check, has a value  *)
(* that producer steps cannot take away; and the values each thread has    *)
(* written or copied are still in place.                                   *)
(* The producer, once past its full check, still has a free slot. *)
ProducerHasRoom == ppc \in {"write", "publish"} => Count < Capacity - 1

(* The consumer, once past its empty check, still has a value to take. *)
ConsumerHasValue == cpc \in {"read", "publish"} => Count > 0

(* The slot the producer is about to publish holds its item. *)
PublishedSlotWritten == ppc = "publish" => buffer[tail] = pitem

(* The consumer's copy is still the value at the front of the ring. *)
CopyIsFront == cpc = "publish" => citem = buffer[head]

IInv ==
  /\ TypeOK
  /\ ProducerHasRoom
  /\ ConsumerHasValue
  /\ PublishedSlotWritten
  /\ CopyIsFront

LEMMA InitIInv == Init => IInv
BY CapacityPositive
DEF Init, IInv, TypeOK, Slots, ProducerHasRoom, ConsumerHasValue,
    PublishedSlotWritten, CopyIsFront, Count

(* The number of values the ring holds, without the modulus. *)
LEMMA CountValue ==
  TypeOK => Count = IF tail >= head THEN tail - head
                                    ELSE tail - head + Capacity
BY CapacityPositive DEF TypeOK, Count, Slots

LEMMA NextIInv == IInv /\ [Next]_vars => IInv'
<1> SUFFICES ASSUME IInv, [Next]_vars PROVE IInv'
  OBVIOUS
<1>0. /\ TypeOK
      /\ TypeOK'
      /\ head \in Slots /\ tail \in Slots
      /\ head' \in Slots /\ tail' \in Slots
      /\ Count = IF tail >= head THEN tail - head ELSE tail - head + Capacity
      /\ Count' = IF tail' >= head' THEN tail' - head'
                                     ELSE tail' - head' + Capacity
  <2>1. TypeOK /\ TypeOK'
    BY TypeOKStep DEF IInv
  <2>2. head \in Slots /\ tail \in Slots /\ head' \in Slots /\ tail' \in Slots
    BY <2>1 DEF TypeOK
  <2>3. Count' = IF tail' >= head' THEN tail' - head'
                                   ELSE tail' - head' + Capacity
    BY <2>2, DistanceValue DEF Count
  <2>4. QED
    BY <2>1, <2>2, <2>3, CountValue
<1>9. Slots \subseteq Nat /\ Capacity \in Nat \ {0}
  BY CapacityPositive DEF Slots
<1>10. /\ NextSlot(tail) = IF tail = Capacity - 1 THEN 0 ELSE tail + 1
       /\ NextSlot(head) = IF head = Capacity - 1 THEN 0 ELSE head + 1
  BY <1>0, NextSlotValue
<1> USE <1>0, <1>9, <1>10
<1>1. ASSUME NEW v \in Values, PushBegin(v) PROVE IInv'
  <2>1. ProducerHasRoom'
    BY <1>1 DEF PushBegin, ProducerHasRoom, Slots
  <2>2. ConsumerHasValue'
    BY <1>1 DEF PushBegin, IInv, ConsumerHasValue
  <2>3. PublishedSlotWritten' /\ CopyIsFront'
    BY <1>1 DEF PushBegin, IInv, PublishedSlotWritten, CopyIsFront
  <2>4. QED
    BY <2>1, <2>2, <2>3 DEF IInv
<1>2. CASE PushWrite
  <2>1. ProducerHasRoom' /\ ConsumerHasValue'
    BY <1>2 DEF PushWrite, IInv, ProducerHasRoom, ConsumerHasValue
  <2>2. PublishedSlotWritten'
    BY <1>2 DEF PushWrite, IInv, TypeOK, PublishedSlotWritten
  <2>3. CopyIsFront'
    <3>1. cpc = "publish" => tail # head
      BY DEF IInv, ProducerHasRoom, ConsumerHasValue
    <3>2. QED
      BY <3>1, <1>2 DEF PushWrite, IInv, TypeOK, CopyIsFront
  <2>4. QED
    BY <2>1, <2>2, <2>3 DEF IInv
<1>3. CASE PushPublish
  <2>1. ProducerHasRoom' /\ PublishedSlotWritten'
    BY <1>3 DEF PushPublish, ProducerHasRoom, PublishedSlotWritten
  <2>2. ConsumerHasValue'
    <3>1. tail' # head
      BY <1>3 DEF PushPublish, IInv, ProducerHasRoom, Slots
    <3>2. QED
      BY <1>3, <3>1 DEF PushPublish, ConsumerHasValue, Slots
  <2>3. CopyIsFront'
    BY <1>3 DEF PushPublish, IInv, CopyIsFront
  <2>4. QED
    BY <2>1, <2>2, <2>3 DEF IInv
<1>4. CASE PopBegin
  <2>1. ProducerHasRoom' /\ PublishedSlotWritten' /\ CopyIsFront'
    BY <1>4 DEF PopBegin, IInv, ProducerHasRoom, PublishedSlotWritten,
               CopyIsFront
  <2>2. ConsumerHasValue'
    BY <1>4 DEF PopBegin, ConsumerHasValue, Slots
  <2>3. QED
    BY <2>1, <2>2 DEF IInv
<1>5. CASE PopRead
  BY <1>5 DEF PopRead, IInv, ProducerHasRoom, ConsumerHasValue,
             PublishedSlotWritten, CopyIsFront
<1>6. CASE PopPublish
  <2>1. ConsumerHasValue' /\ CopyIsFront' /\ PublishedSlotWritten'
    BY <1>6 DEF PopPublish, IInv, ConsumerHasValue, CopyIsFront,
               PublishedSlotWritten
  <2>2. ProducerHasRoom'
    <3>1. cpc = "publish" /\ Count > 0
      BY <1>6 DEF PopPublish, IInv, ConsumerHasValue
    <3>2. QED
      BY <1>6, <3>1 DEF PopPublish, IInv, ProducerHasRoom, Slots
  <2>3. QED
    BY <2>1, <2>2 DEF IInv
<1>7. CASE UNCHANGED vars
  BY <1>7 DEF vars, IInv, ProducerHasRoom, ConsumerHasValue,
             PublishedSlotWritten, CopyIsFront
<1>8. QED
  BY <1>1, <1>2, <1>3, <1>4, <1>5, <1>6, <1>7 DEF Next

(* The producer's slot write and the consumer's slot read never target the *)
(* same slot together, in every run of push and pop, for every Capacity.   *)
THEOREM DataRaceFreedom == Spec => []NoDataRace
<1>1. IInv => NoDataRace
  BY CountValue DEF IInv, TypeOK, Slots, ConsumerHasValue, NoDataRace
<1>2. QED
  BY InitIInv, NextIInv, <1>1, PTL DEF Spec
-----------------------------------------------------------------------------
(* Refinement of the queue contract SPSCQueue.                             *)

(* A push past its full check carries the caller's value, never the        *)
(* placeholder pitem holds between pushes.                                 *)
PendingItemIsValue == ppc \in {"write", "publish"} => pitem \in Values

RInv == IInv /\ PendingItemIsValue

(* What a slot may hold. *)
SlotValues == Values \cup {NoValue}

LEMMA InitRInv == Init => RInv
BY InitIInv DEF Init, RInv, PendingItemIsValue

LEMMA NextRInv == RInv /\ [Next]_vars => RInv'
<1> SUFFICES ASSUME RInv, [Next]_vars PROVE RInv'
  OBVIOUS
<1>1. IInv'
  BY NextIInv DEF RInv
<1>2. PendingItemIsValue'
  BY DEF RInv, PendingItemIsValue, Next, vars, PushBegin, PushWrite,
         PushPublish, PopBegin, PopRead, PopPublish
<1>3. QED
  BY <1>1, <1>2 DEF RInv

(* The i-th value of the ring sits in a slot other than the one the        *)
(* producer writes next: a push never overwrites a value not yet popped.   *)
LEMMA ContentsSlot ==
  ASSUME TypeOK, NEW i \in 1 .. Count
  PROVE  /\ (head + i - 1) % Capacity \in Slots
         /\ (head + i - 1) % Capacity # tail
<1>1. Count = IF tail >= head THEN tail - head ELSE tail - head + Capacity
  BY CountValue
<1>2. head \in Slots /\ tail \in Slots
  BY DEF TypeOK
<1>3. QED
  BY <1>1, <1>2, CapacityPositive DEF Slots

(* The contents form a sequence of Count slot values. *)
LEMMA ContentsIsSeq ==
  ASSUME TypeOK
  PROVE  /\ Contents \in Seq(SlotValues)
         /\ Len(Contents) = Count
<1>1. Count \in Nat
  BY CountValue, CapacityPositive DEF TypeOK, Slots
<1>2. \A i \in 1 .. Count : buffer[(head + i - 1) % Capacity] \in SlotValues
  BY ContentsSlot DEF TypeOK, SlotValues
<1>3. Contents \in [1 .. Count -> SlotValues]
  BY <1>2 DEF Contents
<1>4. QED
  BY <1>1, <1>3 DEF Contents

(* An index at most one lap past the ring wraps at most once. *)
LEMMA WrapOnce ==
  ASSUME NEW x \in 0 .. 2 * Capacity - 1
  PROVE  x % Capacity = IF x < Capacity THEN x ELSE x - Capacity
BY CapacityPositive

(* The value k places after the slot after h is the value k + 1 places     *)
(* after h: moving head on by one shifts the contents by one.              *)
LEMMA ShiftedSlot ==
  ASSUME NEW h \in Slots, NEW k \in 1 .. Capacity - 1
  PROVE  (NextSlot(h) + k - 1) % Capacity = (h + k) % Capacity
<1>1. NextSlot(h) = IF h = Capacity - 1 THEN 0 ELSE h + 1
  BY NextSlotValue
<1>2. /\ NextSlot(h) + k - 1 \in 0 .. 2 * Capacity - 1
      /\ h + k \in 0 .. 2 * Capacity - 1
  BY <1>1, CapacityPositive DEF Slots
<1>3. QED
  BY <1>1, <1>2, WrapOnce, CapacityPositive DEF Slots

(* The slot just past the contents is tail. *)
LEMMA SlotAfterContents ==
  ASSUME TypeOK
  PROVE  (head + Count) % Capacity = tail
BY CountValue, CapacityPositive DEF TypeOK, Slots
(* push's tail store appends the pushed value to the queue. *)
LEMMA PushPublishRefines ==
  ASSUME RInv, PushPublish
  PROVE  Queue!Push(pitem)
<1>0. TypeOK /\ TypeOK'
  BY TypeOKStep DEF RInv, IInv, Next
<1>1. /\ pitem \in Values
      /\ buffer[tail] = pitem
      /\ Count < Capacity - 1
  BY DEF RInv, IInv, PendingItemIsValue, PublishedSlotWritten,
         ProducerHasRoom, PushPublish
<1>2. /\ head' = head /\ buffer' = buffer /\ popped' = popped
      /\ tail' = NextSlot(tail)
  BY DEF PushPublish
<1>3. Count' = Count + 1
  <2>1. head \in Slots /\ tail \in Slots /\ tail' \in Slots
    BY <1>0 DEF TypeOK
  <2>2. Count' = IF tail' >= head THEN tail' - head
                                  ELSE tail' - head + Capacity
    BY <1>2, <2>1, DistanceValue DEF Count
  <2>3. QED
    BY <1>0, <1>1, <1>2, <2>1, <2>2, CountValue, NextSlotValue,
       CapacityPositive
    DEF Slots
<1>4. Contents \in Seq(SlotValues) /\ Len(Contents) = Count /\ Count \in Nat
  BY <1>0, ContentsIsSeq, CountValue, CapacityPositive DEF TypeOK, Slots
<1>5. \A i \in 1 .. Count : Contents'[i] = Contents[i]
  BY <1>2, <1>3, <1>4 DEF Contents
<1>6. Contents'[Count + 1] = pitem
  BY <1>0, <1>1, <1>2, <1>3, <1>4, SlotAfterContents DEF Contents
<1>7. Contents' \in Seq(SlotValues)
  <2>1. \A i \in 1 .. Count + 1 : (head + i - 1) % Capacity \in Slots
    BY <1>0, <1>4, ContentsSlot, SlotAfterContents DEF TypeOK
  <2>2. Contents' \in [1 .. Count + 1 -> SlotValues]
    BY <1>0, <1>2, <1>3, <2>1 DEF Contents, TypeOK, SlotValues
  <2>3. QED
    BY <1>4, <2>2
<1>8. Contents' = Append(Contents, pitem)
  <2>1. /\ Append(Contents, pitem) \in Seq(SlotValues)
        /\ Len(Append(Contents, pitem)) = Count + 1
        /\ \A i \in 1 .. Count : Append(Contents, pitem)[i] = Contents[i]
        /\ Append(Contents, pitem)[Count + 1] = pitem
    BY <1>1, <1>4, AppendProperties DEF SlotValues
  <2>2. Len(Contents') = Count + 1
    BY <1>3, <1>4 DEF Contents
  <2>3. QED
    BY <1>4, <1>5, <1>6, <1>7, <2>1, <2>2, SeqEqual
<1>9. QED
  BY <1>1, <1>2, <1>4, <1>8 DEF Queue!Push

(* pop's head store removes the front value and returns it. *)
LEMMA PopPublishRefines ==
  ASSUME RInv, PopPublish
  PROVE  Queue!Pop
<1>0. TypeOK /\ TypeOK'
  BY TypeOKStep DEF RInv, IInv, Next
<1>1. /\ Count > 0
      /\ citem = buffer[head]
  BY DEF RInv, IInv, ConsumerHasValue, CopyIsFront, PopPublish
<1>2. /\ tail' = tail /\ buffer' = buffer /\ popped' = citem
      /\ head' = NextSlot(head)
  BY DEF PopPublish
<1>3. Count' = Count - 1
  <2>1. head \in Slots /\ tail \in Slots /\ head' \in Slots
    BY <1>0 DEF TypeOK
  <2>2. Count' = IF tail >= head' THEN tail - head'
                                  ELSE tail - head' + Capacity
    BY <1>2, <2>1, DistanceValue DEF Count
  <2>3. QED
    BY <1>0, <1>1, <1>2, <2>1, <2>2, CountValue, NextSlotValue,
       CapacityPositive
    DEF Slots
<1>4. /\ Contents \in Seq(SlotValues) /\ Len(Contents) = Count
      /\ Count \in 1 .. Capacity - 1
  BY <1>0, <1>1, ContentsIsSeq, CountValue, CapacityPositive DEF TypeOK, Slots
<1>5. Contents # << >>
  BY <1>4
<1>6. Head(Contents) = citem
  <2>1. head % Capacity = head
    BY <1>0, CapacityPositive DEF TypeOK, Slots
  <2>2. (head + 1 - 1) % Capacity = head /\ 1 \in 1 .. Count
    BY <1>0, <1>4, <2>1, CapacityPositive DEF TypeOK, Slots
  <2>3. Contents[1] = buffer[head]
    BY <2>2 DEF Contents
  <2>4. QED
    BY <1>1, <2>3
<1>7a. \A i \in 1 .. Count - 1 :
         (NextSlot(head) + i - 1) % Capacity = (head + (i + 1) - 1) % Capacity
  <2> SUFFICES ASSUME NEW i \in 1 .. Count - 1
               PROVE  (NextSlot(head) + i - 1) % Capacity
                        = (head + (i + 1) - 1) % Capacity
    OBVIOUS
  <2>1. head \in Slots /\ i \in 1 .. Capacity - 1
    BY <1>0, <1>4, CapacityPositive DEF TypeOK
  <2>2. QED
    BY <2>1, ShiftedSlot
<1>7. \A i \in 1 .. Count - 1 : Contents'[i] = Contents[i + 1]
  BY <1>2, <1>3, <1>4, <1>7a DEF Contents
<1>8. Contents' \in Seq(SlotValues)
  <2>1. \A i \in 1 .. Count - 1 :
          (NextSlot(head) + i - 1) % Capacity \in Slots
    <3> SUFFICES ASSUME NEW i \in 1 .. Count - 1
                 PROVE  (NextSlot(head) + i - 1) % Capacity \in Slots
      OBVIOUS
    <3>1. i + 1 \in 1 .. Count
      BY <1>4
    <3>2. QED
      BY <1>0, <1>7a, <3>1, ContentsSlot
  <2>2. Contents' \in [1 .. Count - 1 -> SlotValues]
    BY <1>0, <1>2, <1>3, <2>1 DEF Contents, TypeOK, SlotValues
  <2>3. QED
    BY <1>4, <2>2
<1>9. Contents' = Tail(Contents)
  <2>1. /\ Tail(Contents) \in Seq(SlotValues)
        /\ Len(Tail(Contents)) = Count - 1
        /\ \A i \in 1 .. Count - 1 : Tail(Contents)[i] = Contents[i + 1]
    BY <1>4, <1>5, HeadTailProperties
  <2>2. Len(Contents') = Count - 1
    BY <1>3, <1>4 DEF Contents
  <2>3. QED
    BY <1>7, <1>8, <2>1, <2>2, SeqEqual
<1>10. QED
  BY <1>2, <1>5, <1>6, <1>9 DEF Queue!Pop

(* Every step of push and pop is a step of the queue or leaves the         *)
(* queue's contents and the popped value unchanged.                        *)
LEMMA NextRefines ==
  RInv /\ [Next]_vars => [Queue!Next]_<<Contents, popped>>
<1> SUFFICES ASSUME RInv, [Next]_vars
             PROVE  [Queue!Next]_<<Contents, popped>>
  OBVIOUS
<1>0. TypeOK
  BY DEF RInv, IInv
<1>1. ASSUME NEW v \in Values, PushBegin(v)
      PROVE  UNCHANGED <<Contents, popped>>
  BY <1>1 DEF PushBegin, Contents, Count
<1>2. CASE PushWrite
  <2>1. /\ head' = head /\ tail' = tail /\ popped' = popped
        /\ buffer' = [buffer EXCEPT ![tail] = pitem]
    BY <1>2 DEF PushWrite
  <2>2. Count' = Count
    BY <2>1 DEF Count
  <2>3. \A i \in 1 .. Count :
          buffer'[(head + i - 1) % Capacity] = buffer[(head + i - 1) % Capacity]
    BY <1>0, <2>1, ContentsSlot DEF TypeOK
  <2>4. QED
    BY <2>1, <2>2, <2>3 DEF Contents
<1>3. CASE PushPublish
  <2>1. pitem \in Values
    BY <1>3 DEF RInv, PendingItemIsValue, PushPublish
  <2>2. QED
    BY <1>3, <2>1, PushPublishRefines DEF Queue!Next
<1>4. CASE PopBegin
  BY <1>4 DEF PopBegin, Contents, Count
<1>5. CASE PopRead
  BY <1>5 DEF PopRead, Contents, Count
<1>6. CASE PopPublish
  BY <1>6, PopPublishRefines DEF Queue!Next
<1>7. CASE UNCHANGED vars
  BY <1>7 DEF vars, Contents, Count
<1>8. QED
  BY <1>1, <1>2, <1>3, <1>4, <1>5, <1>6, <1>7 DEF Next

(* The ring implements the queue contract of SPSCQueue for every           *)
(* power-of-two Capacity: the values between head and tail are pushed in   *)
(* order, popped from the front, never invented and never popped twice,   *)
(* whatever the interleaving of push's and pop's atomic steps.             *)
THEOREM ImplementsQueue == Spec => QueueRefinement
<1>1. Init => Queue!Init
  BY CapacityPositive DEF Init, Queue!Init, Contents, Count
<1>2. QED
  BY <1>1, InitRInv, NextRInv, NextRefines, PTL
  DEF Spec, QueueRefinement, Queue!Spec, Queue!vars
=============================================================================
