--------------------------- MODULE SPSCRingBuffer ---------------------------
(***************************************************************************)
(* Hyperion::Core::LockFreeRingBuffer<T, Capacity>                         *)
(* (include/core/LockFreeRingBuffer.hpp): the single-producer,             *)
(* single-consumer ring that carries ingested text from the main thread    *)
(* (ProcessingUnit::Ingest) to the analysis worker thread                  *)
(* (ProcessingUnit::AnalysisWorker).                                       *)
(*                                                                         *)
(* push and pop are each split at the points where the other thread can    *)
(* act in between: push loads head and decides, writes the slot, then      *)
(* publishes tail; pop loads tail and decides, copies the slot, then       *)
(* publishes head.  Every atomic load and store is one step of an          *)
(* interleaving.  The acquire loads and release stores of the code are     *)
(* what make this interleaving view sound: the slot write happens-before   *)
(* the tail store that publishes it, and the slot read happens-before the  *)
(* head store that frees it.  A relaxed store would let the index be seen  *)
(* before the slot, which no interleaving of these steps can show.        *)
(*                                                                         *)
(* The index wrap (i + 1) & (Capacity - 1) is written (i + 1) % Capacity,  *)
(* the same function because Capacity is a power of two.  A push that     *)
(* finds the ring full and a pop that finds it empty return without        *)
(* writing anything, so they are stuttering steps and have no action.      *)
(* peek() has no caller in the repository and writes nothing.              *)
(***************************************************************************)
EXTENDS Naturals, Sequences

CONSTANTS
  Capacity,   \* the template parameter Capacity
  Values,     \* the values the producer pushes
  NoValue     \* a slot or copy that holds no pushed value yet

ASSUME CapacityPositive == Capacity \in Nat \ {0}
ASSUME CapacityPowerOfTwo == \E k \in 0 .. Capacity : 2 ^ k = Capacity
ASSUME NoValueIsNotAValue == NoValue \notin Values

VARIABLES
  head,     \* m_head, written only by the consumer
  tail,     \* m_tail, written only by the producer
  buffer,   \* m_buffer[Capacity]
  ppc,      \* where the producer is inside push
  pitem,    \* the item argument of the push in progress
  cpc,      \* where the consumer is inside pop
  citem,    \* the local copy `T item = m_buffer[current_head]`
  popped    \* the value the last completed pop returned

vars == <<head, tail, buffer, ppc, pitem, cpc, citem, popped>>

Slots == 0 .. Capacity - 1

(* (i + 1) & (Capacity - 1): the slot after slot i. *)
NextSlot(i) == (i + 1) % Capacity

(* The number of values between head and tail in circular order. *)
Count == (tail - head + Capacity) % Capacity

(* The values the ring holds, oldest first. *)
Contents == [i \in 1 .. Count |-> buffer[(head + i - 1) % Capacity]]

Init ==
  /\ head = 0
  /\ tail = 0
  /\ buffer = [i \in Slots |-> NoValue]
  /\ ppc = "idle"
  /\ pitem = NoValue
  /\ cpc = "idle"
  /\ citem = NoValue
  /\ popped = NoValue

-----------------------------------------------------------------------------
(* Plausible bugs of the code below, each standing in for one definition   *)
(* to show that a property catches it.                                     *)

(* push without the full check. *)
PushBeginNoFullCheck(v) ==
  /\ ppc = "idle"
  /\ ppc' = "write"
  /\ pitem' = v
  /\ UNCHANGED <<head, tail, buffer, cpc, citem, popped>>

(* push writes the slot at next_tail instead of current_tail. *)
PushWriteAtNext ==
  /\ ppc = "write"
  /\ buffer' = [buffer EXCEPT ![NextSlot(tail)] = pitem]
  /\ ppc' = "publish"
  /\ UNCHANGED <<head, tail, pitem, cpc, citem, popped>>

(* the tail store without the & (Capacity - 1) mask. *)
PushPublishNoMask ==
  /\ ppc = "publish"
  /\ tail' = tail + 1
  /\ ppc' = "idle"
  /\ pitem' = NoValue
  /\ UNCHANGED <<head, buffer, cpc, citem, popped>>

(* pop taking a ring with one value for empty. *)
PopBeginOffByOne ==
  /\ cpc = "idle"
  /\ NextSlot(head) # tail
  /\ head # tail
  /\ cpc' = "read"
  /\ UNCHANGED <<head, tail, buffer, ppc, pitem, citem, popped>>

-----------------------------------------------------------------------------
(* Producer: push(item).                                                   *)

(* Loads m_tail (relaxed) and m_head (acquire); the ring is not full, so   *)
(* the push goes on.  When next_tail == current_head it returns false.     *)
PushBegin(v) ==
  /\ ppc = "idle"
  /\ NextSlot(tail) # head
  /\ ppc' = "write"
  /\ pitem' = v
  /\ UNCHANGED <<head, tail, buffer, cpc, citem, popped>>

(* m_buffer[current_tail] = item; *)
PushWrite ==
  /\ ppc = "write"
  /\ buffer' = [buffer EXCEPT ![tail] = pitem]
  /\ ppc' = "publish"
  /\ UNCHANGED <<head, tail, pitem, cpc, citem, popped>>

(* m_tail.store(next_tail, release); return true; *)
PushPublish ==
  /\ ppc = "publish"
  /\ tail' = NextSlot(tail)
  /\ ppc' = "idle"
  /\ pitem' = NoValue
  /\ UNCHANGED <<head, buffer, cpc, citem, popped>>

-----------------------------------------------------------------------------
(* Consumer: pop().                                                        *)

(* Loads m_head (relaxed) and m_tail (acquire); the ring is not empty. *)
PopBegin ==
  /\ cpc = "idle"
  /\ head # tail
  /\ cpc' = "read"
  /\ UNCHANGED <<head, tail, buffer, ppc, pitem, citem, popped>>

(* T item = m_buffer[current_head]; *)
PopRead ==
  /\ cpc = "read"
  /\ citem' = buffer[head]
  /\ cpc' = "publish"
  /\ UNCHANGED <<head, tail, buffer, ppc, pitem, popped>>

(* m_head.store(next_head, release); return item; *)
PopPublish ==
  /\ cpc = "publish"
  /\ head' = NextSlot(head)
  /\ popped' = citem
  /\ cpc' = "idle"
  /\ UNCHANGED <<tail, buffer, ppc, pitem, citem>>

-----------------------------------------------------------------------------
Next ==
  \/ \E v \in Values : PushBegin(v)
  \/ PushWrite
  \/ PushPublish
  \/ PopBegin
  \/ PopRead
  \/ PopPublish

(* The consumer is the analysis worker, an OS thread that calls pop() in a *)
(* loop (sleeping 10 ms between empty polls), so once it has begun a pop   *)
(* it finishes it and it keeps polling.  Nothing obliges the producer to   *)
(* push, so the producer gets no fairness.                                 *)
Fairness ==
  /\ WF_vars(PopBegin)
  /\ WF_vars(PopRead)
  /\ WF_vars(PopPublish)

Spec == Init /\ [][Next]_vars /\ Fairness

-----------------------------------------------------------------------------
(* Properties.                                                             *)

TypeOK ==
  /\ head \in Slots
  /\ tail \in Slots
  /\ buffer \in [Slots -> Values \cup {NoValue}]
  /\ ppc \in {"idle", "write", "publish"}
  /\ pitem \in Values \cup {NoValue}
  /\ cpc \in {"idle", "read", "publish"}
  /\ citem \in Values \cup {NoValue}
  /\ popped \in Values \cup {NoValue}

(* The producer's slot write and the consumer's slot read are never about  *)
(* to touch the same slot at the same time: push writes m_buffer[tail]     *)
(* only after seeing a head that leaves that slot free, and pop reads      *)
(* m_buffer[head] only after seeing a tail past it.  Two such concurrent   *)
(* accesses would be a data race on a std::string.                         *)
NoDataRace ==
  ~(ppc = "write" /\ cpc = "read" /\ tail = head)

(* The ring implements the bounded FIFO queue of SPSCQueue: its contents   *)
(* between head and tail are the abstract queue, and every pop hands the   *)
(* consumer the value the queue had at its front.                          *)
Queue == INSTANCE SPSCQueue WITH queue <- Contents

QueueRefinement == Queue!Spec

(* Whenever the ring holds a value, the consumer eventually takes it: the  *)
(* head moves on from every slot it rests on while the ring is non-empty.  *)
FrontEventuallyPopped ==
  \A h \in Slots : (head = h /\ Count > 0) ~> (head # h)
=============================================================================
