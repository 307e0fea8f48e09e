------------------------------ MODULE SPSCQueue ------------------------------
(***************************************************************************)
(* What Hyperion::Core::LockFreeRingBuffer<T, Capacity> promises to its    *)
(* one producer and its one consumer: a bounded FIFO queue that holds at   *)
(* most Capacity - 1 values (one slot always stays empty to tell a full    *)
(* ring from an empty one), where push appends atomically and pop removes  *)
(* the front value and hands it to the consumer.  A failed push or an      *)
(* empty pop changes nothing and is a stuttering step here.                *)
(***************************************************************************)
EXTENDS Naturals, Sequences

CONSTANTS
  Capacity,   \* the template parameter Capacity
  Values,     \* the values the producer pushes
  NoValue     \* what the consumer holds before its first pop

VARIABLES
  queue,      \* the values pushed and not yet popped, oldest first
  popped      \* the value returned by the consumer's most recent pop

vars == <<queue, popped>>

Init ==
  /\ queue = << >>
  /\ popped = NoValue

Push(v) ==
  /\ Len(queue) < Capacity - 1
  /\ queue' = Append(queue, v)
  /\ UNCHANGED popped

Pop ==
  /\ queue # << >>
  /\ popped' = Head(queue)
  /\ queue' = Tail(queue)

Next == (\E v \in Values : Push(v)) \/ Pop

Spec == Init /\ [][Next]_vars
=============================================================================
