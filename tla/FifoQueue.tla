----------------------------- MODULE FifoQueue -----------------------------
(***************************************************************************)
(* What apt_cyclic_queue.h promises: a "Cyclic FIFO Queue of Opaque void*  *)
(* Objects".  The queue is unbounded, push appends, pop takes the oldest   *)
(* object or answers NULL on an empty queue, clear forgets everything.     *)
(***************************************************************************)
EXTENDS Sequences

CONSTANTS Object,    \* the objects that callers push
          NoObject   \* the answer of pop on an empty queue

VARIABLES q,         \* the objects in the queue, the oldest first
          popped     \* what the last call of pop returned

Init == q = <<>> /\ popped = NoObject

Push(o) == q' = Append(q, o) /\ UNCHANGED popped

Pop ==
    \/ q # <<>> /\ popped' = Head(q) /\ q' = Tail(q)
    \/ q = <<>> /\ popped' = NoObject /\ UNCHANGED q

Clear == q' = <<>> /\ UNCHANGED popped

Next == (\E o \in Object : Push(o)) \/ Pop \/ Clear

Spec == Init /\ [][Next]_<<q, popped>>
=============================================================================
