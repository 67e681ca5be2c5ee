---------------------------- MODULE CyclicQueue ----------------------------
(***************************************************************************)
(* libs/apr-toolkit/src/apt_cyclic_queue.c: the ring that holds the        *)
(* messages signalled to a poller task.  It grows by half its size when a  *)
(* push finds it full, moving the ring so that its oldest element lands at *)
(* index 0.  Every caller holds the guard mutex of the poller task around  *)
(* a call, so a call is one step.                                          *)
(***************************************************************************)
EXTENDS Integers, Sequences

CONSTANTS Object,      \* what callers push
          NoObject,    \* the NULL pointer
          Garbage,     \* the content of a cell nobody has written yet
          InitialSize, \* the size given to apt_cyclic_queue_create
          MaxPushed    \* bound of the model: no push at this many elements

ASSUME SizeAssumption == InitialSize \in Nat /\ InitialSize >= 2
ASSUME BoundAssumption == MaxPushed \in Nat

VARIABLES data,        \* [0 .. max_size - 1 -> cells]
          max_size, actual_size, head, tail,
          popped       \* the last value apt_cyclic_queue_pop returned

vars == <<data, max_size, actual_size, head, tail, popped>>

(* apt_cyclic_queue_create *)
Init ==
    /\ data = [i \in 0 .. InitialSize - 1 |-> Garbage]
    /\ max_size = InitialSize
    /\ actual_size = 0
    /\ head = 0
    /\ tail = 0
    /\ popped = NoObject

NewSize == max_size + max_size \div 2

(* A resize that forgets that the oldest element sits at head, not at 0. *)
ResizedDataNoRotate ==
    [i \in 0 .. NewSize - 1 |-> IF i < max_size THEN data[i] ELSE Garbage]

(* The cells after apt_cyclic_queue_resize: the part of the ring from head *)
(* to the end of the array comes first, then the part before head.         *)
ResizedData ==
    LET offset == max_size - head
    IN  [i \in 0 .. NewSize - 1 |->
            IF i < offset THEN data[head + i]
            ELSE IF i < max_size THEN data[i - offset]
            ELSE Garbage]

(* apt_cyclic_queue_push into a ring with room *)
PushInPlace(o) ==
    /\ actual_size < max_size
    /\ data' = [data EXCEPT ![head] = o]
    /\ head' = (head + 1) % max_size
    /\ actual_size' = actual_size + 1
    /\ UNCHANGED <<max_size, tail, popped>>

(* apt_cyclic_queue_push into a full ring: resize, then write *)
PushResized(o) ==
    /\ actual_size >= max_size
    /\ data' = [ResizedData EXCEPT ![max_size] = o]
    /\ head' = (max_size + 1) % NewSize
    /\ tail' = 0
    /\ max_size' = NewSize
    /\ actual_size' = actual_size + 1
    /\ UNCHANGED popped

Push(o) == actual_size < MaxPushed /\ (PushInPlace(o) \/ PushResized(o))

(* apt_cyclic_queue_pop *)
Pop ==
    \/ /\ actual_size # 0
       /\ popped' = data[tail]
       /\ tail' = (tail + 1) % max_size
       /\ actual_size' = actual_size - 1
       /\ UNCHANGED <<data, max_size, head>>
    \/ /\ actual_size = 0
       /\ popped' = NoObject
       /\ UNCHANGED <<data, max_size, actual_size, head, tail>>

(* apt_cyclic_queue_clear *)
Clear ==
    /\ actual_size' = 0
    /\ head' = 0
    /\ tail' = 0
    /\ UNCHANGED <<data, max_size, popped>>

(* apt_cyclic_queue_is_empty, as the code computes it *)
IsEmpty == actual_size # 0

Next == (\E o \in Object : Push(o)) \/ Pop \/ Clear

Spec == Init /\ [][Next]_vars
-----------------------------------------------------------------------------
(* The read and write indices of apt_cyclic_queue_push and _pop stay       *)
(* inside the array, however it wraps around and grows.                    *)
TypeOK ==
    /\ max_size \in Nat /\ max_size >= 2
    /\ actual_size \in 0 .. max_size
    /\ head \in 0 .. max_size - 1
    /\ tail \in 0 .. max_size - 1
    /\ data \in [0 .. max_size - 1 -> Object \cup {Garbage}]
    /\ popped \in Object \cup {NoObject, Garbage}

(* The elements of the ring, the oldest first. *)
Contents == [i \in 1 .. actual_size |-> data[(tail + i - 1) % max_size]]

Fifo == INSTANCE FifoQueue WITH q <- Contents

(* Whatever the interleaving of pushes, pops and clears, and however often *)
(* the ring wraps around and is resized, callers see a FIFO queue: no      *)
(* message signalled to a poller task is lost, duplicated or overtaken.    *)
RefinesFifo == Fifo!Spec

=============================================================================
