--------------------------- MODULE LibraryProofs ---------------------------
(***************************************************************************)
(* Proofs about the parts of the two libraries that stand by themselves:   *)
(* the cyclic queue of apr-toolkit, for every initial size of at least     *)
(* two; and of mpf the frame buffer, for every number of frames, as long   *)
(* as mpf_frame_buffer_restart overlaps no other call, the activity        *)
(* detector, for all time-outs, and the DTMF detector, for any tones.      *)
(***************************************************************************)
EXTENDS CyclicQueue, FrameBuffer, ActivityDetector, DtmfDetector, SequenceTheorems, TLAPS

(* Append, index by index *)
LEMMA AppendAsFunction ==
    ASSUME NEW S, NEW s \in Seq(S), NEW e \in S
    PROVE  Append(s, e) = [i \in 1 .. Len(s) + 1 |-> IF i <= Len(s) THEN s[i] ELSE e]
<1>1. /\ Append(s, e) \in Seq(S) /\ Len(Append(s, e)) = Len(s) + 1 /\ Len(s) \in Nat
      /\ \A i \in 1 .. Len(s) + 1 : Append(s, e)[i] = IF i <= Len(s) THEN s[i] ELSE e
  OBVIOUS
<1>2. Append(s, e) \in [1 .. Len(s) + 1 -> S]
  BY Zenon, <1>1, LenProperties
<1> QED BY Zenon, <1>1, <1>2

(* Tail, index by index *)
LEMMA TailAsFunction ==
    ASSUME NEW S, NEW s \in Seq(S), s # <<>>
    PROVE  Tail(s) = [i \in 1 .. Len(s) - 1 |-> s[i + 1]]
<1>1. Tail(s) \in [1 .. Len(s) - 1 -> S]
  BY Zenon, HeadTailProperties, LenProperties
<1> QED BY Zenon, <1>1, HeadTailProperties
-----------------------------------------------------------------------------
(* The write index is the read index advanced by the number of elements.   *)
(* This is what makes the copy of a resize, which starts at head, start at *)
(* the oldest element: in a full ring head = tail.                         *)
RingInv ==
    /\ TypeOK
    /\ head = IF tail + actual_size < max_size THEN tail + actual_size
              ELSE tail + actual_size - max_size

(* One step forward, and i steps forward, in a ring of n cells. *)
LEMMA ModIndex ==
    ASSUME NEW n \in Nat, n >= 1, NEW a \in 0 .. n - 1, NEW i \in 0 .. n
    PROVE  (a + i) % n = IF a + i < n THEN a + i ELSE a + i - n
<1>1. CASE a + i < n
  BY <1>1
<1>2. CASE a + i >= n
  <2>1. a + i = n * 1 + (a + i - n) /\ a + i - n \in 0 .. n - 1
    BY <1>2
  <2> QED BY <1>2, <2>1
<1> QED BY <1>1, <1>2

(* The write index after a push, the read index after a pop *)
LEMMA ModNext ==
    ASSUME NEW n \in Nat, n >= 1, NEW a \in 0 .. n - 1
    PROVE  (a + 1) % n = IF a + 1 < n THEN a + 1 ELSE a + 1 - n
  BY 1 \in 0 .. n, ModIndex

(* apt_cyclic_queue_create makes a ring that satisfies the invariant. *)
LEMMA RingInvInit == Init => RingInv
  BY SizeAssumption DEF Init, RingInv, TypeOK

(* A resize of a full ring keeps its elements in order from index 0 on. *)
LEMMA ResizeKeepsContents ==
    ASSUME RingInv, actual_size >= max_size, NEW i \in 0 .. max_size - 1
    PROVE  ResizedData[i] = data[(tail + i) % max_size]
<1>1. actual_size = max_size /\ head = tail /\ tail \in 0 .. max_size - 1
  BY DEF RingInv, TypeOK
<1>2. (tail + i) % max_size = IF tail + i < max_size THEN tail + i ELSE tail + i - max_size
  BY <1>1, max_size \in Nat, max_size >= 1, i \in 0 .. max_size, ModIndex DEF RingInv, TypeOK
<1>3. i \in 0 .. NewSize - 1
  BY DEF NewSize, RingInv, TypeOK
<1> QED BY <1>1, <1>2, <1>3 DEF ResizedData, RingInv, TypeOK

(* Every push, pop and clear keeps the invariant. *)
LEMMA RingInvNext == RingInv /\ [Next]_vars => RingInv'
<1> SUFFICES ASSUME RingInv, [Next]_vars PROVE RingInv'
  OBVIOUS
<1> USE DEF RingInv, TypeOK
<1>1. ASSUME NEW o \in Object, PushInPlace(o) PROVE RingInv'
  <2>1. (head + 1) % max_size = IF head + 1 < max_size THEN head + 1 ELSE head + 1 - max_size
    BY max_size >= 1, ModNext
  <2>2. head' = IF head + 1 < max_size THEN head + 1 ELSE head + 1 - max_size
    BY Zenon, <1>1, <2>1 DEF PushInPlace
  <2>3. /\ actual_size < max_size /\ actual_size' = actual_size + 1
        /\ max_size' = max_size /\ tail' = tail
    BY Zenon, <1>1 DEF PushInPlace
  <2>4. data' \in [0 .. max_size - 1 -> Object \cup {Garbage}] /\ popped' = popped
    BY Zenon, <1>1 DEF PushInPlace
  <2> QED BY <2>2, <2>3, <2>4
<1>2. ASSUME NEW o \in Object, PushResized(o) PROVE RingInv'
  <2>1. NewSize \in Nat /\ NewSize >= max_size + 1
    BY DEF NewSize
  <2>2. head' = IF max_size + 1 < NewSize THEN max_size + 1 ELSE max_size + 1 - NewSize
    <3>1. max_size \in 0 .. NewSize - 1 /\ NewSize >= 1
      BY <2>1
    <3> QED BY Zenon, <1>2, <2>1, <3>1, ModNext DEF PushResized
  <2>3. ResizedData \in [0 .. NewSize - 1 -> Object \cup {Garbage}]
    BY <2>1 DEF ResizedData
  <2> QED BY <1>2, <2>1, <2>2, <2>3 DEF PushResized
<1>3. CASE Pop
  <2>1. (tail + 1) % max_size = IF tail + 1 < max_size THEN tail + 1 ELSE tail + 1 - max_size
    BY max_size >= 1, ModNext
  <2>2. CASE actual_size = 0
    BY Zenon, <1>3, <2>2 DEF Pop
  <2>3. CASE actual_size # 0
    <3>1. tail' = IF tail + 1 < max_size THEN tail + 1 ELSE tail + 1 - max_size
      BY Zenon, <1>3, <2>1, <2>3 DEF Pop
    <3>2. /\ popped' = data[tail] /\ actual_size' = actual_size - 1
          /\ data' = data /\ max_size' = max_size /\ head' = head
      BY Zenon, <1>3, <2>3 DEF Pop
    <3> QED BY <2>3, <3>1, <3>2
  <2> QED BY Zenon, <2>2, <2>3
<1>4. CASE Clear
  BY <1>4 DEF Clear
<1>5. CASE UNCHANGED vars
  BY Zenon, <1>5 DEF vars
<1> QED BY Zenon, <1>1, <1>2, <1>3, <1>4, <1>5 DEF Next, Push

(* The ring's indices stay inside the array and consistent with its size,  *)
(* through every wrap-around and resize of apt_cyclic_queue_push.          *)
THEOREM RingTypeCorrect == Spec => []TypeOK
<1>1. RingInv => TypeOK
  BY Zenon DEF RingInv
<1> QED BY RingInvInit, RingInvNext, <1>1, PTL DEF Spec
-----------------------------------------------------------------------------
(* The index of the i-th oldest element. *)
LEMMA CellOf ==
    ASSUME RingInv, NEW i \in 1 .. actual_size
    PROVE  /\ (tail + i - 1) % max_size \in 0 .. max_size - 1
           /\ (tail + i - 1) % max_size =
                 IF tail + i - 1 < max_size THEN tail + i - 1 ELSE tail + i - 1 - max_size
<1>1. /\ max_size \in Nat /\ max_size >= 1 /\ tail \in 0 .. max_size - 1
      /\ i - 1 \in 0 .. max_size /\ tail + i - 1 = tail + (i - 1)
  BY DEF RingInv, TypeOK
<1>2. (tail + (i - 1)) % max_size =
        IF tail + (i - 1) < max_size THEN tail + (i - 1) ELSE tail + (i - 1) - max_size
  BY Zenon, <1>1, ModIndex
<1> QED BY <1>1, <1>2 DEF RingInv, TypeOK

(* What a caller can pop is a sequence as long as actual_size. *)
LEMMA ContentsSeq ==
    ASSUME RingInv
    PROVE  Contents \in Seq(Object \cup {Garbage}) /\ Len(Contents) = actual_size
  BY CellOf DEF Contents, RingInv, TypeOK

(* A new ring is an empty FIFO queue. *)
LEMMA InitRefines == Init => Fifo!Init
  BY DEF Init, Fifo!Init, Contents

(* A push into a ring with room appends. *)
LEMMA PushInPlaceRefines ==
    ASSUME RingInv, NEW o \in Object, PushInPlace(o)
    PROVE  Contents' = Append(Contents, o)
<1>1. /\ actual_size' = actual_size + 1 /\ max_size' = max_size /\ tail' = tail
      /\ actual_size \in Nat
  BY DEF PushInPlace, RingInv, TypeOK
<1>2. ASSUME NEW i \in 1 .. actual_size
      PROVE  data'[(tail + i - 1) % max_size] = data[(tail + i - 1) % max_size]
  <2>1. (tail + i - 1) % max_size # head
    BY CellOf DEF PushInPlace, RingInv, TypeOK
  <2> QED BY Zenon, <2>1, CellOf DEF PushInPlace, RingInv, TypeOK
<1>3. data'[(tail + (actual_size + 1) - 1) % max_size] = o
  <2>1. (tail + actual_size) % max_size = head
    BY max_size \in Nat, max_size >= 1, tail \in 0 .. max_size - 1,
       actual_size \in 0 .. max_size, ModIndex DEF RingInv, TypeOK
  <2>2. tail + (actual_size + 1) - 1 = tail + actual_size
    BY DEF RingInv, TypeOK
  <2> QED BY Zenon, <2>1, <2>2 DEF PushInPlace, RingInv, TypeOK
<1>4. Contents' = [i \in 1 .. actual_size + 1 |-> data'[(tail + i - 1) % max_size]]
  BY Zenon, <1>1 DEF Contents
<1> QED BY <1>1, <1>2, <1>3, <1>4, ContentsSeq DEF Contents

(* A push that resizes the ring appends. *)
LEMMA PushResizedRefines ==
    ASSUME RingInv, NEW o \in Object, PushResized(o)
    PROVE  Contents' = Append(Contents, o)
<1>1. /\ actual_size' = actual_size + 1 /\ actual_size = max_size /\ max_size \in Nat
      /\ max_size >= 2 /\ max_size' = NewSize /\ tail' = 0
      /\ NewSize \in Nat /\ NewSize >= max_size + 1
  BY DEF PushResized, RingInv, TypeOK, NewSize
<1>2. ASSUME NEW i \in 1 .. max_size + 1
      PROVE  (0 + i - 1) % NewSize = i - 1
  BY <1>1
<1>3. ASSUME NEW i \in 1 .. max_size
      PROVE  data'[i - 1] = data[(tail + i - 1) % max_size]
  <2>1. i - 1 \in 0 .. max_size - 1 /\ i - 1 # max_size /\ tail + (i - 1) = tail + i - 1
    BY <1>1 DEF RingInv, TypeOK
  <2>2. ResizedData[i - 1] = data[(tail + (i - 1)) % max_size]
    BY <1>1, <2>1, ResizeKeepsContents
  <2>3. data'[i - 1] = ResizedData[i - 1]
    BY <1>1, <2>1 DEF PushResized, ResizedData
  <2> QED BY Zenon, <2>1, <2>2, <2>3
<1>4. data'[max_size] = o
  BY <1>1 DEF PushResized, ResizedData
<1>5. Contents' = [i \in 1 .. max_size + 1 |-> data'[(0 + i - 1) % NewSize]]
  BY Zenon, <1>1 DEF Contents
<1>6. Contents' = [i \in 1 .. max_size + 1 |-> data'[i - 1]]
  BY Zenon, <1>2, <1>5
<1>7. ASSUME NEW i \in 1 .. max_size + 1
      PROVE  data'[i - 1] = IF i <= max_size THEN Contents[i] ELSE o
  BY <1>1, <1>3, <1>4 DEF Contents
<1>8. Contents' = [i \in 1 .. max_size + 1 |-> IF i <= max_size THEN Contents[i] ELSE o]
  BY Zenon, <1>6, <1>7
<1> QED BY <1>1, <1>8, ContentsSeq, AppendAsFunction, o \in Object \cup {Garbage}

(* A pop takes the oldest element, or finds the queue empty. *)
LEMMA PopRefines ==
    ASSUME RingInv, actual_size # 0, Pop
    PROVE  Contents # <<>> /\ popped' = Head(Contents) /\ Contents' = Tail(Contents)
<1>1. /\ actual_size \in Nat /\ actual_size >= 1 /\ actual_size <= max_size
      /\ actual_size' = actual_size - 1
      /\ max_size' = max_size /\ data' = data /\ max_size \in Nat /\ max_size >= 2
      /\ tail \in 0 .. max_size - 1 /\ tail' = (tail + 1) % max_size
  BY DEF Pop, RingInv, TypeOK
<1>2. Contents[1] = data[tail]
  <2>1. (tail + 1 - 1) % max_size = tail
    BY <1>1, CellOf, 1 \in 1 .. actual_size
  <2> QED BY <1>1, <2>1 DEF Contents
<1>3. ASSUME NEW i \in 1 .. actual_size - 1
      PROVE  (tail' + i - 1) % max_size = (tail + (i + 1) - 1) % max_size
  <2>1. tail' = IF tail + 1 < max_size THEN tail + 1 ELSE 0
    BY <1>1, max_size >= 1, ModNext
  <2>2. tail' \in 0 .. max_size - 1 /\ i - 1 \in 0 .. max_size /\ i \in 0 .. max_size
    BY <1>1, <2>1
  <2>3. (tail' + (i - 1)) % max_size =
          IF tail' + (i - 1) < max_size THEN tail' + (i - 1) ELSE tail' + (i - 1) - max_size
    BY <1>1, <2>2, max_size >= 1, ModIndex
  <2>4. (tail + i) % max_size = IF tail + i < max_size THEN tail + i ELSE tail + i - max_size
    BY <1>1, <2>2, max_size >= 1, ModIndex
  <2>5. tail' + i - 1 = tail' + (i - 1) /\ tail + (i + 1) - 1 = tail + i
    BY <1>1, <2>2
  <2>6. (tail' + (i - 1)) % max_size = (tail + i) % max_size
    BY <1>1, <2>1, <2>2, <2>3, <2>4
  <2> QED BY Zenon, <2>5, <2>6
<1>4. Contents' = [i \in 1 .. actual_size - 1 |-> Contents[i + 1]]
  <2>1. Contents' = [i \in 1 .. actual_size - 1 |-> data[(tail' + i - 1) % max_size]]
    BY Zenon, <1>1 DEF Contents
  <2>2. ASSUME NEW i \in 1 .. actual_size - 1
        PROVE  Contents[i + 1] = data[(tail + (i + 1) - 1) % max_size]
    BY <1>1 DEF Contents
  <2> QED BY Zenon, <1>3, <2>1, <2>2
<1>5. popped' = data[tail]
  BY Zenon DEF Pop
<1>6. Contents # <<>> /\ Head(Contents) = Contents[1]
  BY <1>1, ContentsSeq
<1>7. Tail(Contents) = [i \in 1 .. actual_size - 1 |-> Contents[i + 1]]
  BY Zenon, <1>6, ContentsSeq, TailAsFunction
<1> QED BY Zenon, <1>2, <1>4, <1>5, <1>6, <1>7

(* Every step of the ring is a step of the FIFO queue it promises to be,   *)
(* for every initial size, every set of objects and any number of resizes. *)
THEOREM CyclicQueueRefinesFifo == Spec => RefinesFifo
<1>1. RingInv /\ [Next]_vars => [Fifo!Next]_<<Contents, popped>>
  <2> SUFFICES ASSUME RingInv, [Next]_vars PROVE [Fifo!Next]_<<Contents, popped>>
    OBVIOUS
  <2>1. ASSUME NEW o \in Object, Push(o) PROVE Fifo!Push(o)
    BY Zenon, <2>1, PushInPlaceRefines, PushResizedRefines
       DEF Push, PushInPlace, PushResized, Fifo!Push
  <2>2. CASE Pop /\ actual_size # 0
    BY Zenon, <2>2, PopRefines DEF Fifo!Next, Fifo!Pop
  <2>3. CASE Pop /\ actual_size = 0
    <3>1. Contents = <<>> /\ Contents' = Contents /\ popped' = NoObject
      BY <2>3 DEF Contents, Pop
    <3> QED BY Zenon, <3>1 DEF Fifo!Next, Fifo!Pop
  <2>4. CASE Clear
    <3>1. Contents' = <<>> /\ popped' = popped
      BY <2>4 DEF Contents, Clear
    <3> QED BY Zenon, <3>1 DEF Fifo!Next, Fifo!Clear
  <2>5. CASE UNCHANGED vars
    BY Zenon, <2>5 DEF vars, Contents
  <2> QED BY Zenon, <2>1, <2>2, <2>3, <2>4, <2>5 DEF Next, Fifo!Next
<1> QED BY RingInvInit, RingInvNext, InitRefines, <1>1, PTL DEF Spec, RefinesFifo, Fifo!Spec
-----------------------------------------------------------------------------
(* The positions and the frames between them; the write that has copied a  *)
(* frame and not counted it has put it behind the last one.                *)
FrameInv ==
    /\ frames \in [0 .. FrameCount - 1 -> Audio \cup {NULL}]
    /\ write_pos \in Nat /\ read_pos \in Nat
    /\ write_pos - read_pos \in 0 .. FrameCount
    /\ unwritten \in Seq(Audio)
    /\ loaded = NULL
    /\ copied # NULL => /\ copied = write_pos /\ write_pos - read_pos < FrameCount
                        /\ frames[write_pos % FrameCount] \in Audio
    /\ \A p \in read_pos .. write_pos - 1 : frames[p % FrameCount] \in Audio

(* Two positions less than a round of the ring apart have different cells. *)
LEMMA Apart ==
    ASSUME NEW n \in Nat, n >= 1, NEW p \in Nat, NEW d \in 1 .. n - 1
    PROVE  p % n # (p + d) % n
<1> SUFFICES ASSUME p % n = (p + d) % n PROVE FALSE
  OBVIOUS
<1>1. p = n * (p \div n) + (p % n) /\ p + d = n * ((p + d) \div n) + ((p + d) % n)
  OBVIOUS
<1> DEFINE a == p \div n
           b == (p + d) \div n
<1>2. a \in Int /\ b \in Int
  OBVIOUS
<1>3. d = n * b - n * a
  BY <1>1
<1> HIDE DEF a, b
<1>4. n * b - n * a = n * (b - a)
  BY <1>2
<1>5. CASE b - a <= 0
  <2>1. n * (b - a) <= 0
    BY <1>2, <1>5
  <2> QED BY <1>3, <1>4, <2>1
<1>6. CASE b - a >= 1
  <2>1. n * (b - a) >= n
    BY <1>2, <1>6
  <2> QED BY <1>3, <1>4, <2>1
<1> QED BY <1>2, <1>5, <1>6

(* The cell of a position *)
LEMMA Cell ==
    ASSUME FrameAssumption, NEW p \in Nat
    PROVE  p % FrameCount \in 0 .. FrameCount - 1
  BY DEF FrameAssumption

(* The cell that is written is none of those that wait. *)
LEMMA CellIsFree ==
    ASSUME FrameAssumption, FrameInv, write_pos - read_pos < FrameCount,
           NEW p \in read_pos .. write_pos - 1
    PROVE  p % FrameCount # write_pos % FrameCount
<1>1. p \in Nat /\ write_pos - p \in 1 .. FrameCount - 1 /\ p + (write_pos - p) = write_pos
  BY DEF FrameInv, FrameAssumption
<1>2. p % FrameCount # (p + (write_pos - p)) % FrameCount
  BY Zenon, <1>1, Apart DEF FrameAssumption
<1> QED BY Zenon, <1>1, <1>2

(* The cell that is read is none of those behind it. *)
LEMMA CellIsRead ==
    ASSUME FrameAssumption, FrameInv, NEW p \in read_pos + 1 .. write_pos - 1
    PROVE  p % FrameCount # read_pos % FrameCount
<1>1. read_pos \in Nat /\ p - read_pos \in 1 .. FrameCount - 1 /\ read_pos + (p - read_pos) = p
  BY DEF FrameInv, FrameAssumption
<1>2. read_pos % FrameCount # (read_pos + (p - read_pos)) % FrameCount
  BY Zenon, <1>1, Apart DEF FrameAssumption
<1> QED BY Zenon, <1>1, <1>2

-----------------------------------------------------------------------------
(* The invariant holds for the empty buffer of mpf_frame_buffer_create. *)
LEMMA FrameInvInit == FrameAssumption /\ FrameInit => FrameInv
  BY DEF FrameAssumption, FrameInit, FrameInv

(* Each step of mpf_frame_buffer_write and mpf_frame_buffer_read keeps it. *)
LEMMA WriteCopyInv == FrameAssumption /\ FrameInv /\ WriteCopy => FrameInv'
<1> SUFFICES ASSUME FrameAssumption, FrameInv, WriteCopy PROVE FrameInv'
  OBVIOUS
<1>1. /\ write_pos - read_pos < FrameCount /\ copied' = write_pos
      /\ write_pos' = write_pos /\ read_pos' = read_pos /\ loaded' = loaded
  BY DEF WriteCopy, Room, FrameAssumption, FrameInv
<1>2. Head(unwritten) \in Audio /\ unwritten' \in Seq(Audio)
  BY DEF WriteCopy, FrameInv
<1>3. write_pos % FrameCount \in 0 .. FrameCount - 1
  BY Zenon, Cell DEF FrameInv
<1>4. frames' = [frames EXCEPT ![write_pos % FrameCount] = Head(unwritten)]
  BY Zenon DEF WriteCopy
<1>5. frames' \in [0 .. FrameCount - 1 -> Audio \cup {NULL}] /\ frames'[write_pos % FrameCount] \in Audio
  BY Zenon, <1>2, <1>3, <1>4 DEF FrameInv
<1>6. ASSUME NEW p \in read_pos .. write_pos - 1 PROVE frames'[p % FrameCount] \in Audio
  <2>1. p \in Nat /\ p % FrameCount # write_pos % FrameCount
    BY <1>1, CellIsFree DEF FrameInv
  <2>2. frames'[p % FrameCount] = frames[p % FrameCount]
    BY Zenon, <1>4, <2>1, Cell DEF FrameInv
  <2> QED BY Zenon, <2>2 DEF FrameInv
<1> QED BY Zenon, <1>1, <1>2, <1>5, <1>6 DEF FrameInv

(* ... the counting of a frame that was copied *)
LEMMA WriteCountInv == FrameAssumption /\ FrameInv /\ WriteCount => FrameInv'
<1> SUFFICES ASSUME FrameAssumption, FrameInv, WriteCount PROVE FrameInv'
  OBVIOUS
<1>1. /\ write_pos' = write_pos + 1 /\ copied' = NULL /\ frames' = frames /\ read_pos' = read_pos
      /\ unwritten' = unwritten /\ loaded' = loaded
      /\ write_pos - read_pos < FrameCount /\ frames[write_pos % FrameCount] \in Audio
  BY Zenon DEF WriteCount, FrameInv
<1>2. \A p \in read_pos .. write_pos : frames[p % FrameCount] \in Audio
  BY <1>1 DEF FrameInv
<1>3. write_pos + 1 \in Nat /\ (write_pos + 1) - read_pos \in 0 .. FrameCount /\ (write_pos + 1) - 1 = write_pos
  BY <1>1 DEF FrameInv, FrameAssumption
<1> QED BY Zenon, <1>1, <1>2, <1>3 DEF FrameInv

(* ... and the reading of one *)
LEMMA FrameReadInv == FrameAssumption /\ FrameInv /\ FrameRead => FrameInv'
<1> SUFFICES ASSUME FrameAssumption, FrameInv, FrameRead PROVE FrameInv'
  OBVIOUS
<1>1. CASE write_pos <= read_pos
  <2>1. UNCHANGED <<frames, write_pos, read_pos, unwritten, copied, loaded>>
    BY <1>1 DEF FrameRead, FrameInv
  <2> QED BY Zenon, <2>1 DEF FrameInv
<1>2. CASE write_pos > read_pos
  <2>1. /\ frames' = [frames EXCEPT ![read_pos % FrameCount] = NULL]
        /\ read_pos' = read_pos + 1 /\ write_pos' = write_pos /\ unwritten' = unwritten /\ loaded' = loaded
        /\ copied' = NULL
    BY <1>2 DEF FrameRead, FrameInv, Free
  <2>2. read_pos % FrameCount \in 0 .. FrameCount - 1
    BY Zenon, Cell DEF FrameInv
  <2>3. frames' \in [0 .. FrameCount - 1 -> Audio \cup {NULL}]
    BY Zenon, <2>1, <2>2 DEF FrameInv
  <2>4. read_pos + 1 \in Nat /\ write_pos - (read_pos + 1) \in 0 .. FrameCount
    BY <1>2 DEF FrameInv, FrameAssumption
  <2>5. ASSUME NEW p \in read_pos + 1 .. write_pos - 1 PROVE frames'[p % FrameCount] \in Audio
    <3>1. p \in Nat /\ p \in read_pos .. write_pos - 1 /\ p % FrameCount # read_pos % FrameCount
      BY CellIsRead DEF FrameInv
    <3>2. frames'[p % FrameCount] = frames[p % FrameCount]
      BY Zenon, <2>1, <3>1, Cell DEF FrameInv
    <3> QED BY Zenon, <3>1, <3>2 DEF FrameInv
  <2> QED BY Zenon, <2>1, <2>3, <2>4, <2>5 DEF FrameInv
<1> QED BY <1>1, <1>2 DEF FrameInv

(* Every access keeps the invariant, when no restart overlaps it. *)
LEMMA FrameInvNext == FrameAssumption /\ ~Overlap /\ FrameInv /\ [FrameNext]_frameVars => FrameInv'
<1> SUFFICES ASSUME FrameAssumption, ~Overlap, FrameInv, [FrameNext]_frameVars PROVE FrameInv'
  OBVIOUS
<1>1. ASSUME NEW chunk \in Chunk, WriteBegin(chunk) PROVE FrameInv'
  BY Zenon, <1>1 DEF WriteBegin, FrameInv, FrameAssumption
<1>2. CASE WriteDrop
  BY <1>2 DEF WriteDrop, FrameInv
<1>3. CASE Restart
  BY <1>3 DEF Restart, Free, FrameInv, FrameAssumption
<1>4. CASE RestartLoad
  BY Zenon, <1>4 DEF RestartLoad
<1>5. CASE RestartStore
  BY Zenon, <1>5 DEF RestartStore, FrameInv
<1>6. CASE UNCHANGED frameVars
  BY Zenon, <1>6 DEF frameVars, FrameInv
<1> QED BY Zenon, <1>1, <1>2, <1>3, <1>4, <1>5, <1>6, WriteCopyInv, WriteCountInv, FrameReadInv
        DEF FrameNext, FrameWrite

(* Between mpf_frame_buffer_write and mpf_frame_buffer_read the positions  *)
(* keep their order and distance, and the frames that wait are filled.     *)
THEOREM PositionsKept ==
    ASSUME FrameAssumption, ~Overlap
    PROVE  FrameSpec => []FramePositions
<1>1. FrameInv => FramePositions
  BY Zenon DEF FrameInv, FramePositions, FrameAssumption
<1> QED BY FrameInvInit, FrameInvNext, <1>1, PTL DEF FrameSpec
-----------------------------------------------------------------------------
(* What waits is a sequence as long as the positions are apart. *)
LEMMA WaitingSeq ==
    ASSUME FrameAssumption, FrameInv
    PROVE  Waiting \in Seq(Audio) /\ Len(Waiting) = write_pos - read_pos
<1>1. ASSUME NEW i \in 1 .. write_pos - read_pos
      PROVE  frames[(read_pos + i - 1) % FrameCount] \in Audio
  <2>1. read_pos + i - 1 \in read_pos .. write_pos - 1
    BY DEF FrameInv, FrameAssumption
  <2> QED BY Zenon, <2>1 DEF FrameInv
<1>2. write_pos - read_pos \in Nat
  BY DEF FrameInv, FrameAssumption
<1> QED BY <1>1, <1>2 DEF Waiting

(* The copy of a frame is not seen before it is counted. *)
LEMMA CopyUnseen == FrameAssumption /\ FrameInv /\ WriteCopy => UNCHANGED <<Waiting, frame>>
<1> SUFFICES ASSUME FrameAssumption, FrameInv, WriteCopy PROVE UNCHANGED <<Waiting, frame>>
  OBVIOUS
<1>1. /\ write_pos - read_pos < FrameCount /\ write_pos' = write_pos /\ read_pos' = read_pos
      /\ frames' = [frames EXCEPT ![write_pos % FrameCount] = Head(unwritten)] /\ frame' = frame
  BY DEF WriteCopy, Room, FrameAssumption, FrameInv
<1>2. ASSUME NEW i \in 1 .. write_pos - read_pos
      PROVE  frames'[(read_pos + i - 1) % FrameCount] = frames[(read_pos + i - 1) % FrameCount]
  <2>1. read_pos + i - 1 \in Nat /\ read_pos + i - 1 \in read_pos .. write_pos - 1
    BY DEF FrameInv, FrameAssumption
  <2>2. (read_pos + i - 1) % FrameCount # write_pos % FrameCount
    BY Zenon, <1>1, <2>1, CellIsFree
  <2> QED BY Zenon, <1>1, <2>1, <2>2, Cell DEF FrameInv
<1> QED BY Zenon, <1>1, <1>2 DEF Waiting

(* The count of a frame appends it. *)
LEMMA CountAppends ==
    ASSUME FrameAssumption, FrameInv, WriteCount
    PROVE  \E a \in Audio : Waiting' = Append(Waiting, a) /\ frame' = frame
<1> DEFINE a == frames[write_pos % FrameCount]
           n == write_pos - read_pos
<1>1. /\ write_pos' = write_pos + 1 /\ frames' = frames /\ read_pos' = read_pos /\ frame' = frame
      /\ a \in Audio
  BY Zenon DEF WriteCount, FrameInv
<1>2. n \in Nat /\ (write_pos + 1) - read_pos = n + 1 /\ read_pos + (n + 1) - 1 = write_pos
  BY DEF FrameInv, FrameAssumption
<1>3. Waiting' = [i \in 1 .. n + 1 |-> frames[(read_pos + i - 1) % FrameCount]]
  BY Zenon, <1>1, <1>2 DEF Waiting
<1>4. ASSUME NEW i \in 1 .. n + 1
      PROVE  frames[(read_pos + i - 1) % FrameCount] = IF i <= n THEN Waiting[i] ELSE a
  <2>1. CASE i <= n
    BY <1>2, <2>1 DEF Waiting
  <2>2. CASE i = n + 1
    BY <1>2, <2>2
  <2> QED BY <1>2, <2>1, <2>2
<1>5. Waiting' = [i \in 1 .. n + 1 |-> IF i <= n THEN Waiting[i] ELSE a]
  BY Zenon, <1>3, <1>4
<1>6. Append(Waiting, a) = [i \in 1 .. n + 1 |-> IF i <= n THEN Waiting[i] ELSE a]
  BY <1>1, WaitingSeq, AppendAsFunction
<1> QED BY Zenon, <1>1, <1>5, <1>6

(* A read takes the oldest frame. *)
LEMMA ReadTakes ==
    ASSUME FrameAssumption, FrameInv, FrameRead, write_pos > read_pos
    PROVE  Waiting # <<>> /\ frame' = Head(Waiting) /\ Waiting' = Tail(Waiting)
<1> DEFINE n == write_pos - read_pos
<1>1. /\ frames' = [frames EXCEPT ![read_pos % FrameCount] = NULL]
      /\ read_pos' = read_pos + 1 /\ write_pos' = write_pos
      /\ frame' = frames[read_pos % FrameCount]
  BY DEF FrameRead, FrameInv
<1>2. /\ n \in Nat /\ n >= 1 /\ write_pos - (read_pos + 1) = n - 1 /\ read_pos + 1 - 1 = read_pos
      /\ read_pos \in Nat
  BY DEF FrameInv, FrameAssumption
<1>3. Waiting # <<>> /\ Head(Waiting) = Waiting[1] /\ Len(Waiting) = n
  BY <1>2, WaitingSeq
<1>4. Waiting[1] = frames[read_pos % FrameCount]
  BY <1>2 DEF Waiting
<1>5. ASSUME NEW i \in 1 .. n - 1
      PROVE  frames'[((read_pos + 1) + i - 1) % FrameCount] = Waiting[i + 1]
  <2>1. /\ (read_pos + 1) + i - 1 = read_pos + (i + 1) - 1
        /\ read_pos + (i + 1) - 1 \in read_pos + 1 .. write_pos - 1
        /\ read_pos + (i + 1) - 1 \in Nat /\ i + 1 \in 1 .. n
    BY <1>2 DEF FrameInv, FrameAssumption
  <2>2. (read_pos + (i + 1) - 1) % FrameCount # read_pos % FrameCount
    BY Zenon, <2>1, CellIsRead
  <2>3. frames'[(read_pos + (i + 1) - 1) % FrameCount] = frames[(read_pos + (i + 1) - 1) % FrameCount]
    BY Zenon, <1>1, <2>1, <2>2, Cell DEF FrameInv
  <2>4. Waiting[i + 1] = frames[(read_pos + (i + 1) - 1) % FrameCount]
    BY Zenon, <2>1 DEF Waiting
  <2> QED BY Zenon, <2>1, <2>3, <2>4
<1>6. Waiting' = [i \in 1 .. n - 1 |-> frames'[((read_pos + 1) + i - 1) % FrameCount]]
  BY <1>1, <1>2 DEF Waiting
<1>7. Waiting' = [i \in 1 .. n - 1 |-> Waiting[i + 1]]
  BY Zenon, <1>5, <1>6
<1>8. Tail(Waiting) = [i \in 1 .. n - 1 |-> Waiting[i + 1]]
  BY Zenon, <1>3, WaitingSeq, TailAsFunction
<1> QED BY Zenon, <1>1, <1>3, <1>4, <1>7, <1>8

(* The reader gets the frames that mpf_frame_buffer_write has taken, in    *)
(* order and once, until a restart drops them: for every number of frames  *)
(* and any chunks, if no restart overlaps a read or a write.               *)
THEOREM FrameBufferRefinesFifo ==
    ASSUME FrameAssumption, ~Overlap
    PROVE  FrameSpec => FramesRefineFifo
<1>1. FrameInit => FrameFifo!Init
  BY DEF FrameInit, FrameFifo!Init, Waiting
<1>2. FrameInv /\ [FrameNext]_frameVars => [FrameFifo!Next]_<<Waiting, frame>>
  <2> SUFFICES ASSUME FrameInv, [FrameNext]_frameVars PROVE [FrameFifo!Next]_<<Waiting, frame>>
    OBVIOUS
  <2>1. ASSUME NEW chunk \in Chunk, WriteBegin(chunk) PROVE UNCHANGED <<Waiting, frame>>
    BY Zenon, <2>1 DEF WriteBegin, Waiting
  <2>2. CASE WriteCopy
    BY Zenon, <2>2, CopyUnseen
  <2>3. CASE WriteCount
    BY Zenon, <2>3, CountAppends DEF FrameFifo!Next, FrameFifo!Push
  <2>4. CASE WriteDrop
    BY Zenon, <2>4 DEF WriteDrop, Waiting
  <2>5. CASE FrameRead /\ write_pos > read_pos
    BY Zenon, <2>5, ReadTakes DEF FrameFifo!Next, FrameFifo!Pop
  <2>6. CASE FrameRead /\ write_pos <= read_pos
    <3>1. UNCHANGED <<frames, write_pos, read_pos>> /\ frame' = NULL
      BY <2>6 DEF FrameRead, FrameInv
    <3>2. Waiting = <<>> /\ Waiting' = Waiting
      BY <2>6, <3>1, WaitingSeq DEF Waiting, FrameInv, FrameAssumption
    <3> QED BY Zenon, <3>1, <3>2 DEF FrameFifo!Next, FrameFifo!Pop
  <2>7. CASE Restart
    <3>1. write_pos' - read_pos' = 0 /\ frame' = frame
      BY <2>7 DEF Restart, FrameInv
    <3>2. Waiting' = <<>>
      BY <3>1 DEF Waiting
    <3> QED BY Zenon, <3>1, <3>2 DEF FrameFifo!Next, FrameFifo!Clear
  <2>8. CASE RestartLoad \/ RestartStore
    BY Zenon, <2>8 DEF RestartLoad, RestartStore, FrameInv
  <2>9. CASE UNCHANGED frameVars
    BY Zenon, <2>9 DEF frameVars, Waiting
  <2> QED BY Zenon, <2>1, <2>2, <2>3, <2>4, <2>5, <2>6, <2>7, <2>8, <2>9 DEF FrameNext, FrameWrite, FrameRead
<1> QED BY FrameInvInit, FrameInvNext, <1>1, <1>2, PTL DEF FrameSpec, FramesRefineFifo, FrameFifo!Spec
-----------------------------------------------------------------------------
Detectors == [state : {"INACTIVITY", "ACTIVITY_TRANSITION", "ACTIVITY", "INACTIVITY_TRANSITION"},
              duration : Nat, speech_timeout : Nat, silence_timeout : Nat, noinput_timeout : Nat]

Listeners == [loud : Nat, quiet : Nat, talking : BOOLEAN, idle : Int]

ActivityInv == detector \in Detectors /\ listener \in Listeners /\ Agree

TimeoutsAssumption == Timeouts \subseteq Nat /\ Speech \in Nat /\ Noinput \in Nat

(* A new detector agrees with a listener who has heard nothing             *)
(* (mpf_activity_detector_create).                                         *)
LEMMA ActivityInvInit == ASSUME TimeoutsAssumption, DetectorInit PROVE ActivityInv
  BY DEF TimeoutsAssumption, DetectorInit, ActivityInv, Detectors, Listeners, Agree, FrameTime

(* What mpf_activity_detector_state_change makes of the detector, and a    *)
(* frame that leaves the state as it is.                                   *)
LEMMA ChangedIs ==
    ASSUME ActivityInv, NEW state \in {"INACTIVITY", "ACTIVITY_TRANSITION", "ACTIVITY", "INACTIVITY_TRANSITION"}
    PROVE  Changed(state) \in Detectors /\ Changed(state).state = state /\ Changed(state).duration = 0
  BY Zenon DEF ActivityInv, Detectors, Changed

(* The detector with the duration of one more frame. *)
LEMMA LongerIs ==
    ASSUME ActivityInv
    PROVE  /\ Longer \in Detectors
           /\ Longer.state = detector.state /\ Longer.duration = detector.duration + 10
  BY DEF ActivityInv, Detectors, Longer, FrameTime

(* What the listener has heard after a frame.                              *)
LEMMA ListenedIs ==
    ASSUME ActivityInv, NEW loud \in BOOLEAN
    PROVE  /\ Listened(loud) \in Listeners
           /\ loud => Listened(loud).loud = listener.loud + 1 /\ Listened(loud).quiet = 0
                      /\ Listened(loud).idle = -1
           /\ ~loud => Listened(loud).loud = 0 /\ Listened(loud).quiet = listener.quiet + 1
           /\ det_event' = "ACTIVITY" => Listened(loud).talking
           /\ det_event' = "INACTIVITY" => ~Listened(loud).talking /\ (~loud => Listened(loud).idle = 0)
           /\ det_event' \notin {"ACTIVITY", "INACTIVITY"} =>
                 /\ Listened(loud).talking <=> listener.talking
                 /\ ~loud /\ ~listener.talking => Listened(loud).idle = listener.idle + 1
<1>1. listener.loud \in Nat /\ listener.quiet \in Nat /\ listener.idle \in Int /\ listener.talking \in BOOLEAN
  BY Zenon DEF ActivityInv, Listeners
<1>2. /\ Listened(loud).loud = IF loud THEN listener.loud + 1 ELSE 0
      /\ Listened(loud).quiet = IF loud THEN 0 ELSE listener.quiet + 1
      /\ Listened(loud).talking = IF det_event' = "ACTIVITY" THEN TRUE
                 ELSE IF det_event' = "INACTIVITY" THEN FALSE ELSE listener.talking
      /\ Listened(loud).idle = IF loud \/ (listener.talking /\ det_event' # "INACTIVITY") THEN -1
                 ELSE IF det_event' = "INACTIVITY" THEN 0 ELSE listener.idle + 1
  BY Zenon DEF Listened
<1>3. Listened(loud).talking \in BOOLEAN
  BY Zenon, <1>1, <1>2
<1>4. Listened(loud).loud \in Nat /\ Listened(loud).quiet \in Nat /\ Listened(loud).idle \in Int
  BY <1>1, <1>2
<1>5. Listened(loud) \in Listeners
  BY Zenon, <1>3, <1>4 DEF Listened, Listeners
<1> QED BY Zenon, <1>1, <1>2, <1>5

(* In each state of mpf_activity_detector_process a frame keeps detector   *)
(* and listener in agreement, and what it returns is what the listener     *)
(* expects: from silence,                                                  *)
LEMMA InactiveStep ==
    ASSUME ActivityInv, NEW loud \in BOOLEAN, Inactive(loud), listener' = Listened(loud)
    PROVE  ActivityInv' /\ det_event' = Expected(loud)
<1>1. detector.state = "INACTIVITY" /\ detector \in Detectors /\ listener \in Listeners /\ Agree
  BY Zenon DEF Inactive, ActivityInv
<1>2. det_event' = Expected(loud)
  BY <1>1, LongerIs DEF Inactive, Goes, Expected, Agree, Detectors, Listeners, FrameTime
<1>3. detector' \in Detectors /\ listener' \in Listeners
  BY Zenon, <1>1, ChangedIs, LongerIs, ListenedIs DEF Inactive, Goes
<1>4. Agree'
  BY <1>1, <1>3, ChangedIs, LongerIs, ListenedIs DEF Inactive, Goes, Agree, Detectors, Listeners, FrameTime
<1> QED BY Zenon, <1>2, <1>3, <1>4 DEF ActivityInv

(* from noise that may become speech,                                      *)
LEMMA ActivityTransitionStep ==
    ASSUME ActivityInv, NEW loud \in BOOLEAN, ActivityTransition(loud), listener' = Listened(loud)
    PROVE  ActivityInv' /\ det_event' = Expected(loud)
<1>1. detector.state = "ACTIVITY_TRANSITION" /\ detector \in Detectors /\ listener \in Listeners /\ Agree
  BY Zenon DEF ActivityTransition, ActivityInv
<1>2. det_event' = Expected(loud)
  BY <1>1, LongerIs DEF ActivityTransition, Goes, Expected, Agree, Detectors, Listeners, FrameTime
<1>3. detector' \in Detectors /\ listener' \in Listeners
  BY Zenon, <1>1, ChangedIs, LongerIs, ListenedIs DEF ActivityTransition, Goes
<1>4. Agree'
  BY <1>1, <1>3, ChangedIs, LongerIs, ListenedIs DEF ActivityTransition, Goes, Agree, Detectors, Listeners, FrameTime
<1> QED BY Zenon, <1>2, <1>3, <1>4 DEF ActivityInv

(* from speech,                                                            *)
LEMMA ActiveStep ==
    ASSUME ActivityInv, NEW loud \in BOOLEAN, Active(loud), listener' = Listened(loud)
    PROVE  ActivityInv' /\ det_event' = Expected(loud)
<1>1. detector.state = "ACTIVITY" /\ detector \in Detectors /\ listener \in Listeners /\ Agree
  BY Zenon DEF Active, ActivityInv
<1>2. det_event' = Expected(loud)
  BY <1>1, LongerIs DEF Active, Goes, Expected, Agree, Detectors, Listeners, FrameTime
<1>3. detector' \in Detectors /\ listener' \in Listeners
  BY Zenon, <1>1, ChangedIs, LongerIs, ListenedIs DEF Active, Goes
<1>4. Agree'
  BY <1>1, <1>3, ChangedIs, LongerIs, ListenedIs DEF Active, Goes, Agree, Detectors, Listeners, FrameTime
<1> QED BY Zenon, <1>2, <1>3, <1>4 DEF ActivityInv

(* and from a break that may become the end of speech.                     *)
LEMMA InactivityTransitionStep ==
    ASSUME ActivityInv, NEW loud \in BOOLEAN, InactivityTransition(loud), listener' = Listened(loud)
    PROVE  ActivityInv' /\ det_event' = Expected(loud)
<1>1. detector.state = "INACTIVITY_TRANSITION" /\ detector \in Detectors /\ listener \in Listeners /\ Agree
  BY Zenon DEF InactivityTransition, ActivityInv
<1>2. det_event' = Expected(loud)
  BY <1>1, LongerIs DEF InactivityTransition, Goes, Expected, Agree, Detectors, Listeners, FrameTime
<1>3. detector' \in Detectors /\ listener' \in Listeners
  BY Zenon, <1>1, ChangedIs, LongerIs, ListenedIs DEF InactivityTransition, Goes
<1>4. Agree'
  BY <1>1, <1>3, ChangedIs, LongerIs, ListenedIs DEF InactivityTransition, Goes, Agree, Detectors, Listeners, FrameTime
<1> QED BY Zenon, <1>2, <1>3, <1>4 DEF ActivityInv

(* A frame, whatever the state.                                            *)
LEMMA ProcessStep ==
    ASSUME ActivityInv, NEW loud \in BOOLEAN, Process(loud)
    PROVE  ActivityInv' /\ det_event' = Expected(loud)
  BY Zenon, InactiveStep, ActivityTransitionStep, ActiveStep, InactivityTransitionStep DEF Process

(* Two levels that leave the listener in the same state are one: a frame   *)
(* adds to one of the runs and ends the other.                             *)
LEMMA LevelHeard ==
    ASSUME ActivityInv, NEW a \in BOOLEAN, NEW b \in BOOLEAN, Listened(a) = Listened(b)
    PROVE  a = b
<1>1. /\ Listened(a).loud = IF a THEN listener.loud + 1 ELSE 0
      /\ Listened(b).loud = IF b THEN listener.loud + 1 ELSE 0
  BY Zenon DEF Listened
<1>2. listener.loud \in Nat
  BY Zenon DEF ActivityInv, Listeners
<1> QED BY <1>1, <1>2

(* mpf_activity_detector_noinput_timeout_set and the other two, and        *)
(* mpf_activity_detector_reset, keep the agreement.                        *)
LEMMA ActivityInvOthers ==
    ASSUME TimeoutsAssumption, ActivityInv,
           \/ \E which \in {"speech_timeout", "silence_timeout", "noinput_timeout"}, timeout \in Timeouts :
                 TimeoutSet(which, timeout)
           \/ DetectorReset
    PROVE  ActivityInv'
<1>1. ASSUME NEW which \in {"speech_timeout", "silence_timeout", "noinput_timeout"},
             NEW timeout \in Timeouts, TimeoutSet(which, timeout)
      PROVE  ActivityInv'
  <2>1. detector' \in Detectors /\ detector'.state = detector.state /\ detector'.duration = detector.duration
    BY Zenon, <1>1 DEF TimeoutsAssumption, TimeoutSet, ActivityInv, Detectors
  <2> QED BY Zenon, <1>1, <2>1 DEF TimeoutSet, ActivityInv, Agree
<1>2. CASE DetectorReset
  <2>1. detector' \in Detectors /\ detector'.state = "INACTIVITY" /\ detector'.duration = 0
    BY Zenon, <1>2, ChangedIs DEF DetectorReset, Goes
  <2>2. /\ listener' \in Listeners
        /\ listener'.loud = 0 /\ listener'.idle = 0 /\ listener'.talking = FALSE
    BY <1>2 DEF DetectorReset, Listeners
  <2> QED BY <2>1, <2>2 DEF ActivityInv, Agree, FrameTime
<1> QED BY Zenon, <1>1, <1>2

(* Every step keeps the agreement.                                         *)
LEMMA ActivityInvNext == ASSUME TimeoutsAssumption, ActivityInv, [DetectorNext]_activityVars PROVE ActivityInv'
<1>1. CASE \E loud \in BOOLEAN : Process(loud)
  BY Zenon, <1>1, ProcessStep
<1>2. CASE UNCHANGED activityVars
  BY Zenon, <1>2 DEF activityVars, ActivityInv, Detectors, Listeners, Agree, FrameTime
<1> QED BY Zenon, <1>1, <1>2, ActivityInvOthers DEF DetectorNext

(* Every step reports what the listener expects: only a frame changes what *)
(* the listener has heard and leaves something to remember.                *)
LEMMA NextReports == ASSUME ActivityInv, DetectorNext PROVE ReportsExactly
<1>1. ASSUME NEW level \in BOOLEAN, Process(level) PROVE ReportsExactly
  <2>1. SUFFICES ASSUME NEW loud \in BOOLEAN, listener' = Listened(loud)
                 PROVE  det_event' = Expected(loud)
    BY Zenon DEF ReportsExactly
  <2>2. loud = level
    BY Zenon, <1>1, <2>1, LevelHeard DEF Process
  <2> QED BY Zenon, <1>1, <2>2, ProcessStep
<1>2. ASSUME NEW which \in {"speech_timeout", "silence_timeout", "noinput_timeout"},
             NEW timeout \in Timeouts, TimeoutSet(which, timeout)
      PROVE  ReportsExactly
  BY Zenon, <1>2 DEF TimeoutSet, ReportsExactly
<1>3. CASE DetectorReset
  BY <1>3 DEF DetectorReset, ReportsExactly
<1> QED BY Zenon, <1>1, <1>2, <1>3 DEF DetectorNext

(* For all time-outs, and however they change, detector and listener       *)
(* agree: the state of mpf_activity_detector_t is the one the listener is  *)
(* in, and duration the time of the frames counted.                        *)
THEOREM AgreesAlways == ASSUME TimeoutsAssumption PROVE DetectorSpec => []Agree
<1>1. ActivityInv => Agree
  BY Zenon DEF ActivityInv
<1> QED BY ActivityInvInit, ActivityInvNext, <1>1, PTL DEF DetectorSpec

(* For all time-outs, and however they change,                             *)
(* mpf_activity_detector_process reports speech, its end and the lack of   *)
(* input exactly when a listener would who counts the frames.              *)
THEOREM ReportsAsHeard == ASSUME TimeoutsAssumption PROVE DetectorSpec => [][ReportsExactly]_activityVars
<1>1. ActivityInv /\ [DetectorNext]_activityVars => [ReportsExactly]_activityVars
  BY Zenon, NextReports
<1> QED BY ActivityInvInit, ActivityInvNext, <1>1, PTL DEF DetectorSpec
-----------------------------------------------------------------------------
DtmfAssumption == NoDigit \notin Found /\ BufferLen \in Nat

(* What last1 and last2 remember: the window before the last one and the   *)
(* last one, or nothing if there is none since the reset, whenever that    *)
(* was; while a window is analysed, both values of last2 are of the window *)
(* before it.                                                              *)
Remembers(x, n) == x # NoDigit => n >= 1 /\ x = windows[n]

WindowsInv ==
    /\ windows \in Seq(Found \cup {NoDigit}) /\ reported \subseteq 1 .. Len(windows)
    /\ \A n \in reported : Same(n)
    /\ buf \in Seq(Found) /\ Len(buf) <= BufferLen
    /\ det_pc \in {"idle", "add", "shift"}
    /\ IF det_pc = "idle"
       THEN Remembers(last2, Len(windows)) /\ Remembers(last1, Len(windows) - 1)
       ELSE /\ Len(windows) >= 1 /\ digit = windows[Len(windows)]
            /\ Remembers(last2, Len(windows) - 1) /\ Remembers(read2, Len(windows) - 1)
            /\ det_pc = "add" => digit \in Found

(* The tone reported in window m has gone on up to window n.               *)
Tone(m, n) ==
    /\ m \in reported /\ m > since /\ m <= n
    /\ \A k \in m + 1 .. n : k \notin reported
    /\ \A k \in m + 3 .. n : \E i \in k - 2 .. k : windows[i] = windows[m]

(* Without a reset in the middle of a window, last1 and last2 are the last *)
(* windows since the reset, and curr is the tone that goes on.             *)
Since(n) == IF n > since THEN windows[n] ELSE NoDigit

CurrIsTone ==
    /\ curr # NoDigit => \E m \in reported : Tone(m, Len(windows)) /\ windows[m] = curr
    /\ \A m \in reported : Tone(m, Len(windows)) => windows[m] = curr

TonesInv ==
    /\ since \in 0 .. Len(windows)
    /\ IF det_pc = "idle"
       THEN last2 = Since(Len(windows)) /\ last1 = Since(Len(windows) - 1)
       ELSE /\ Len(windows) > since
            /\ last2 = Since(Len(windows) - 1) /\ read2 = last2
    /\ CurrIsTone /\ OncePerTone

(* A new detector has seen no window.                                      *)
LEMMA DtmfInvInit == DtmfAssumption /\ DtmfInit => WindowsInv /\ TonesInv
<1> SUFFICES ASSUME DtmfAssumption, DtmfInit PROVE WindowsInv /\ TonesInv
  OBVIOUS
<1>1. windows = <<>> /\ Len(windows) = 0 /\ buf = <<>> /\ reported = {} /\ since = 0
  BY Zenon DEF DtmfInit
<1>2. OncePerTone
  BY <1>1 DEF OncePerTone
<1>3. WindowsInv
  BY <1>1 DEF DtmfAssumption, DtmfInit, WindowsInv, Remembers
<1>4. TonesInv
  BY <1>1, <1>2 DEF DtmfInit, TonesInv, CurrIsTone, Since
<1> QED BY Zenon, <1>3, <1>4

(* A window is added behind the others.                                    *)
LEMMA WindowAdded ==
    ASSUME WindowsInv, NEW d \in Found \cup {NoDigit}, Window(d)
    PROVE  /\ windows' \in Seq(Found \cup {NoDigit})
           /\ Len(windows) \in Nat /\ Len(windows') = Len(windows) + 1
           /\ windows'[Len(windows) + 1] = d
           /\ \A i \in 1 .. Len(windows) : windows'[i] = windows[i]
  BY DEF WindowsInv, Window

(* The buffer takes a digit or counts it as lost (mpf_dtmf_detector_add_digit). *)
LEMMA DigitAdded ==
    ASSUME DtmfAssumption, WindowsInv, NEW d \in Found, AddDigit(d)
    PROVE  buf' \in Seq(Found) /\ Len(buf') <= BufferLen
  BY DEF DtmfAssumption, WindowsInv, AddDigit

(* A reported window is the third of three that have the digit.            *)
LEMMA WindowReported ==
    ASSUME DtmfAssumption, WindowsInv, NEW d \in Found \cup {NoDigit}, Window(d)
    PROVE  reported' \subseteq 1 .. Len(windows') /\ \A n \in reported' : Same(n)'
<1>1. reported \subseteq 1 .. Len(windows) /\ \A n \in reported : Same(n)
  BY Zenon DEF WindowsInv
<1>2. \A n \in reported : Same(n)'
  BY SMTT(40), <1>1, WindowAdded DEF Same
<1>3. CASE d # curr /\ d # NoDigit /\ last1 = d /\ last2 = d
  <2>1. /\ reported' = reported \cup {Len(windows')} /\ det_pc = "idle"
    BY Zenon, <1>3 DEF Window
  <2>2. \A n : n = Len(windows) + 1 => Same(n)'
    BY SMTT(40), <1>3, <2>1, WindowAdded DEF Same, WindowsInv, Remembers
  <2>3. Len(windows) \in Nat /\ Len(windows') = Len(windows) + 1
    BY Zenon, WindowAdded
  <2>4. ASSUME NEW n \in reported' PROVE n \in 1 .. Len(windows')
    <3>1. n \in 1 .. Len(windows) \/ n = Len(windows) + 1
      BY ZenonT(40), <1>1, <2>1, <2>3
    <3> QED BY <2>3, <3>1
  <2> QED BY Zenon, <1>2, <2>1, <2>2, <2>3, <2>4 DEF Same
<1>4. CASE ~ (d # curr /\ d # NoDigit /\ last1 = d /\ last2 = d)
  <2>1. reported' = reported
    BY Zenon, <1>4 DEF Window
  <2>2. Len(windows) \in Nat /\ Len(windows') = Len(windows) + 1
    BY Zenon, WindowAdded
  <2>3. 1 .. Len(windows) \subseteq 1 .. Len(windows')
    BY <2>2
  <2>4. reported' \subseteq 1 .. Len(windows')
    BY Zenon, <1>1, <2>1, <2>3
  <2> QED BY Zenon, <1>2, <2>1, <2>4
<1> QED BY Zenon, <1>3, <1>4

(* Every step keeps what is remembered of the windows, a reset in the      *)
(* middle of a window included.                                            *)
LEMMA WindowsInvNext == DtmfAssumption /\ WindowsInv /\ [DtmfNext]_dtmfVars => WindowsInv'
<1> SUFFICES ASSUME DtmfAssumption, WindowsInv, [DtmfNext]_dtmfVars PROVE WindowsInv'
  BY Zenon
<1>1. ASSUME NEW d \in Found \cup {NoDigit}, Window(d) PROVE WindowsInv'
  <2>1. /\ det_pc = "idle" /\ det_pc' \in {"add", "shift"} /\ digit' = d /\ read2' = last2
        /\ last2' = last2 /\ buf' = buf
        /\ det_pc' = "add" => d \in Found
    BY Zenon, <1>1 DEF Window
  <2>2. Remembers(last2, Len(windows) - 1)' /\ Remembers(read2, Len(windows) - 1)'
    <3>1. Len(windows) \in Nat /\ Len(windows') - 1 = Len(windows)
      <4>1. Len(windows) \in Nat /\ Len(windows') = Len(windows) + 1
        BY Zenon, <1>1, WindowAdded
      <4> QED BY <4>1
    <3>2. last2 # NoDigit => Len(windows) >= 1 /\ last2 = windows[Len(windows)]
      BY Zenon, <2>1 DEF WindowsInv, Remembers
    <3>3. Len(windows) >= 1 => windows'[Len(windows)] = windows[Len(windows)]
      <4>1. Len(windows) >= 1 => Len(windows) \in 1 .. Len(windows)
        BY <3>1
      <4> QED BY Zenon, <1>1, <4>1, WindowAdded
    <3> QED BY Zenon, <2>1, <3>1, <3>2, <3>3 DEF Remembers
  <2>3. Len(windows') >= 1 /\ digit' = windows'[Len(windows')]
    <3>1. /\ Len(windows) \in Nat /\ Len(windows') = Len(windows) + 1
          /\ windows'[Len(windows) + 1] = d
      BY Zenon, <1>1, WindowAdded
    <3>2. Len(windows') >= 1
      BY <3>1
    <3> QED BY Zenon, <2>1, <3>1, <3>2
  <2> QED BY Zenon, <1>1, <2>1, <2>2, <2>3, WindowAdded, WindowReported DEF WindowsInv
<1>2. CASE WindowAdds
  <2>1. /\ det_pc = "add" /\ det_pc' = "shift" /\ digit \in Found /\ AddDigit(digit)
        /\ read2' = last2 /\ UNCHANGED <<last2, digit, windows, reported>>
    BY Zenon, <1>2 DEF WindowAdds, WindowsInv
  <2> QED BY Zenon, <2>1, DigitAdded DEF WindowsInv, Remembers, Same
<1>3. CASE WindowShifts
  <2>1. /\ det_pc = "shift" /\ det_pc' = "idle" /\ last1' \in {last2, read2} /\ last2' = digit
        /\ UNCHANGED <<buf, windows, reported>>
    BY Zenon, <1>3 DEF WindowShifts
  <2> QED BY Zenon, <2>1 DEF WindowsInv, Remembers, Same
<1>4. ASSUME NEW d \in Found, EventFrame(d) PROVE WindowsInv'
  <2>1. AddDigit(d) /\ UNCHANGED <<det_pc, last1, last2, digit, read2, windows, reported>>
    BY Zenon, <1>4 DEF EventFrame
  <2> QED BY Zenon, <2>1, DigitAdded DEF WindowsInv, Remembers, Same
<1>5. CASE DigitGet
  <2>1. buf' \in Seq(Found) /\ Len(buf') <= BufferLen
    BY SMTT(40), <1>5 DEF DigitGet, WindowsInv, DtmfAssumption
  <2> QED BY Zenon, <1>5, <2>1 DEF DigitGet, WindowsInv, Remembers, Same
<1>6. CASE DtmfReset
  <2>1. buf' = <<>> /\ last1' = NoDigit /\ last2' = NoDigit
        /\ UNCHANGED <<det_pc, digit, read2, windows, reported>>
    BY Zenon, <1>6 DEF DtmfReset
  <2> QED BY <2>1 DEF WindowsInv, Remembers, Same, DtmfAssumption
<1>7. CASE UNCHANGED dtmfVars
  BY Zenon, <1>7 DEF dtmfVars, WindowsInv, Remembers, Same
<1> QED BY Zenon, <1>1, <1>2, <1>3, <1>4, <1>5, <1>6, <1>7 DEF DtmfNext

(* goertzel_energies_digit reports a digit only in the third of three      *)
(* windows that have it, whenever mpf_dtmf_detector_reset is called, and   *)
(* the buffer holds no more digits than it has room for: for any digits,   *)
(* any length of the buffer and any number of windows.                     *)
THEOREM ThreeDetections == ASSUME DtmfAssumption PROVE DtmfSpec => []ThreeSuccessive
<1>1. WindowsInv => ThreeSuccessive
  BY Zenon DEF WindowsInv, ThreeSuccessive
<1> QED BY DtmfInvInit, WindowsInvNext, <1>1, PTL DEF DtmfSpec

(* What a window leaves as it was: the windows before it, and which of     *)
(* them were reported.                                                     *)
LEMMA BeforeWindow ==
    ASSUME WindowsInv, NEW d \in Found \cup {NoDigit}, Window(d)
    PROVE  /\ since' = since
           /\ \A n \in 1 .. Len(windows) : (n \in reported') <=> (n \in reported)
           /\ \A n \in reported : n \in 1 .. Len(windows)
           /\ reported \subseteq reported'
           /\ reported' \subseteq reported \cup {Len(windows) + 1}
<1>1. since' = since /\ (reported' = reported \/ reported' = reported \cup {Len(windows')})
  BY Zenon DEF Window
<1>2. Len(windows) \in Nat /\ Len(windows') = Len(windows) + 1
  BY Zenon, WindowAdded
<1>3. \A n \in 1 .. Len(windows) : n # Len(windows) + 1
  BY <1>2
<1>4. \A n \in reported : n \in 1 .. Len(windows)
  BY Zenon DEF WindowsInv
<1> QED BY Zenon, <1>1, <1>2, <1>3, <1>4

(* A tone goes on in a new window, unless the window is reported or is the *)
(* third in a row without it.                                              *)
LEMMA ToneGoesOn ==
    ASSUME WindowsInv, NEW d \in Found \cup {NoDigit}, Window(d), NEW m \in reported
    PROVE  Tone(m, Len(windows))' <=>
              /\ Tone(m, Len(windows)) /\ Len(windows) + 1 \notin reported'
              /\ m + 2 <= Len(windows) =>
                    \E i \in Len(windows) - 1 .. Len(windows) + 1 : windows'[i] = windows[m]
<1> DEFINE N == Len(windows)
<1>1. N \in Nat /\ Len(windows') = N + 1 /\ m \in 1 .. N /\ m \in Int /\ m <= N
  BY WindowAdded, BeforeWindow
<1>2. windows'[m] = windows[m] /\ m \in reported' /\ since' = since
  BY Zenon, <1>1, WindowAdded, BeforeWindow
<1>3. \A k \in m + 1 .. N : k \in reported' <=> k \in reported
  BY <1>1, BeforeWindow
<1>4. \A k \in m + 3 .. N : (\E i \in k - 2 .. k : windows'[i] = windows[m])
                           <=> (\E i \in k - 2 .. k : windows[i] = windows[m])
  <2>1. \A k \in m + 3 .. N : \A i \in k - 2 .. k : windows'[i] = windows[i]
    BY <1>1, WindowAdded
  <2> QED BY Zenon, <2>1
<1>5. (\A k \in m + 1 .. N + 1 : k \notin reported')
        <=> (\A k \in m + 1 .. N : k \notin reported) /\ N + 1 \notin reported'
  BY <1>1, <1>3
<1>6. (\A k \in m + 3 .. N + 1 : \E i \in k - 2 .. k : windows'[i] = windows[m])
        <=> /\ \A k \in m + 3 .. N : \E i \in k - 2 .. k : windows[i] = windows[m]
            /\ m + 2 <= N => \E i \in N - 1 .. N + 1 : windows'[i] = windows[m]
  <2> DEFINE P(k) == \E i \in k - 2 .. k : windows'[i] = windows[m]
  <2>1. P(N + 1) <=> \E i \in N - 1 .. N + 1 : windows'[i] = windows[m]
    BY <1>1
  <2>2. \A k \in m + 3 .. N : P(k) <=> \E i \in k - 2 .. k : windows[i] = windows[m]
    BY Zenon, <1>4
  <2> HIDE DEF P
  <2>3. (\A k \in m + 3 .. N + 1 : P(k)) <=> (\A k \in m + 3 .. N : P(k)) /\ (m + 2 <= N => P(N + 1))
    BY <1>1
  <2>4. (\A k \in m + 3 .. N + 1 : P(k))
           <=> /\ \A k \in m + 3 .. N : \E i \in k - 2 .. k : windows[i] = windows[m]
               /\ m + 2 <= N => \E i \in N - 1 .. N + 1 : windows'[i] = windows[m]
    BY Zenon, <2>1, <2>2, <2>3
  <2> QED BY Zenon, <2>4 DEF P
<1>7. Tone(m, Len(windows))' <=>
         /\ m > since /\ m <= N + 1
         /\ \A k \in m + 1 .. N + 1 : k \notin reported'
         /\ \A k \in m + 3 .. N + 1 : \E i \in k - 2 .. k : windows'[i] = windows[m]
  BY Zenon, <1>1, <1>2 DEF Tone
<1> QED BY SMTT(40), <1>1, <1>5, <1>6, <1>7 DEF Tone

(* The tone a new window belongs to, if there is one, is the one that goes *)
(* on with this digit.                                                     *)
LEMMA BelongsToTone ==
    ASSUME WindowsInv, NEW d \in Found \cup {NoDigit}, Window(d), NEW m \in reported, NEW n,
           n = Len(windows) + 1
    PROVE  GoesOn(m, n)' <=> Tone(m, Len(windows)) /\ windows[m] = d
<1> DEFINE N == Len(windows)
<1>1. N \in Nat /\ m \in 1 .. N /\ n - 1 = N /\ m < n /\ m <= N
  BY WindowAdded, BeforeWindow
<1>2. windows'[m] = windows[m] /\ windows'[n] = d /\ m \in reported' /\ since' = since
  BY Zenon, <1>1, WindowAdded, BeforeWindow
<1>3. \A k \in m + 1 .. N : k \in reported' <=> k \in reported
  BY <1>1, BeforeWindow
<1>4. \A k \in m + 3 .. N : \A i \in k - 2 .. k : windows'[i] = windows[i]
  BY SMTT(40), <1>1, WindowAdded
<1>5. GoesOn(m, n)' <=>
         /\ m > since /\ windows[m] = d
         /\ \A k \in m + 1 .. N : k \notin reported'
         /\ \A k \in m + 3 .. N : \E i \in k - 2 .. k : windows'[i] = windows[m]
  BY Zenon, <1>1, <1>2 DEF GoesOn
<1>6. GoesOn(m, n)' <=>
         /\ m > since /\ windows[m] = d
         /\ \A k \in m + 1 .. N : k \notin reported
         /\ \A k \in m + 3 .. N : \E i \in k - 2 .. k : windows[i] = windows[m]
  BY Zenon, <1>3, <1>4, <1>5
<1> QED BY Zenon, <1>1, <1>6 DEF Tone

(* When a window is reported: it is the third since the reset, and none of *)
(* the tones that go on has its digit.                                     *)
LEMMA ReportedWhen ==
    ASSUME DtmfAssumption, WindowsInv, TonesInv, NEW d \in Found \cup {NoDigit}, Window(d), NEW n,
           n = Len(windows) + 1
    PROVE  n \in reported' <=> Same(n)' /\ n >= since' + 3 /\ ~ \E m \in reported' : GoesOn(m, n)'
<1> DEFINE N == Len(windows)
<1>1. /\ N \in Nat /\ since \in 0 .. N /\ since' = since /\ det_pc = "idle"
      /\ windows'[n] = d /\ n - 1 = N /\ n - 2 = N - 1
      /\ last2 = Since(N) /\ last1 = Since(N - 1)
  BY SMTT(40), WindowAdded, BeforeWindow DEF TonesInv, Window
<1>2. n \in reported' <=> d # curr /\ d # NoDigit /\ last1 = d /\ last2 = d
  <2>1. n \notin reported
    BY <1>1, BeforeWindow
  <2> QED BY Zenon, <2>1, WindowAdded DEF Window
<1>3. Same(n)' /\ n >= since' + 3 <=> d # NoDigit /\ last1 = d /\ last2 = d
  <2>1. CASE N >= since + 2
    <3>1. windows'[N] = windows[N] /\ windows'[N - 1] = windows[N - 1] /\ n >= 3
      BY SMTT(40), <1>1, <2>1, WindowAdded
    <3> QED BY SMTT(40), <1>1, <2>1, <3>1 DEF Same, Since
  <2>2. CASE ~ (N >= since + 2)
    BY <1>1, <2>2 DEF Since
  <2> QED BY Zenon, <2>1, <2>2
<1>4. (\E m \in reported' : GoesOn(m, n)') <=> \E m \in reported : Tone(m, N) /\ windows[m] = d
  <2>1. ~ GoesOn(n, n)'
    BY <1>1 DEF GoesOn
  <2>2. \A m \in reported : GoesOn(m, n)' <=> Tone(m, N) /\ windows[m] = d
    BY Zenon, BelongsToTone
  <2>3. \A m \in reported' : m \in reported \/ m = n
    BY Zenon, BeforeWindow
  <2>4. reported \subseteq reported'
    BY Zenon, BeforeWindow
  <2> HIDE DEF N
  <2> QED BY Zenon, <2>1, <2>2, <2>3, <2>4
<1>5. d # NoDigit => ((\E m \in reported : Tone(m, N) /\ windows[m] = d) <=> d = curr)
  BY Zenon DEF TonesInv, CurrIsTone
<1> QED BY Zenon, <1>2, <1>3, <1>4, <1>5

(* A window keeps OncePerTone: for the windows before it nothing changes.  *)
LEMMA OnceWindow ==
    ASSUME DtmfAssumption, WindowsInv, TonesInv, NEW d \in Found \cup {NoDigit}, Window(d)
    PROVE  OncePerTone'
<1> DEFINE N == Len(windows)
<1>1. /\ N \in Nat /\ since \in 0 .. N /\ since' = since /\ Len(windows') = N + 1
  BY Zenon, WindowAdded, BeforeWindow DEF TonesInv
<1>2. ASSUME NEW n \in since + 1 .. N
      PROVE  n \in reported' <=> Same(n)' /\ n >= since' + 3 /\ ~ \E m \in reported' : GoesOn(m, n)'
  <2>1. n \in reported' <=> n \in reported
    BY SMTT(40), <1>1, BeforeWindow
  <2>2. Same(n)' <=> Same(n)
    BY SMTT(40), <1>1, WindowAdded DEF Same
  <2>3. ASSUME NEW m \in reported PROVE GoesOn(m, n)' <=> GoesOn(m, n)
    <3>1. m \in 1 .. N /\ m \in reported' /\ windows'[m] = windows[m] /\ windows'[n] = windows[n]
      BY <1>1, WindowAdded, BeforeWindow
    <3>2. \A k \in m + 1 .. n - 1 : k \in reported' <=> k \in reported
      BY <1>1, <3>1, BeforeWindow
    <3>3. \A k \in m + 3 .. n - 1 : \A i \in k - 2 .. k : windows'[i] = windows[i]
      BY <1>1, <3>1, WindowAdded
    <3> QED BY ZenonT(40), <1>1, <3>1, <3>2, <3>3 DEF GoesOn
  <2>4. \A m \in reported' : m \in reported \/ m = N + 1
    BY Zenon, BeforeWindow
  <2>5. \A m : m = N + 1 => ~ GoesOn(m, n)'
    BY <1>1 DEF GoesOn
  <2>6. (\E m \in reported' : GoesOn(m, n)') <=> \E m \in reported : GoesOn(m, n)
    BY Zenon, <2>3, <2>4, <2>5, BeforeWindow
  <2>7. n \in reported <=> Same(n) /\ n >= since + 3 /\ ~ \E m \in reported : GoesOn(m, n)
    BY Zenon DEF TonesInv, OncePerTone
  <2> QED BY Zenon, <1>1, <2>1, <2>2, <2>6, <2>7
<1>3. ASSUME NEW n, n = N + 1
      PROVE  n \in reported' <=> Same(n)' /\ n >= since' + 3 /\ ~ \E m \in reported' : GoesOn(m, n)'
  BY Zenon, <1>3, ReportedWhen
<1>4. \A n \in since' + 1 .. Len(windows') : n \in since + 1 .. N \/ n = N + 1
  BY <1>1
<1> QED BY Zenon, <1>2, <1>3, <1>4 DEF OncePerTone

(* curr is the tone that goes on: set when a tone is reported, and reset   *)
(* with the third window in a row without it.                              *)
LEMMA CurrWindow ==
    ASSUME DtmfAssumption, WindowsInv, TonesInv, NEW d \in Found \cup {NoDigit}, Window(d)
    PROVE  CurrIsTone'
<1> DEFINE N == Len(windows)
           Same3 == d # curr /\ d # NoDigit /\ last1 = d /\ last2 = d
<1>1. /\ N \in Nat /\ since \in 0 .. N /\ since' = since /\ Len(windows') = N + 1 /\ det_pc = "idle"
      /\ windows'[N + 1] = d /\ last2 = Since(N) /\ last1 = Since(N - 1)
  BY Zenon, WindowAdded, BeforeWindow DEF TonesInv, Window
<1>2. \A m \in reported : m \in 1 .. N /\ windows'[m] = windows[m] /\ windows[m] # NoDigit
  BY Zenon, WindowAdded, BeforeWindow DEF WindowsInv, Same
<1>3. /\ curr # NoDigit => \E m \in reported : Tone(m, N) /\ windows[m] = curr
      /\ \A m \in reported : Tone(m, N) => windows[m] = curr
  BY Zenon DEF TonesInv, CurrIsTone
<1>4. CASE Same3
  <2>1. curr' = d /\ reported' = reported \cup {N + 1}
    BY Zenon, <1>1, <1>4 DEF Window
  <2>2. \A m : m = N + 1 => Tone(m, Len(windows))'
    BY <1>1, <2>1 DEF Tone
  <2>3. \A m \in reported : ~ Tone(m, Len(windows))'
    BY Zenon, <2>1, ToneGoesOn
  <2> QED BY Zenon, <1>1, <2>1, <2>2, <2>3 DEF CurrIsTone
<1>5. CASE ~Same3
  <2>1. /\ reported' = reported
        /\ curr' = IF d # curr /\ last1 # curr /\ last2 # curr THEN NoDigit ELSE curr
    BY Zenon, <1>5 DEF Window
  <2>2. N + 1 \notin reported'
    BY <1>1, <1>2, <2>1
  <2>3. ASSUME NEW m \in reported, Tone(m, N), windows[m] = curr
        PROVE  Tone(m, Len(windows))' <=> d = curr \/ last1 = curr \/ last2 = curr
    <3>1. m \in 1 .. N /\ m > since /\ curr # NoDigit
      BY Zenon, <1>2, <2>3 DEF Tone
    <3>2. /\ N \in 1 .. N /\ last2 = windows[N] /\ windows'[N] = windows[N]
      BY SMTT(40), <1>1, <3>1, WindowAdded DEF Since
    <3>3. CASE m + 2 <= N
      <4>1. last1 = windows[N - 1] /\ windows'[N - 1] = windows[N - 1]
        BY SMTT(40), <1>1, <3>1, <3>3, WindowAdded DEF Since
      <4>2. (\E i \in N - 1 .. N + 1 : windows'[i] = curr)
               <=> windows'[N - 1] = curr \/ windows'[N] = curr \/ windows'[N + 1] = curr
        <5>1. \A i \in N - 1 .. N + 1 : i = N - 1 \/ i = N \/ i = N + 1
          BY <1>1
        <5>2. N - 1 \in N - 1 .. N + 1 /\ N \in N - 1 .. N + 1 /\ N + 1 \in N - 1 .. N + 1
          BY <1>1
        <5> QED BY Zenon, <5>1, <5>2
      <4>3. Tone(m, Len(windows))' <=> \E i \in N - 1 .. N + 1 : windows'[i] = curr
        BY Zenon, <2>2, <2>3, <3>3, ToneGoesOn
      <4> QED BY Zenon, <1>1, <3>2, <4>1, <4>2, <4>3
    <3>4. CASE ~ (m + 2 <= N)
      <4>1. Tone(m, Len(windows))'
        BY Zenon, <2>2, <2>3, <3>4, ToneGoesOn
      <4>2. m = N \/ (m = N - 1 /\ last1 = windows[N - 1])
        BY SMTT(40), <1>1, <3>1, <3>4 DEF Since
      <4> QED BY Zenon, <2>3, <3>2, <4>1, <4>2
    <3> QED BY Zenon, <3>3, <3>4
  <2>4. \A m \in reported : Tone(m, Len(windows))' => Tone(m, N)
    BY Zenon, ToneGoesOn
  <2> HIDE DEF N
  <2> QED BY Zenon, <1>2, <1>3, <2>1, <2>3, <2>4 DEF CurrIsTone
<1> QED BY Zenon, <1>4, <1>5

(* The other steps leave the windows, the reports and curr as they are.    *)
LEMMA TonesKept ==
    ASSUME TonesInv, UNCHANGED <<windows, reported, since, curr>>
    PROVE  CurrIsTone' /\ OncePerTone' /\ since' \in 0 .. Len(windows')
<1>1. \A m, n : (Tone(m, n)' <=> Tone(m, n)) /\ (GoesOn(m, n)' <=> GoesOn(m, n)) /\ (Same(n)' <=> Same(n))
  BY ZenonT(40) DEF Tone, GoesOn, Same
<1> QED BY Zenon, <1>1 DEF TonesInv, CurrIsTone, OncePerTone

(* Every step keeps last1, last2 and curr what they stand for, as long as  *)
(* no reset comes in the middle of a window.                               *)
LEMMA TonesInvNext ==
    DtmfAssumption /\ ~Race /\ WindowsInv /\ TonesInv /\ [DtmfNext]_dtmfVars => TonesInv'
<1> SUFFICES ASSUME DtmfAssumption, ~Race, WindowsInv, TonesInv, [DtmfNext]_dtmfVars
             PROVE  TonesInv'
  OBVIOUS
<1>1. ASSUME NEW d \in Found \cup {NoDigit}, Window(d) PROVE TonesInv'
  <2>1. /\ det_pc = "idle" /\ det_pc' # "idle" /\ read2' = last2 /\ last2' = last2
        /\ last2 = Since(Len(windows)) /\ since \in 0 .. Len(windows)
    BY Zenon, <1>1 DEF Window, TonesInv
  <2>2. since' \in 0 .. Len(windows') /\ Len(windows') > since' /\ Len(windows') - 1 = Len(windows)
    BY SMTT(40), <1>1, <2>1, WindowAdded, BeforeWindow
  <2>3. Since(Len(windows) - 1)' = Since(Len(windows))
    BY SMTT(40), <1>1, <2>1, <2>2, WindowAdded, BeforeWindow DEF Since
  <2> QED BY Zenon, <1>1, <2>1, <2>2, <2>3, OnceWindow, CurrWindow DEF TonesInv
<1>2. CASE WindowAdds
  BY Zenon, <1>2, TonesKept DEF WindowAdds, TonesInv, Since
<1>3. CASE WindowShifts
  <2>1. /\ det_pc = "shift" /\ det_pc' = "idle" /\ last1' = last2 /\ last2' = digit
        /\ UNCHANGED <<windows, reported, since, curr>>
    BY Zenon, <1>3 DEF WindowShifts, TonesInv
  <2> QED BY Zenon, <2>1, TonesKept DEF WindowsInv, TonesInv, Since
<1>4. ASSUME NEW d \in Found, EventFrame(d) PROVE TonesInv'
  BY Zenon, <1>4, TonesKept DEF EventFrame, TonesInv, Since
<1>5. CASE DigitGet
  BY Zenon, <1>5, TonesKept DEF DigitGet, TonesInv, Since
<1>6. CASE DtmfReset
  <2>1. /\ det_pc' = "idle" /\ curr' = NoDigit /\ last1' = NoDigit /\ last2' = NoDigit
        /\ since' = Len(windows) /\ windows' = windows /\ reported' = reported
    BY Zenon, <1>6 DEF DtmfReset
  <2>2. Len(windows) \in Nat /\ \A m \in reported : m \in 1 .. Len(windows)
    BY DEF WindowsInv
  <2>3. \A m \in reported : ~ Tone(m, Len(windows))'
    BY SMTT(40), <2>1, <2>2 DEF Tone
  <2> QED BY <2>1, <2>2, <2>3 DEF TonesInv, CurrIsTone, Since, OncePerTone
<1>7. CASE UNCHANGED dtmfVars
  BY Zenon, <1>7, TonesKept DEF dtmfVars, TonesInv, Since
<1> QED BY Zenon, <1>1, <1>2, <1>3, <1>4, <1>5, <1>6, <1>7 DEF DtmfNext

(* goertzel_energies_digit reports every tone once, for any digits and any *)
(* number of windows, as long as mpf_dtmf_detector_reset does not come in  *)
(* the middle of the analysis of a window: a digit is reported exactly     *)
(* when three windows in a row since the last reset have it and no tone of *)
(* that digit is going on.                                                 *)
THEOREM TonesOnce == ASSUME DtmfAssumption, ~Race PROVE DtmfSpec => []OncePerTone
<1>1. TonesInv => OncePerTone
  BY Zenon DEF TonesInv
<1> QED BY DtmfInvInit, WindowsInvNext, TonesInvNext, <1>1, PTL DEF DtmfSpec
=============================================================================
