---------------------------- MODULE FrameBuffer ----------------------------
(***************************************************************************)
(* libs/mpf/src/mpf_frame_buffer.c: the ring of frames between the thread  *)
(* of an application that writes audio and the media thread that reads it. *)
(* Both hold the mutex of the buffer.  mpf_frame_buffer_restart does not,  *)
(* and so it can come between the accesses of a write, or have a read      *)
(* between its own two accesses.                                           *)
(***************************************************************************)
EXTENDS Integers, Sequences

CONSTANTS FrameCount,  \* frame_count given to mpf_frame_buffer_create
          Audio,       \* what a frame may hold
          Chunk,       \* the data of one write, cut into frames
          NULL,        \* a frame of type MEDIA_FRAME_TYPE_NONE; no value
          Overlap,     \* BOOLEAN: a restart may overlap a read or a write
          MaxWritten   \* bound of the model: no write at this position

\* the constants make sense
FrameAssumption ==
    /\ FrameCount \in Nat /\ FrameCount >= 1
    /\ Chunk \subseteq Seq(Audio)
    /\ NULL \notin Audio /\ NULL \notin Int

VARIABLES frames,    \* [0 .. frame_count - 1 -> type and data of the frame]
          write_pos, read_pos,
          unwritten, \* what the write that holds the mutex has still to write
          copied,    \* the position of the frame it has copied and not counted
          loaded,    \* read_pos as the restart under way has read it
          frame      \* what the last mpf_frame_buffer_read returned

frameVars == <<frames, write_pos, read_pos, unwritten, copied, loaded, frame>>

(* mpf_frame_buffer_create *)
FrameInit ==
    /\ frames = [i \in 0 .. FrameCount - 1 |-> NULL]
    /\ write_pos = 0 /\ read_pos = 0
    /\ unwritten = <<>> /\ copied = NULL /\ loaded = NULL
    /\ frame = NULL

\* nobody holds the mutex
Free == unwritten = <<>> /\ copied = NULL

(* The positions are unsigned: a read_pos ahead of write_pos makes the     *)
(* difference huge, and the buffer seems full.                             *)
Room == write_pos - read_pos \in 0 .. FrameCount - 1

(* mpf_frame_buffer_write, up to the loop; a rest that is no whole frame   *)
(* is not written, as if it were not there.                                *)
WriteBegin(chunk) ==
    /\ Free /\ write_pos < MaxWritten
    /\ unwritten' = chunk
    /\ UNCHANGED <<frames, write_pos, read_pos, copied, loaded, frame>>

(* A turn of the loop: the copy, and then the count.  A restart in between *)
(* changes write_pos, and the increment uses the value of before or after. *)
WriteCopy ==
    /\ unwritten # <<>> /\ copied = NULL /\ Room
    /\ frames' = [frames EXCEPT ![write_pos % FrameCount] = Head(unwritten)]
    /\ copied' = write_pos
    /\ unwritten' = Tail(unwritten)
    /\ UNCHANGED <<write_pos, read_pos, loaded, frame>>

WriteCount ==
    /\ copied # NULL
    /\ write_pos' \in {copied + 1, write_pos + 1}
    /\ copied' = NULL
    /\ UNCHANGED <<frames, read_pos, unwritten, loaded, frame>>

\* the buffer is full: the rest is dropped
WriteDrop ==
    /\ unwritten # <<>> /\ copied = NULL /\ ~Room
    /\ unwritten' = <<>>
    /\ UNCHANGED <<frames, write_pos, read_pos, copied, loaded, frame>>

(* mpf_frame_buffer_read *)
FrameRead ==
    /\ Free
    /\ \/ /\ write_pos > read_pos
          /\ frame' = frames[read_pos % FrameCount]
          /\ frames' = [frames EXCEPT ![read_pos % FrameCount] = NULL]
          /\ read_pos' = read_pos + 1
       \/ /\ write_pos <= read_pos
          /\ frame' = NULL
          /\ UNCHANGED <<frames, read_pos>>
    /\ UNCHANGED <<write_pos, unwritten, copied, loaded>>

(* mpf_frame_buffer_restart, when it overlaps nothing and when it may *)
Restart ==
    /\ ~Overlap /\ Free
    /\ write_pos' = read_pos
    /\ UNCHANGED <<frames, read_pos, unwritten, copied, loaded, frame>>

RestartLoad ==
    /\ Overlap /\ loaded = NULL
    /\ loaded' = read_pos
    /\ UNCHANGED <<frames, write_pos, read_pos, unwritten, copied, frame>>

RestartStore ==
    /\ loaded # NULL
    /\ write_pos' = loaded
    /\ loaded' = NULL
    /\ UNCHANGED <<frames, read_pos, unwritten, copied, frame>>

FrameWrite == (\E chunk \in Chunk : WriteBegin(chunk)) \/ WriteCopy \/ WriteCount \/ WriteDrop

FrameNext == FrameWrite \/ FrameRead \/ Restart \/ RestartLoad \/ RestartStore

FrameSpec == FrameInit /\ [][FrameNext]_frameVars
-----------------------------------------------------------------------------
(* The frames that wait are those between read_pos and write_pos, never    *)
(* more than the buffer holds, and the one that mpf_frame_buffer_write has *)
(* copied is the next one.                                                 *)
FramePositions ==
    /\ write_pos - read_pos \in 0 .. FrameCount
    /\ copied # NULL => copied = write_pos /\ write_pos - read_pos < FrameCount
    /\ \A p \in read_pos .. write_pos - 1 : frames[p % FrameCount] # NULL

\* the frames that wait, the oldest first
Waiting == [i \in 1 .. write_pos - read_pos |-> frames[(read_pos + i - 1) % FrameCount]]

FrameFifo == INSTANCE FifoQueue WITH Object <- Audio, NoObject <- NULL, q <- Waiting, popped <- frame

(* With a restart that overlaps neither a read nor a write, the media      *)
(* thread reads what the application has written, in that order, and       *)
(* nothing twice.                                                          *)
FramesRefineFifo == FrameFifo!Spec
=============================================================================
