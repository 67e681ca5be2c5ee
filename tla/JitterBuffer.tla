---------------------------- MODULE JitterBuffer ----------------------------
(* The jitter buffer of the RTP receiver (libs/mpf/src/mpf_jitter_buffer.c): *)
(* a ring of frames, written at the position a packet's timestamp gives it   *)
(* and read one frame per tick of the media engine.  The position is moved   *)
(* by the playout delay, which grows when packets are late (adaptive), and   *)
(* by the offset, which is corrected when the sender's clock is found to be  *)
(* slow (time_skew_detection).  The content of a frame is abstracted to the  *)
(* timestamp and the position it was written for; one medium thread writes   *)
(* and reads.                                                                *)
EXTENDS Integers, Sequences, FiniteSets

CONSTANTS FrameTs,     \* frame_ts: the timestamp units of one frame
          FrameCount,  \* frame_count
          Delay,       \* the initial playout delay, a multiple of FrameTs
          Adaptive, Skew,
          Measures,    \* stat_update starts over after so many (50 in the code)
          Word,        \* the range of an unsigned 32-bit number (2^32)
          TsBase,      \* the timestamp of the sender's first sample
          Times,       \* the sample times the sender makes packets of
          Sizes,       \* the number of frames in a packet
          Ahead, Behind, \* how far a packet's time is from the receiver's clock
          EventStream, \* the packets of named events (DTMF digits) that are sent
          MaxRead,     \* the model ends when read_ts gets here
          MaxRestarts, \* how often the receiver restarts the buffer
          NULL

ASSUME FrameTsDivides == FrameTs > 0 /\ Delay % FrameTs = 0 /\ Word % FrameTs = 0

VARIABLES jb,       \* write_sync, write_ts_offset, write_ts, read_ts, playout_delay_ts, statistics
          frames,   \* the ring
          event,    \* event_write_base(_ts) and what event_write_update points to
          played,   \* the time of the last audio frame read since the last sync
          heard,    \* the last event frame read that has a marker
          restarts

vars == <<jb, frames, event, played, heard, restarts>>

-----------------------------------------------------------------------------
\* max_playout_delay_ts: frame_count is the same delay, in frames
MaxDelay == FrameCount * FrameTs

Uint(n) == n % Word

\* the reading of an unsigned difference as apr_int32_t
Int32(n) == LET u == Uint(n) IN IF u >= Word \div 2 THEN u - Word ELSE u

Align(n) == n - (n % FrameTs)

Index(ts) == (ts \div FrameTs) % FrameCount

EmptyFrame == [audio |-> NULL, pos |-> NULL, event |-> NULL, marker |-> "none"]

NoEvent == [base |-> NULL, baseTs |-> 0, updated |-> FALSE, duration |-> 0, edge |-> FALSE]

Init ==
    /\ jb = [sync |-> TRUE, offset |-> 0, write |-> 0, read |-> 0, delay |-> Delay,
             min |-> 0, max |-> 0, count |-> 0]
    /\ frames = [i \in 0..(FrameCount - 1) |-> EmptyFrame]
    /\ event = NoEvent
    /\ played = -1
    /\ heard = EmptyFrame
    /\ restarts = 0

\* mpf_jitter_buffer_restart
Restart ==
    /\ restarts < MaxRestarts
    /\ restarts' = restarts + 1
    /\ jb' = [jb EXCEPT !.sync = TRUE, !.offset = 0, !.write = jb.read,
                        !.delay = IF Adaptive /\ @ = MaxDelay THEN Delay ELSE @]
    /\ event' = NoEvent
    /\ played' = -1
    /\ UNCHANGED <<frames, heard>>

-----------------------------------------------------------------------------
(* Writing audio.                                                            *)

\* mpf_jitter_buffer_write_prepare: synchronise if needed ...
Synced(j, ts) ==
    IF ~j.sync THEN j
    ELSE LET s == [j EXCEPT !.sync = FALSE, !.offset = Uint(ts - j.read)] IN
         IF Skew THEN [s EXCEPT !.min = j.delay, !.max = j.delay, !.count = 0] ELSE s

\* ... and give the position
Position(j, ts) == Align(Uint(ts - j.offset + j.delay))

\* a marker starts a new talkspurt: synchronise again if the buffer is empty
Marked(j, marker) == IF marker /\ j.write <= j.read THEN [j EXCEPT !.sync = TRUE] ELSE j

\* the time skew the statistics show, and the state after it is taken out
SkewSeen(j) == Skew /\ j.max > 0 /\ j.max < j.delay

Unskewed(j) ==
    LET skew == Align(j.delay - j.max) IN
    IF SkewSeen(j) THEN [j EXCEPT !.offset = Uint(@ - skew), !.min = @ + skew, !.max = @ + skew]
    ELSE j

\* by how much the delay has to grow for a packet that is late by `late`
Growth(j, late) ==
    LET spread == Uint(j.max - j.min)
        delta == IF Skew /\ spread > j.delay + late THEN Align(spread - j.delay) ELSE late
        skew == IF SkewSeen(j) THEN Align(j.delay - j.max) ELSE 0
    IN  IF skew < delta THEN delta - skew ELSE 0

Grown(j, delta) ==
    LET g == [j EXCEPT !.delay = @ + delta] IN
    IF Skew /\ delta > 0 THEN [g EXCEPT !.min = @ + delta, !.max = @ + delta] ELSE g

Discard(j) == [jb |-> j, pos |-> NULL]

LateAnyway(j, ts) ==
    LET pos == Position(j, ts)
        delta == Growth(j, j.read - pos)
        moved == IF SkewSeen(j) THEN Uint(ts - Unskewed(j).offset + j.delay) ELSE pos
    IN  IF delta > 0 /\ (~Adaptive \/ j.delay + delta > MaxDelay) THEN Discard(Unskewed(j))
        ELSE [jb |-> Grown(Unskewed(j), delta), pos |-> moved + delta]

\* a packet whose position has been read already: discarded if it is out of order,
\* or if the delay may not grow as much as it takes
Late(j, ts) ==
    LET pos == Position(j, ts)
        delta == Growth(j, j.read - pos)
        moved == IF SkewSeen(j) THEN Uint(ts - Unskewed(j).offset + j.delay) ELSE pos
    IN  IF pos < j.write THEN Discard(j)
        ELSE IF delta > 0 /\ (~Adaptive \/ j.delay + delta > MaxDelay) THEN Discard(Unskewed(j))
        ELSE [jb |-> Grown(Unskewed(j), delta), pos |-> moved + delta]

Placed(j, ts) ==
    IF Position(j, ts) >= j.read THEN [jb |-> j, pos |-> Position(j, ts)] ELSE Late(j, ts)

\* available_frame_count, which is unsigned: 0 only when the position is exactly at
\* the end of the buffer, and without bound when it is beyond
Available(j, pos, size) ==
    LET free == FrameCount - ((pos - j.read) \div FrameTs) IN
    IF free < 0 \/ free > size THEN size ELSE free

AdvancedOne(j, pos, n) ==
    IF n > 0 /\ pos + FrameTs > j.write THEN [j EXCEPT !.write = pos + FrameTs] ELSE j

\* the write position after n frames from pos on
Advanced(j, pos, n) ==
    IF n > 0 /\ pos + n * FrameTs > j.write THEN [j EXCEPT !.write = pos + n * FrameTs] ELSE j

\* mpf_jitter_buffer_write of a packet with the audio of `size` frames from `time` on
Write(time, size, marker) ==
    LET ts == Uint(TsBase + time)
        placed == Placed(Synced(Marked(jb, marker), ts), ts)
        n == IF placed.pos = NULL THEN 0 ELSE Available(placed.jb, placed.pos, size)
        Put(i, k) == Index(placed.pos + k * FrameTs) = i
    IN  /\ frames' = [i \in DOMAIN frames |->
              IF \E k \in 0..(n - 1) : Put(i, k)
              THEN LET k == CHOOSE k \in 0..(n - 1) :
                                Put(i, k) /\ \A l \in (k + 1)..(n - 1) : ~Put(i, l) IN
                   [frames[i] EXCEPT !.audio = time + k * FrameTs,
                                     !.pos = Align(placed.pos) + k * FrameTs]
              ELSE frames[i]]
        /\ jb' = Advanced(placed.jb, placed.pos, n)
        /\ played' = IF Marked(jb, marker).sync THEN -1 ELSE played
        /\ UNCHANGED <<event, heard, restarts>>

\* a packet the network delivers: lost, duplicated and reordered ones included, within
\* Ahead and Behind of the receiver's clock
Packet ==
    \E time \in Times, size \in Sizes, marker \in BOOLEAN :
        /\ time <= jb.read + Ahead
        /\ time >= jb.read - Behind
        /\ Write(time, size, marker)

-----------------------------------------------------------------------------
(* Writing named events.                                                     *)

\* whether a packet of an event starts a new one, with or without its marker
IsNew(e, pos, id, marker) ==
    \/ marker
    \/ e.base # id
    \/ ~e.updated
    \/ e.baseTs # pos /\ pos > e.baseTs + e.duration + 4 * FrameTs

\* an update that brings nothing new: from the past, or a retransmission
IsStale(e, duration, edge) ==
    \/ duration < e.duration
    \/ duration = e.duration /\ (e.edge \/ e.edge = edge)

\* the event a packet starts, or the segment of a long one
Based(id, pos, duration, edge) ==
    [base |-> id, baseTs |-> pos, updated |-> TRUE, duration |-> duration, edge |-> edge]

\* mpf_jitter_buffer_event_write
EventWrite(time, id, duration, edge, marker) ==
    LET ts == Uint(TsBase + time)
        j == Synced(jb, ts)
        pos0 == Position(j, ts)
        new == IsNew(event, pos0, id, marker)
        segment == ~new /\ event.baseTs # pos0
        e == IF new \/ segment THEN Based(id, pos0, duration, edge) ELSE event
        pos == IF new THEN pos0 ELSE Uint(pos0 + e.duration)
        late == j.read - pos
        discarded == \/ late > 0 /\ (~Adaptive \/ j.delay + late > MaxDelay)
                     \/ late <= 0 /\ (pos - j.read) \div FrameTs >= FrameCount
        put == IF late > 0 THEN j.read ELSE pos
        mark == IF new THEN "start" ELSE IF edge THEN "end" ELSE frames[Index(put)].marker
    IN  /\ IF (~new /\ IsStale(e, duration, edge)) \/ discarded
           THEN jb' = j /\ event' = e /\ UNCHANGED frames
           ELSE /\ jb' = [j EXCEPT !.delay = IF late > 0 THEN @ + late ELSE @,
                                   !.write = IF put + FrameTs > @ THEN put + FrameTs ELSE @]
                /\ event' = [e EXCEPT !.duration = duration, !.edge = edge,
                                      !.baseTs = IF late > 0 /\ new THEN put ELSE @]
                /\ frames' = [frames EXCEPT ![Index(put)].event = id,
                                            ![Index(put)].marker = mark]
        /\ played' = IF jb.sync THEN -1 ELSE played
        /\ UNCHANGED <<heard, restarts>>

\* a packet of an event, as the network delivers it
EventPacket ==
    \E p \in EventStream :
        /\ p.time <= jb.read + Ahead
        /\ p.time >= jb.read - Behind
        /\ EventWrite(p.time, p.id, p.duration, p.edge, p.marker)

-----------------------------------------------------------------------------
(* Reading.                                                                  *)

\* mpf_jitter_buffer_stat_update
Measured(j) ==
    LET mean == j.min + ((j.max - j.min) \div 2)
        s == IF j.count = Measures THEN [j EXCEPT !.min = mean, !.max = mean, !.count = 0] ELSE j
        length == Int32(j.write - j.read)
    IN  [s EXCEPT !.max = IF length > @ THEN length ELSE @,
                  !.min = IF length <= s.max /\ length < @ THEN length ELSE @,
                  !.count = @ + 1]

\* mpf_jitter_buffer_read: one frame per tick, which leaves its place empty
Read ==
    /\ jb.read < MaxRead
    /\ LET source == frames[Index(jb.read)]
           next == [jb EXCEPT !.read = @ + FrameTs]
       IN  /\ heard' = IF jb.write > jb.read /\ source.marker # "none"
                        THEN [EmptyFrame EXCEPT !.event = source.event, !.marker = source.marker]
                        ELSE heard
           /\ played' = IF jb.write > jb.read /\ source.audio # NULL THEN source.audio ELSE played
           /\ frames' = [frames EXCEPT ![Index(jb.read)] = EmptyFrame]
           /\ jb' = IF Skew THEN Measured(next) ELSE next
    /\ UNCHANGED <<event, restarts>>

Next == Packet \/ EventPacket \/ Read \/ Restart

Spec == Init /\ [][Next]_vars

-----------------------------------------------------------------------------
\* the buffer is never further ahead of the reader than it has frames: what is beyond is
\* discarded as too early
WithinBuffer == jb.write - jb.read <= FrameCount * FrameTs

\* a frame in the ring waits for the position it was written for, and that is one the
\* reader has still to reach
FramesAtTheirPosition ==
    \A i \in DOMAIN frames : frames[i].audio # NULL =>
        /\ Index(frames[i].pos) = i
        /\ frames[i].pos >= jb.read
        /\ frames[i].pos < jb.read + FrameCount * FrameTs

\* all the audio in the ring is before the write position, so that no frame is skipped as
\* an underflow; a restart moves the write position back over what is in the ring
NothingBehindWrite ==
    restarts = 0 =>
        \A i \in DOMAIN frames : frames[i].audio # NULL => frames[i].pos < jb.write

\* audio is played in the order of the sender's samples, each at most once, between two
\* synchronisations, whatever the order of arrival and however the delay adapts; a
\* restart leaves what is in the ring to be played
InOrder == restarts = 0 /\ played' # played /\ played' # -1 => played' > played

\* an event is reported to have ended only after it was reported to have started, though
\* packets are lost and the marker may be missing
EndAfterStart == heard' # heard /\ heard'.marker = "end" => heard.event = heard'.event
=============================================================================
