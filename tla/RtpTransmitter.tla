--------------------------- MODULE RtpTransmitter ---------------------------
(* The sending side of an RTP stream (libs/mpf/src/mpf_rtp_stream.c): at     *)
(* each tick of the media engine the source gives a frame with speech or     *)
(* without, the DTMF generator adds its digit, and the transmitter collects  *)
(* audio frames until a packet is full and sends events at once.  The        *)
(* payload is abstracted to the ticks its frames were taken at; the          *)
(* statistics for RTCP and the RTCP packets are left out.  A packet the      *)
(* socket does not take is one that the network loses.                       *)
EXTENDS DtmfGenerator

CONSTANTS PacketFrames,     \* packet_frames: ptime in frames
          SamplesPerFrame,
          Word,             \* the range of the 32-bit timestamps
          SeqWord,          \* the range of the 16-bit sequence numbers
          TxEvents,         \* tx_event_descriptor is set: events were negotiated
          MaxTicks

VARIABLES tx,       \* current_frames, inactivity, last_seq_num, timestamp, timestamp_base
          packet,   \* the audio packet in the making: timestamp, marker, the ticks of its frames
          clock,    \* the ticks so far
          out,      \* the packets sent at the last tick
          past      \* what was sent before: the last audio packet, the last event packet, how
                    \* often its end was sent, the digits started, and whether an event took the
                    \* place of audio (torn) or a reset cut a digit short (cut) since

rtpVars == <<gen, typed, tx, packet, clock, out, past>>

None == [ts |-> -1]

TransmitterInit ==
    /\ GeneratorInit
    \* mpf_rtp_tx_stream_open
    /\ tx = [frames |-> 0, quiet |-> TRUE, seq |-> 0, ts |-> 0, base |-> 0]
    /\ packet = [ts |-> 0, marker |-> FALSE, ticks |-> <<>>]
    /\ clock = 0
    /\ out = <<>>
    /\ past = [audio |-> None, event |-> None, ends |-> 0, started |-> <<>>,
               torn |-> FALSE, cut |-> FALSE]

-----------------------------------------------------------------------------
(* The steps of mpf_rtp_stream_transmit, as functions of                     *)
(* s = [tx, packet, out].                                                    *)

\* mpf_rtp_event_send, with the base of the event's packets set where it starts
EventSend(s, event) ==
    LET base == IF event.marker \in {"start", "segment"} THEN s.tx.ts ELSE s.tx.base
        seq == (s.tx.seq + 1) % SeqWord
        sent == [type |-> "event", seq |-> seq, ts |-> base, id |-> event.id,
                 marker |-> event.marker = "start", edge |-> event.marker = "end",
                 duration |-> event.duration]
    IN  IF event = NoEvent \/ ~TxEvents THEN s
        ELSE [s EXCEPT !.tx.base = base, !.tx.seq = seq, !.out = Append(@, sent)]

\* mpf_rtp_data_send: the frame of this tick goes into the packet, which is sent when full
DataSend(s) ==
    LET p == [s.packet EXCEPT !.ticks = Append(@, clock + 1)]
        seq == (s.tx.seq + 1) % SeqWord
        sent == [type |-> "audio", seq |-> seq, ts |-> p.ts, marker |-> p.marker,
                 ticks |-> p.ticks]
    IN  IF s.tx.frames + 1 < PacketFrames
        THEN [s EXCEPT !.packet = p, !.tx.frames = @ + 1]
        ELSE [s EXCEPT !.packet = p, !.tx.frames = 0, !.tx.seq = seq, !.out = Append(@, sent)]

\* the first frame of a packet gives it its timestamp, and its marker after silence
Prepared(s) ==
    IF s.tx.frames # 0 THEN s
    ELSE [s EXCEPT !.packet = [ts |-> s.tx.ts, marker |-> s.tx.quiet, ticks |-> <<>>],
                   !.tx.quiet = FALSE]

\* silence that does not complete the packet
NothingAtOnce(s) == [s EXCEPT !.tx.quiet = TRUE]

\* a frame with nothing in it completes a packet that was begun, and only then it is silent
Nothing(s) ==
    IF s.tx.quiet THEN s
    ELSE IF s.tx.frames = 0 THEN [s EXCEPT !.tx.quiet = TRUE] ELSE DataSend(s)

Transmitted(s, audio, event) ==
    LET e == EventSend(s, event) IN
    IF ~audio /\ event = NoEvent THEN Nothing(s)
    ELSE IF audio THEN DataSend(Prepared(e)) ELSE e

-----------------------------------------------------------------------------
OfType(type) == SelectSeq(out', LAMBDA p : p.type = type)

\* what is remembered of this tick
Remember(torn) ==
    LET audio == OfType("audio")
        event == OfType("event")
        e == event[1]
    IN  past' = [past EXCEPT
            !.audio = IF audio = <<>> THEN @ ELSE audio[1],
            !.torn = audio = <<>> /\ ~tx'.quiet /\ (torn \/ @),
            !.event = IF event = <<>> THEN @ ELSE e,
            !.ends = IF event = <<>> THEN @ ELSE IF e.edge THEN @ + 1 ELSE 0,
            !.started = IF event # <<>> /\ e.marker THEN Append(@, e.id) ELSE @,
            !.cut = @ /\ ~(event # <<>> /\ e.marker)]

\* a tick of the media engine: mpf_dtmf_generator_put_frame and mpf_rtp_stream_transmit
Tick(speech) ==
    /\ clock < MaxTicks
    /\ LET put == PutFrame(gen)
           audio == speech \/ put.audio
           s == Transmitted([tx |-> [tx EXCEPT !.ts = (@ + SamplesPerFrame) % Word],
                             packet |-> packet, out |-> <<>>], audio, put.event)
       IN  /\ gen' = put.gen
           /\ tx' = s.tx /\ packet' = s.packet /\ out' = s.out
           /\ clock' = clock + 1
           /\ Remember(put.event # NoEvent /\ ~audio /\ ~tx.quiet)
    /\ UNCHANGED typed

TypeDigits ==
    /\ \E digits \in Typed : Enqueue(digits)
    /\ out' = <<>>
    /\ UNCHANGED <<tx, packet, clock, past>>

\* a reset cuts off the digit that is being sent, unless it had only its silence to come
ResetGenerator ==
    /\ Reset
    /\ out' = <<>>
    /\ past' = [past EXCEPT !.started = <<>>, !.cut = TRUE]
    /\ UNCHANGED <<tx, packet, clock>>

TransmitterNext == (\E speech \in BOOLEAN : Tick(speech)) \/ TypeDigits \/ ResetGenerator

TransmitterSpec == TransmitterInit /\ [][TransmitterNext]_rtpVars

-----------------------------------------------------------------------------
\* The packet that ends an event is not the first one of the event or of a segment.  Where
\* it is, it carries the end and neither the start nor the time of the segment, and what
\* follows repeats it with another duration.
PlainTone ==
    LET frames == (ToneDuration + FrameDuration - 1) \div FrameDuration
        segment == (MaxDuration \div FrameDuration) + 1
    IN  frames % segment # 1

\* the digits that were typed are started in their order, each once, and what is still to
\* come is in the queue
DigitsInOrder == PlainTone => past.started \o SelectSeq(gen.queue, IsValid) = typed.digits

\* the time after p at which q was taken
Since(p, q) == (q.ts - p.ts) % Word

\* the packets of a digit follow each other as RFC 4733 has it: one start, then growing
\* durations at the time of the start (or of a segment that begins when the one before is
\* over), and the end three times unless the generator was reset
EventFollows(p, q) ==
    PlainTone =>
    IF q.marker THEN p = None \/ (q.ts # p.ts /\ (past.cut \/ past.ends = 3))
    ELSE /\ p # None
         /\ q.id = p.id
         /\ \/ q.ts = p.ts /\ q.duration >= p.duration
            \/ q.ts # p.ts /\ ~p.edge /\ Since(p, q) >= p.duration
         /\ p.edge => q.edge /\ q.duration = p.duration /\ past.ends < 3

\* an audio packet holds frames of successive ticks from its timestamp on, and is marked
\* exactly when there was silence before it; a frame that has an event and no audio is
\* neither silence to the transmitter nor part of the packet it was collecting
AudioFollows(p, q) ==
    ~past.torn =>
        /\ \A i \in DOMAIN q.ticks : q.ticks[i] = q.ticks[1] + i - 1
        /\ q.ts = (q.ticks[1] * SamplesPerFrame) % Word
        /\ q.marker <=> p = None \/ q.ticks[1] # p.ticks[PacketFrames] + 1

\* what is sent at a step continues what was sent before
Follows ==
    /\ DigitsInOrder'
    /\ \A i \in DOMAIN out' :
           IF out'[i].type = "event" THEN EventFollows(past.event, out'[i])
           ELSE AudioFollows(past.audio, out'[i])
=============================================================================
