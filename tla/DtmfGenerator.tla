--------------------------- MODULE DtmfGenerator ---------------------------
(* The DTMF generator (libs/mpf/src/mpf_dtmf_generator.c): the application   *)
(* appends digits to its queue and the media thread has it put the tone of   *)
(* the digit, the named event, or both, into every frame the application's   *)
(* stream gives.  Of the tone only its presence is kept; an event is issued  *)
(* with every frame, as events_ptime is the time of one.                     *)
EXTENDS Integers, Sequences, SequencesExt

CONSTANTS ValidDigits,     \* what mpf_dtmf_char_to_event_id knows
          InBand, OutBand, \* the two flags of the band, at least one of them set
          FrameDuration, ToneDuration, SilenceDuration,  \* in timestamp units
          MaxDuration,     \* what the 16-bit duration of an event packet holds
          QueueLen,        \* MPF_DTMFGEN_QUEUE_LEN
          Typed,           \* the strings of digits the application enqueues
          MaxTyped         \* how often it does

VARIABLES gen,   \* state, queue, event_id, counter, event_duration, new_segment
          typed  \* the valid digits accepted since the last reset, and the calls made

NoEvent == [id |-> "none", marker |-> "none", duration |-> 0]

GeneratorInit ==
    /\ gen = [state |-> "IDLE", queue |-> <<>>, id |-> "none", counter |-> 0, duration |-> 0,
              segment |-> FALSE]
    /\ typed = [digits |-> <<>>, calls |-> 0]

IsValid(c) == c \in ValidDigits

\* mpf_dtmf_generator_enqueue: all of the digits or none of them
Enqueue(digits) ==
    /\ typed.calls < MaxTyped
    /\ IF Len(gen.queue) + Len(digits) > QueueLen
       THEN UNCHANGED gen /\ typed' = [typed EXCEPT !.calls = @ + 1]
       ELSE /\ gen' = [gen EXCEPT !.queue = @ \o digits]
            /\ typed' = [digits |-> typed.digits \o SelectSeq(digits, IsValid),
                         calls |-> typed.calls + 1]

\* mpf_dtmf_generator_reset
Reset ==
    /\ typed.calls < MaxTyped
    /\ gen' = [gen EXCEPT !.state = "IDLE", !.queue = <<>>]
    /\ typed' = [digits |-> <<>>, calls |-> typed.calls + 1]

-----------------------------------------------------------------------------
(* mpf_dtmf_generator_put_frame, as a function of the generator: what it     *)
(* becomes and what it puts into the frame.                                  *)

\* an idle generator takes the next valid digit out of the queue, and the others with it
Dequeued(g) ==
    LET first == SelectInSeq(g.queue, IsValid) IN
    IF g.state # "IDLE" \/ g.queue = <<>> THEN g
    ELSE IF first = 0 THEN [g EXCEPT !.queue = <<>>, !.id = "none"]
    ELSE [state |-> "TONE", queue |-> SubSeq(g.queue, first + 1, Len(g.queue)),
          id |-> g.queue[first], counter |-> 0, duration |-> 0, segment |-> FALSE]

Put(g, audio, event) == [gen |-> g, audio |-> audio, event |-> event]

\* the duration of an event that is too long for its field ends a segment
Overlong(g) == g.duration > MaxDuration

Issued(g, marker) ==
    [id |-> g.id, marker |-> marker, duration |-> IF Overlong(g) THEN MaxDuration ELSE g.duration]

Segmented(g) == IF Overlong(g) THEN [g EXCEPT !.duration = 0, !.segment = TRUE] ELSE g

\* what an event packet before the last one is marked with
Marker(g) ==
    IF g.counter = FrameDuration THEN "start" ELSE IF g.segment THEN "segment" ELSE "none"

Tone(g0) ==
    LET g == [g0 EXCEPT !.counter = @ + FrameDuration, !.duration = @ + FrameDuration]
        over == g.counter >= ToneDuration
        next == IF Marker(g) = "segment" THEN [g EXCEPT !.segment = FALSE] ELSE g
    IN  IF ~OutBand
        THEN Put(IF over THEN [g EXCEPT !.state = "SILENCE", !.counter = 0] ELSE g, TRUE, NoEvent)
        ELSE IF over
        THEN Put([Segmented(g) EXCEPT !.state = "ENDING", !.counter = 0], InBand, Issued(g, "end"))
        ELSE Put(Segmented(next), InBand, Issued(g, Marker(g)))

\* the packet that ends the event is sent twice more
Ending(g) ==
    LET count == g.counter + 1
        last == count >= 2
    IN  Put([g EXCEPT !.state = IF last THEN "SILENCE" ELSE @,
                      !.counter = IF last THEN count * FrameDuration ELSE count],
            InBand,
            [id |-> g.id, marker |-> "end",
             duration |-> IF g.segment THEN MaxDuration ELSE g.duration])

Silence(g) ==
    LET count == g.counter + FrameDuration IN
    Put([g EXCEPT !.counter = count, !.state = IF count >= SilenceDuration THEN "IDLE" ELSE @],
        FALSE, NoEvent)

PutFrame(g0) ==
    LET g == Dequeued(g0) IN
    CASE g.state = "IDLE" -> Put(g, FALSE, NoEvent)
      [] g.state = "TONE" -> Tone(g)
      [] g.state = "ENDING" -> Ending(g)
      [] g.state = "SILENCE" -> Silence(g)
=============================================================================
