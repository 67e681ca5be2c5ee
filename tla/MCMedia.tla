------------------------------ MODULE MCMedia ------------------------------
(* The media engine, one part at a time: a context with an RTP termination   *)
(* and engines, two that produce speech and two that listen; a jitter buffer *)
(* of a few frames of two timestamp units, adaptive, with the detection of   *)
(* time skew, or with the packets of two digits between those of the audio;  *)
(* an RTP transmitter with short digits, or with ones that take two          *)
(* segments; an RTP receiver of one source, whose sequence numbers turn      *)
(* over, or of three, one of which has the identifier 0; the detector of     *)
(* speech; and the detector of digits, for tones with breaks, or reset in    *)
(* the middle of the analysis of a window.                                   *)
EXTENDS JitterBuffer

VARIABLES part,
          header, tx_count, rx_count, matrix, count, slot, direction, in_ring, mpf_objects,
          stopped, member, hurt,
          gen, typed, tx, packet, clock, out, past,
          rx, time, shift, seen, strange, trouble,
          detector, det_event, listener,
          det_pc, inband, buf, lost_digits, curr, last1, last2, digit, read2, windows, reported,
          since

contextVars == <<header, tx_count, rx_count, matrix, count, slot, direction, in_ring, mpf_objects,
                 stopped, member, hurt>>

senderVars == <<gen, typed, tx, packet, clock, out, past>>

rtpRxVars == <<rx, time, shift, seen, strange, trouble>>

speechVars == <<detector, det_event, listener>>

digitVars == <<det_pc, inband, buf, lost_digits, curr, last1, last2, digit, read2, windows, reported,
               since>>

Context == INSTANCE MpfContext
    WITH Rtp <- {"rtp"}, Engines <- {"synth", "cantor", "recog", "recorder"}, Capacity <- 4,
         Direction <- [synth |-> {"RECEIVE"}, cantor |-> {"RECEIVE"},
                       recog |-> {"SEND"}, recorder |-> {"SEND"}]

Skewed == INSTANCE JitterBuffer
    WITH FrameCount <- 8, Delay <- 4, Skew <- TRUE, Measures <- 2,
         Times <- {0, 2, 4, 6, 8, 10}, Behind <- 6, MaxRead <- 12, MaxRestarts <- 0

\* the packets of an event have its time, growing durations, the marker on the first
\* and the end on the last ones
Digit(t, key) ==
    {[time |-> t, id |-> key, duration |-> d.dur, edge |-> d.end, marker |-> d.mark] :
        d \in {[dur |-> 2, end |-> FALSE, mark |-> TRUE], [dur |-> 4, end |-> FALSE, mark |-> FALSE],
               [dur |-> 6, end |-> FALSE, mark |-> FALSE], [dur |-> 6, end |-> TRUE, mark |-> FALSE]}}

Digits == INSTANCE JitterBuffer
    WITH FrameCount <- 6, Times <- {6}, Sizes <- {1},
         EventStream <- Digit(0, "1") \cup Digit(8, "2"), MaxRead <- 12, MaxRestarts <- 0

\* a digit takes three frames, the two packets that repeat its end and one of silence
Sender == INSTANCE RtpTransmitter
    WITH ValidDigits <- {"1", "2"}, InBand <- FALSE, OutBand <- TRUE, FrameDuration <- 2,
         ToneDuration <- 6, SilenceDuration <- 6, MaxDuration <- 20, QueueLen <- 3,
         Typed <- {<<"1", "x", "2">>, <<"1">>}, MaxTyped <- 2, PacketFrames <- 2,
         SamplesPerFrame <- 2, Word <- 24, SeqWord <- 8, TxEvents <- TRUE, MaxTicks <- 12

\* a tone of six frames, of which a segment holds four, with audio in the same frames
LongSender == INSTANCE RtpTransmitter
    WITH ValidDigits <- {"1", "2"}, InBand <- TRUE, OutBand <- TRUE, FrameDuration <- 2,
         ToneDuration <- 12, SilenceDuration <- 6, MaxDuration <- 7, QueueLen <- 3,
         Typed <- {<<"1", "2">>, <<"x">>}, MaxTyped <- 2, PacketFrames <- 2,
         SamplesPerFrame <- 2, Word <- 24, SeqWord <- 8, TxEvents <- TRUE, MaxTicks <- 12

OneSource == INSTANCE RtpReceiver
    WITH Sources <- {"a"}, Zero <- "zero", SeqWord <- 6, MaxDropout <- 3, Probation <- 2,
         ByteWord <- 4, Threshold <- 30, Deviation <- 3, Jitter <- 1, FirstSeq <- 4, Hop <- 9,
         Steps <- {1, 3}, MaxReceived <- 4, MaxTime <- 4

ManySources == INSTANCE RtpReceiver
    WITH Sources <- {"a", "b", "zero"}, Zero <- "zero", SeqWord <- 6, MaxDropout <- 3,
         Probation <- 2, ByteWord <- 4, Threshold <- 30, Deviation <- 3, Jitter <- 1,
         FirstSeq <- 4, Hop <- 9, Steps <- {1}, MaxReceived <- 3, MaxTime <- 1

\* time-outs of no time, of two frames and of a part of a frame more
Speaker == INSTANCE ActivityDetector
    WITH Speech <- 20, Noinput <- 25, Timeouts <- {0, 20, 25}, MaxFrames <- 6

\* a tone, a break of three windows and the tone again
Tones == INSTANCE DtmfDetector
    WITH Found <- {"1"}, NoDigit <- NULL, BufferLen <- 1, Race <- FALSE, MaxWindows <- 9,
         MaxLost <- 1

Racing == INSTANCE DtmfDetector
    WITH Found <- {"1", "2"}, NoDigit <- NULL, BufferLen <- 1, Race <- TRUE, MaxWindows <- 6,
         MaxLost <- 1

MCInit ==
    /\ Context!Init
    /\ Sender!TransmitterInit
    /\ OneSource!ReceiverInit
    /\ Tones!DtmfInit
    /\ Speaker!DetectorInit
    /\ \/ part \in {"context", "adaptive", "sender", "long", "one", "many", "speech", "tones", "racing"}
          /\ Init
       \/ part = "skewed" /\ Skewed!Init
       \/ part = "digits" /\ Digits!Init

Buffer ==
    \/ part = "adaptive" /\ Next
    \/ part = "skewed" /\ Skewed!Next
    \/ part = "digits" /\ Digits!Next

Sending ==
    \/ part = "sender" /\ Sender!TransmitterNext
    \/ part = "long" /\ LongSender!TransmitterNext

Receiving ==
    \/ part = "one" /\ OneSource!ReceiverNext
    \/ part = "many" /\ ManySources!ReceiverNext

Detecting ==
    \/ part = "tones" /\ Tones!DtmfNext
    \/ part = "racing" /\ Racing!DtmfNext

MCNext ==
    /\ UNCHANGED part
    /\ \/ part = "context" /\ Context!Next
          /\ UNCHANGED <<vars, senderVars, rtpRxVars, speechVars, digitVars>>
       \/ Buffer /\ UNCHANGED <<contextVars, senderVars, rtpRxVars, speechVars, digitVars>>
       \/ Sending /\ UNCHANGED <<vars, contextVars, rtpRxVars, speechVars, digitVars>>
       \/ Receiving /\ UNCHANGED <<vars, contextVars, senderVars, speechVars, digitVars>>
       \/ part = "speech" /\ Speaker!DetectorNext
          /\ UNCHANGED <<vars, contextVars, senderVars, rtpRxVars, digitVars>>
       \/ Detecting /\ UNCHANGED <<vars, contextVars, senderVars, rtpRxVars, speechVars>>

MCSpec ==
    MCInit /\ [][MCNext]_<<vars, contextVars, senderVars, rtpRxVars, speechVars, digitVars, part>>

(* ContextConsistent, ObjectsAreLive and CarriedOnce of mpf_context.c: the   *)
(* header and the matrix agree, the media thread runs no object on a         *)
(* termination that has left the context, and with the topology applied each *)
(* association is carried by one object                                      *)
ContextSound == Context!ContextConsistent /\ Context!ObjectsAreLive /\ Context!CarriedOnce

(* WithinBuffer, FramesAtTheirPosition and NothingBehindWrite of             *)
(* mpf_jitter_buffer_write, for each configuration of the buffer             *)
FramesInPlace ==
    /\ NothingBehindWrite
    /\ part = "adaptive" => WithinBuffer /\ FramesAtTheirPosition
    /\ part = "skewed" => Skewed!WithinBuffer /\ Skewed!FramesAtTheirPosition
    /\ part = "digits" => Digits!WithinBuffer /\ Digits!FramesAtTheirPosition

(* InOrder of mpf_jitter_buffer_read, for a stream without named events: a   *)
(* late event makes the delay grow without regard to the audio that is       *)
(* waiting, and a packet that was overtaken is then placed after the one     *)
(* that overtook it; and EndAfterStart for the digits                        *)
PlayedInOrder == [][(part # "digits" => InOrder) /\ EndAfterStart]_<<vars, part>>

(* Follows of mpf_rtp_stream_transmit and mpf_dtmf_generator_put_frame: the  *)
(* packets sent for digits and for audio continue the ones sent before, and  *)
(* the digits typed are sent in order                                        *)
SentInOrder ==
    [][/\ part = "sender" => Sender!Follows
       /\ part = "long" => LongSender!Follows]_<<senderVars, part>>

(* ReceiverSound and SourceKept of rtp_rx_packet_receive: exact counts,      *)
(* reports that can be made, and restarts and changes of the source only for *)
(* the reasons the code has                                                  *)
ReceivedSoundly ==
    [][/\ part = "one" => OneSource!ReceiverSound' /\ OneSource!SourceKept
       /\ part = "many" => ManySources!ReceiverSound' /\ ManySources!SourceKept]_<<rtpRxVars, part>>

(* ReportsExactly of mpf_activity_detector_process, OncePerTone and          *)
(* ThreeSuccessive of goertzel_energies_digit: speech, its end, the lack of  *)
(* input and digits are reported when a listener would who counts the frames *)
(* and the windows                                                           *)
DetectedExactly ==
    [][/\ part = "speech" => Speaker!ReportsExactly
       /\ part = "tones" => Tones!OncePerTone'
       /\ Racing!ThreeSuccessive']_<<speechVars, digitVars, part>>
=============================================================================
