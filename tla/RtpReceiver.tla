---------------------------- MODULE RtpReceiver ----------------------------
(* The receiving side of an RTP stream (libs/mpf/src/mpf_rtp_stream.c):      *)
(* which packets of which source are passed to the jitter buffer, the        *)
(* statistics of sequence numbers and losses, and the restarts.  The clocks  *)
(* of the senders and of the receiver are one; the network delivers packets  *)
(* late, out of order, twice or not at all.  What the jitter buffer does     *)
(* with a packet is not determined here (see JitterBuffer).                  *)
EXTENDS Integers, FiniteSets

CONSTANTS Sources,       \* the synchronisation sources that send to the port
          Zero,          \* the one, if any, whose identifier is 0
          SeqWord,       \* RTP_SEQ_MOD
          MaxDropout,
          Probation,     \* packets a new source is in probation for (5)
          ByteWord,      \* the range of the counter of them
          Threshold,     \* DISCARDED_TO_RECEIVED_RATIO_THRESHOLD, in percent
          Deviation,     \* DEVIATION_THRESHOLD, in packets
          Jitter,        \* how much the delay of the network varies, in packets
          FirstSeq,      \* the sequence number of a source's first packet
          Hop,           \* by how much a sender moves its timestamps
          Steps,         \* the time between two arrivals, in packets
          MaxReceived,   \* the packets counted between two restarts
          MaxTime        \* the model ends here

VARIABLES rx,     \* rr_stat, stat, history and periodic_history
          time,   \* the receiver's clock, in packets
          shift,  \* what has been added to the timestamps
          seen,   \* the first and the furthest packet counted since the last start
          strange, \* the packets in a row of one source the receiver does not know
          trouble \* what has happened: jumps since the last start, event packets refused
                  \* since the last report, and any other reason to restart

rxVars == <<rx, time, shift, seen, strange, trouble>>

None == "none"

Cleared == [received |-> 0, discarded |-> 0, cycles |-> 0, base |-> 0, max |-> 0, tsLast |-> 0,
            timeLast |-> 0, new |-> Zero, probation |-> 0, receivedPrior |-> 0,
            expectedPrior |-> 0, discardedPrior |-> 0]

NotSeen == [first |-> 0, top |-> 0]

NotStrange == [of |-> None, count |-> 0]

ReceiverInit ==
    /\ rx = [ssrc |-> Zero, fraction |-> 0, lost |-> 0, restarts |-> 0, stat |-> Cleared]
    /\ time = 0
    /\ shift = 0
    /\ seen = NotSeen
    /\ strange = NotStrange
    /\ trouble = {}

Seq(index) == (FirstSeq + index) % SeqWord

-----------------------------------------------------------------------------
(* The parts of rtp_rx_packet_receive, as functions of the receiver.         *)

\* rtp_rx_stat_init
StatInit(r, p) ==
    [r EXCEPT !.ssrc = p.ssrc, !.stat.base = Seq(p.index), !.stat.max = Seq(p.index),
              !.stat.tsLast = p.ts, !.stat.timeLast = time]

RestartKeepingPeriod(r) ==
    [r EXCEPT !.restarts = (@ + 1) % ByteWord,
              !.stat = [Cleared EXCEPT !.receivedPrior = r.stat.receivedPrior,
                                       !.expectedPrior = r.stat.expectedPrior]]

\* rtp_rx_restart: everything but the identifier of the source, and the report of losses
Restart(r) == [r EXCEPT !.restarts = (@ + 1) % ByteWord, !.stat = Cleared]

\* rtp_rx_ssrc_update; the counter is taken down before it is looked at
SsrcUpdate(r, ssrc) ==
    LET left == (r.stat.probation - 1) % ByteWord IN
    IF r.ssrc = ssrc
    THEN [result |-> "UPDATE",
          rx |-> IF r.stat.probation = 0 THEN r
                 ELSE [r EXCEPT !.stat.probation = 0, !.stat.new = Zero]]
    ELSE IF r.stat.new # ssrc
    THEN [result |-> "PROBATION",
          rx |-> [r EXCEPT !.stat.new = ssrc, !.stat.probation = Probation]]
    ELSE IF left # 0
    THEN [result |-> "PROBATION", rx |-> [r EXCEPT !.stat.probation = left]]
    ELSE [result |-> "RESTART", rx |-> [r EXCEPT !.stat.probation = 0, !.ssrc = ssrc]]

\* rtp_rx_seq_update; whether a packet that is not ahead is a drift or out of order is
\* determined, but nobody asks
SeqUpdate(r, seq) ==
    LET delta == (seq - r.stat.max) % SeqWord
        s == [r EXCEPT !.stat.received = @ + 1]
    IN  IF delta < MaxDropout
        THEN [s EXCEPT !.stat.max = seq,
                       !.stat.cycles = IF seq < r.stat.max THEN @ + SeqWord ELSE @]
        ELSE s

\* rtp_rx_ts_update: the difference of the arrival times against that of the timestamps
Drifts(r, p) ==
    LET d == (time - r.stat.timeLast) - (p.ts - r.stat.tsLast) IN
    d > Deviation \/ -d > Deviation

TsUpdate(r, p) == [r EXCEPT !.stat.tsLast = p.ts, !.stat.timeLast = time]

\* rtp_rx_failure_threshold_check
Failed(r) ==
    (r.stat.discarded - r.stat.discardedPrior) * 100
        > (r.stat.received - r.stat.receivedPrior) * Threshold

Discarded(r) == [r EXCEPT !.stat.discarded = @ + 1]

\* a packet of the source the receiver listens to, with its sequence number counted;
\* accepted tells what the jitter buffer makes of it
Payload(r, p, accepted) ==
    CASE p.type = "audio" /\ Drifts(r, p) -> Restart(r)
      [] p.type = "audio" /\ ~Drifts(r, p) ->
            LET t == TsUpdate(r, p) IN
            IF accepted THEN t
            ELSE IF Failed(Discarded(t)) THEN Restart(Discarded(t)) ELSE Discarded(t)
      [] p.type = "event" -> IF accepted THEN r ELSE Discarded(r)
      [] p.type = "other" -> r

\* rtp_rx_packet_receive
Received(p, accepted) ==
    LET r0 == IF rx.stat.received = 0 THEN StatInit(rx, p) ELSE rx
        u == SsrcUpdate(r0, p.ssrc)
        r1 == IF u.result = "RESTART" THEN StatInit(Restart(u.rx), p) ELSE u.rx
    IN  IF u.result = "PROBATION" THEN r1
        ELSE Payload(SeqUpdate(r1, Seq(p.index)), p, accepted)

\* what is remembered of a packet: where the count of its source begins and how far it has
\* come, or how many strange ones it is the last of
Watch(p, accepted) ==
    LET heard == rx'.ssrc = p.ssrc
        starts == heard /\ rx'.stat.received <= 1
        far == ~starts /\ p.index >= seen.top + MaxDropout
        again == strange.of = p.ssrc
    IN  /\ seen' = IF starts THEN [first |-> p.index, top |-> p.index]
                   ELSE IF heard /\ p.index > seen.top THEN [seen EXCEPT !.top = p.index]
                   ELSE seen
        /\ strange' = IF heard THEN NotStrange
                      ELSE [of |-> p.ssrc, count |-> IF again THEN strange.count + 1 ELSE 1]
        /\ trouble' = (trouble \ IF starts THEN {"jump", "event"} ELSE {})
                        \cup (IF heard /\ far THEN {"jump"} ELSE {})
                        \cup (IF heard /\ p.type = "event" /\ ~accepted THEN {"event"} ELSE {})
                        \cup (IF ~heard \/ ~accepted THEN {"reason"} ELSE {})

\* the network delivers a packet of a source, not later than Jitter after it was sent
Arrive ==
    \E ssrc \in Sources, index \in (time - Jitter)..time, accepted \in BOOLEAN,
       type \in {"audio", "event", "other"} :
        LET p == [ssrc |-> ssrc, index |-> index, ts |-> index + shift, type |-> type] IN
        /\ index >= 0 /\ rx.stat.received < MaxReceived
        /\ rx' = Received(p, accepted)
        /\ Watch(p, accepted)
        /\ UNCHANGED <<time, shift>>

\* time goes by; what was sent in it may arrive or be lost
Pass ==
    /\ \E step \in Steps : time + step <= MaxTime /\ time' = time + step
    /\ UNCHANGED <<rx, shift, seen, strange, trouble>>

\* the sender moves its timestamps, which nothing in RTP tells the receiver
SenderHops ==
    /\ shift = 0
    /\ shift' = Hop
    /\ trouble' = trouble \cup {"reason"}
    /\ UNCHANGED <<rx, time, seen, strange>>

Expected == IF rx.stat.received = 0 THEN 0 ELSE rx.stat.cycles + rx.stat.max - rx.stat.base + 1

ExpectedInterval == Expected - rx.stat.expectedPrior

ReceivedInterval == rx.stat.received - rx.stat.receivedPrior

\* mpf_rtcp_report_send, on the timer, with rtp_periodic_history_update
Report ==
    LET lost == ExpectedInterval - ReceivedInterval IN
    /\ rx' = [rx EXCEPT
            !.fraction = IF ExpectedInterval = 0 \/ lost <= 0 THEN 0
                         ELSE ((lost * 256) \div ExpectedInterval) % 256,
            !.lost = IF Expected > rx.stat.received THEN Expected - rx.stat.received ELSE 0,
            !.stat.expectedPrior = Expected,
            !.stat.receivedPrior = rx.stat.received,
            !.stat.discardedPrior = rx.stat.discarded]
    /\ trouble' = trouble \ {"event"}
    /\ UNCHANGED <<time, shift, seen, strange>>

ReceiverNext == Arrive \/ Pass \/ SenderHops \/ Report

ReceiverSpec == ReceiverInit /\ [][ReceiverNext]_rxVars

-----------------------------------------------------------------------------
\* the number of packets expected is what the source has sent from the first to the
\* furthest one that came, through every turn of the sequence numbers, unless so many
\* were lost in a row that the receiver takes no notice of the rest
SequenceExact ==
    rx.stat.received > 0 /\ "jump" \notin trouble => Expected = seen.top - seen.first + 1

\* at any time a report can be made: no interval is negative, and packets are missing only
\* from an interval in which one came, so that the fraction lost fits its eight bits
ReportFits ==
    /\ ExpectedInterval >= 0 /\ ReceivedInterval >= 0
    /\ ExpectedInterval > 0 => ReceivedInterval > 0

\* of the audio packets since the last report no more are refused by the jitter buffer
\* than the threshold allows: beyond it the receiver starts over
RefusalsBounded == "event" \notin trouble => ~Failed(rx)

\* a single source in good order is never interrupted by a restart
GoodStreamKept == "reason" \notin trouble => rx.restarts = 0

\* a new source is listened to when Probation + 1 of its packets have come in a row; the
\* one whose identifier is 0 finds the counter of the probation at 0 and takes it down
\* from there
StrangerHeard == strange.count <= IF strange.of = Zero THEN ByteWord - 1 ELSE Probation

ReceiverSound ==
    SequenceExact /\ ReportFits /\ RefusalsBounded /\ GoodStreamKept /\ StrangerHeard

\* the source is kept until then, however the packets of others come between
SourceKept ==
    rx'.ssrc # rx.ssrc =>
        rx.stat.received = 0 \/ (strange.of = rx'.ssrc /\ strange.count >= Probation)
=============================================================================
