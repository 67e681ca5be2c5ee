---------------------------- MODULE TextMessage ----------------------------
(***************************************************************************)
(* Text messages over a byte stream: the generator and the parser MRCPv2   *)
(* and RTSP share (libs/apr-toolkit/src/apt_text_message.c and             *)
(* apt_text_stream.c), with the MRCPv2 handlers of                         *)
(* libs/mrcp/control/src/mrcp_stream.c.  The peer's messages are one       *)
(* stream, which TCP hands to the receiver in segments of any length.  The *)
(* parser runs on what the buffer holds, keeps its stage between segments, *)
(* and what it could not use is scrolled to the front of the buffer.       *)
(*                                                                         *)
(* A character stands for a class of characters: line ends, the white      *)
(* space, the colon, and letters.  Letter "s" starts a start line, field   *)
(* "c" is Channel-Identifier, field "l" is Content-Length.                 *)
(***************************************************************************)
EXTENDS Naturals, Sequences, FiniteSets, SequencesExt

CONSTANTS Resources,     \* resource names the receiver's factory knows
          Conversations, \* the message sequences a peer may send
          BufferSize     \* rx_buffer_size

VARIABLES messages,      \* what the peer sends
          text,          \* the part of the stream that is not received yet
          stream,        \* what the rx buffer still holds
          parser,        \* apt_message_parser_t, with the message it builds
          parsed,        \* messages handed to the message handler
          connected

textVars == <<messages, text, stream, parser, parsed, connected>>

CRLF == <<"CR", "LF">>

IsEol(ch) == ch \in {"CR", "LF"}

IsWsp(ch) == ch = " "

Digits == <<"1", "2", "3">>

-----------------------------------------------------------------------------
(* Generation. *)

\* One header field, its value possibly folded over several lines.
NameValueInsert(f) ==
    <<f.name, ":", " ">>
        \o FlattenSeq([i \in DOMAIN f.lines |->
                         (IF i = 1 THEN <<>> ELSE CRLF \o <<" ">>) \o f.lines[i]])
        \o CRLF

OneLine(n, v) == [name |-> n, lines |-> << <<v>> >>]

Fields(m) ==
    <<OneLine("c", m.resource)>> \o m.fields
        \o IF m.body = <<>> THEN <<>> ELSE <<OneLine("l", Digits[Len(m.body)])>>

\* apt_message_generator_run: start line, header section, body.
Generate(m) ==
    <<"s", m.id>> \o CRLF
        \o FlattenSeq([i \in DOMAIN Fields(m) |-> NameValueInsert(Fields(m)[i])])
        \o CRLF \o m.body

-----------------------------------------------------------------------------
(* The text stream, from its position on: rest is the text up to the end,  *)
(* prev the character before the position.                                 *)

TextIsEos(s) == s.rest = <<>> \/ s.is_eos

Skip(s, n) ==
    IF n = 0 THEN s
    ELSE [s EXCEPT !.rest = SubSeq(@, n + 1, Len(@)), !.prev = s.rest[n]]

\* The place of the first line end, 0 if the line is not complete.
EolPlace(t) == SelectInSeq(t, IsEol)

\* What a line that ends at place i takes, <LF> after <CR> included.
LineLength(t, i) ==
    IF t[i] = "CR" /\ i < Len(t) /\ t[i + 1] = "LF" THEN i + 1 ELSE i

\* apt_text_line_read: an incomplete line stays where it is.
LineRead(s) ==
    LET i == EolPlace(s.rest)
    IN IF i = 0
       THEN [ok |-> FALSE, line |-> s.rest, s |-> [s EXCEPT !.is_eos = TRUE]]
       ELSE [ok |-> TRUE, line |-> SubSeq(s.rest, 1, i - 1),
             s |-> Skip(s, LineLength(s.rest, i))]

WhiteSpacesSkip(s) ==
    LET i == SelectInSeq(s.rest, LAMBDA ch : ~IsWsp(ch))
    IN Skip(s, IF i = 0 THEN Len(s.rest) ELSE i - 1)

\* A line without its leading white space.
Trim(line) == WhiteSpacesSkip([rest |-> line, prev |-> " "]).rest

\* apt_text_header_read.  A line with text and no name before a colon is
\* malformed: it is passed over, and no field results.
HeaderSplit(r, line) ==
    LET c == SelectInSubSeq(line, 2, Len(line), LAMBDA ch : ch = ":")
    IN [ok    |-> r.ok /\ (line = <<>> \/ c > 0),
        name  |-> SubSeq(line, 1, c - 1),
        value |-> IF c = 0 THEN <<>> ELSE Trim(SubSeq(line, c + 1, Len(line))),
        s     |-> r.s]

HeaderRead(s) == LET r == LineRead(s) IN HeaderSplit(r, Trim(r.line))

\* The folding lines of apt_header_field_parse: those already in the buffer.
RECURSIVE FoldingLines(_, _)
FoldingLines(s, value) ==
    IF s.rest = <<>> \/ ~IsWsp(Head(s.rest))
    THEN [s |-> s, value |-> value]
    ELSE LET r == LineRead(WhiteSpacesSkip(s))
         IN FoldingLines(r.s, value \o r.line)

\* apt_header_field_parse: field f with its folding lines.
FieldUnfold(f) ==
    LET fold == FoldingLines(f.s, f.value)
    IN IF f.ok THEN [f EXCEPT !.s = fold.s, !.value = fold.value] ELSE f

\* The loop of apt_header_section_parse, from field f on.
RECURSIVE HeaderSectionLoop(_, _)
HeaderSectionLoop(f, fields) ==
    LET empty == f.ok /\ f.name = <<>>
        all   == IF f.ok /\ ~empty
                 THEN Append(fields, [name |-> f.name[1], value |-> f.value])
                 ELSE fields
    IN IF empty \/ TextIsEos(f.s)
       THEN [ok |-> empty, s |-> f.s, fields |-> all]
       ELSE HeaderSectionLoop(FieldUnfold(HeaderRead(f.s)), all)

HeaderSectionParse(s, fields) == HeaderSectionLoop(FieldUnfold(HeaderRead(s)), fields)

-----------------------------------------------------------------------------
(* The parser. *)

NewParser == [stage |-> "START_LINE", skip_lf |-> FALSE, id |-> "none",
              fields |-> <<>>, body |-> <<>>, content_length |-> 0]

\* mrcp_parser_on_start, for a complete line.
StartLineParse(line) == Len(line) = 2 /\ line[1] = "s"

FieldsNamed(p, n) == SelectSeq(p.fields, LAMBDA f : f.name = n)

ContentLength(p) ==
    LET ls == FieldsNamed(p, "l")
    IN IF ls = <<>> THEN 0
       ELSE SelectInSeq(Digits, LAMBDA d : <<d>> = ls[1].value)

\* mrcp_channel_id_parse takes the first Channel-Identifier out of the header.
WithoutChannelId(p) ==
    LET i == SelectInSeq(p.fields, LAMBDA f : f.name = "c" /\ f.value # <<>>)
    IN IF i = 0 THEN p ELSE [p EXCEPT !.fields = RemoveAt(@, i)]

\* The channel identifier mrcp_parser_on_header_complete finds, if the
\* resource factory knows its resource.
KnownChannel(p) ==
    LET cs == SelectSeq(p.fields, LAMBDA f : f.name = "c" /\ f.value # <<>>)
    IN cs # <<>> /\ cs[1].value[1] \in Resources

CrlfTestNever(p, s) == p

\* apt_crlf_segmentation_test
CrlfSegmentationTest(p, s) ==
    IF s.rest = <<>> /\ s.prev = "CR" THEN [p EXCEPT !.skip_lf = TRUE] ELSE p

Result(p, s, status) == [p |-> p, s |-> s, status |-> status]

\* apt_message_body_read, and the end of the message.
BodyStage(p, s) ==
    LET required == p.content_length - Len(p.body)
        n == IF required > Len(s.rest) THEN Len(s.rest) ELSE required
        q == [p EXCEPT !.body = @ \o SubSeq(s.rest, 1, n)]
    IN IF n < required THEN Result(q, Skip(s, n), "INCOMPLETE")
       ELSE Result([q EXCEPT !.stage = "START_LINE"], Skip(s, n), "COMPLETE")

\* mrcp_parser_on_header_complete, for the header h of the message q.  A refused
\* header leaves the stage and the fields as they are.
OnHeaderComplete(q, h) ==
    LET d == WithoutChannelId(q)
        n == ContentLength(d)
    IN CASE ~h.ok -> Result(q, h.s, "INCOMPLETE")
         [] h.ok /\ ~KnownChannel(q) -> Result(d, h.s, "INVALID")
         [] h.ok /\ KnownChannel(q) /\ n = 0 ->
              Result([d EXCEPT !.stage = "START_LINE"], h.s, "COMPLETE")
         [] OTHER -> BodyStage([d EXCEPT !.stage = "BODY", !.content_length = n],
                               h.s)

HeaderTest(p, h) ==
    OnHeaderComplete(CrlfSegmentationTest([p EXCEPT !.fields = h.fields], h.s), h)

HeaderStage(p, s) == HeaderTest(p, HeaderSectionParse(s, p.fields))

StartStage(p, s) ==
    LET r == LineRead(s)
    IN IF r.ok /\ StartLineParse(r.line)
       THEN HeaderStage(CrlfSegmentationTest(
                [NewParser EXCEPT !.stage = "HEADER", !.id = r.line[2]], r.s), r.s)
       ELSE Result(p, r.s, IF TextIsEos(r.s) THEN "INCOMPLETE" ELSE "INVALID")

\* apt_message_parser_run
ParserRun(p, s) ==
    LET t == IF p.skip_lf /\ s.rest # <<>> /\ Head(s.rest) = "LF"
             THEN Skip(s, 1) ELSE s
        q == [p EXCEPT !.skip_lf = FALSE]
    IN CASE q.stage = "START_LINE" -> StartStage(q, t)
         [] q.stage = "HEADER" -> HeaderStage(q, t)
         [] OTHER -> BodyStage(q, t)

Parsed(p) == [id |-> p.id, fields |-> p.fields, body |-> p.body]

\* The loop of mrcp_server_poller_signal_process: run the parser until the
\* buffer has no more to give.  Only complete messages are handled.
RECURSIVE ParseOn(_, _)
ParseOn(r, done) ==
    LET all == IF r.status = "COMPLETE" THEN Append(done, Parsed(r.p)) ELSE done
    IN IF TextIsEos(r.s) THEN [p |-> r.p, rest |-> r.s.rest, done |-> all]
       ELSE ParseOn(ParserRun(r.p, r.s), all)

ParseAll(p, s) == ParseOn(ParserRun(p, s), <<>>)

-----------------------------------------------------------------------------
TextInit ==
    /\ messages \in Conversations
    /\ text = FlattenSeq([i \in DOMAIN messages |-> Generate(messages[i])])
    /\ stream = <<>>
    /\ parser = NewParser
    /\ parsed = <<>>
    /\ connected = TRUE

\* A segment of n characters arrives behind what the buffer still holds.
Receive(n) ==
    /\ connected
    /\ n <= Len(text) /\ Len(stream) + n <= BufferSize
    /\ LET r == ParseAll(parser,
                  [rest |-> stream \o SubSeq(text, 1, n), prev |-> " ",
                   is_eos |-> FALSE])
       IN /\ parser' = r.p
          /\ stream' = r.rest
          /\ parsed' = parsed \o r.done
    /\ text' = SubSeq(text, n + 1, Len(text))
    /\ UNCHANGED <<messages, connected>>

\* A full buffer has no room to receive into: the connection is closed.
BufferFull ==
    /\ connected /\ Len(stream) = BufferSize
    /\ connected' = FALSE
    /\ UNCHANGED <<messages, text, stream, parser, parsed>>

TextNext == (\E n \in 1 .. BufferSize : Receive(n)) \/ BufferFull

TextSpec == TextInit /\ [][TextNext]_textVars


-----------------------------------------------------------------------------
\* What a receiver should make of message m.
Expected(m) ==
    [id |-> m.id, body |-> m.body,
     fields |-> [i \in 1 .. Len(Fields(m)) - 1 |->
                   [name |-> Fields(m)[i + 1].name,
                    value |-> FlattenSeq(Fields(m)[i + 1].lines)]]]

Refused(m) == m.resource \notin Resources

Folded(m) == \E i \in DOMAIN m.fields : Len(m.fields[i].lines) > 1

Padded(m) == m.body # <<>> /\ IsWsp(m.body[1])

TooLong(m) ==
    \E i \in DOMAIN Fields(m) :
        \E j \in DOMAIN Fields(m)[i].lines :
            Len(Fields(m)[i].lines[j]) + 3 >= BufferSize

Plain(m) == ~Refused(m) /\ ~Padded(m) /\ ~TooLong(m)

\* The fields of a message that its sender put on one line.
Unfolded(m, fields) ==
    SelectSeq(fields, LAMBDA f : \A i \in DOMAIN m.fields :
                 Len(m.fields[i].lines) > 1 => f.name # m.fields[i].name)

SameButFolds(m, q) ==
    /\ q.id = m.id /\ q.body = m.body
    /\ Unfolded(m, q.fields) = Unfolded(m, Expected(m).fields)

\* However TCP cuts the stream into segments, between <CR> and <LF> included,
\* the parser hands over the peer's messages in order, with their fields and
\* bodies, and holds nothing back once all the text has come.  Only a value
\* that its sender folded may come out differently, and only that value.
ParsedAsSent ==
    (\A i \in DOMAIN messages : Plain(messages[i]))
        => /\ connected
           /\ Len(parsed) <= Len(messages)
           /\ \A i \in DOMAIN parsed :
                 /\ SameButFolds(messages[i], parsed[i])
                 /\ ~Folded(messages[i]) => parsed[i] = Expected(messages[i])
           /\ text = <<>> => /\ Len(parsed) = Len(messages)
                             /\ stream = <<>>

\* The same for a body that begins with white space: once the blank line has
\* ended the header ("empty header => exit"), what follows is the body, and a
\* message all of whose text has come is handed over.
BodyAsSent ==
    /\ text = <<>>
    /\ \A i \in DOMAIN messages :
          ~Refused(messages[i]) /\ ~Folded(messages[i]) /\ ~TooLong(messages[i])
    => parsed = [i \in DOMAIN messages |-> Expected(messages[i])]
=============================================================================
