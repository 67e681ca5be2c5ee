----------------------------- MODULE MCToolkit -----------------------------
(* The pieces of the APR toolkit the agents are built from, one of which     *)
(* runs: a cyclic queue of two cells that grows to three, four and six; the  *)
(* timer queue of a poller task with three timers; the tasks of a server     *)
(* with two children and two engines; and the parser of text messages, with  *)
(* a peer that sends two.                                                    *)
EXTENDS CyclicQueue, TimerQueue, AptTask

VARIABLES piece,
          messages, text, stream, parser, parsed, connected

-----------------------------------------------------------------------------
ServerKids == [server |-> <<"media", "agent">>, media |-> <<>>, agent |-> <<>>]

-----------------------------------------------------------------------------
Sent(id, resource, fields, body) ==
    [id |-> id, resource |-> resource, fields |-> fields, body |-> body]

Field(name, lines) == [name |-> name, lines |-> lines]

\* no field, one with and one without a value, one folded before another
SomeFields ==
    {<<>>, <<Field("n", << <<"v">> >>)>>, <<Field("n", << <<>> >>)>>,
     <<Field("n", << <<"v">>, <<"w", "w">> >>), Field("k", << <<"v">> >>)>>}

\* bodies that look like line ends and like the start of a message
SomeBodies == {<<>>, <<"LF", "x">>, <<"x", "CR">>, <<"s", "2", "CR">>}

TwoMessages ==
    {<<Sent("1", "synth", f, b), Sent("2", "recog", g, c)>> :
        f, g \in SomeFields, b, c \in SomeBodies}

\* a message for a resource nobody knows, one with a body that begins with white space,
\* and one with a line that does not fit the buffer
OddMessages ==
    {<<Sent("1", "fax", <<>>, <<>>), Sent("2", "recog", <<>>, <<>>)>>,
     <<Sent("1", "synth", <<>>, <<" ", "x">>), Sent("2", "recog", <<>>, <<>>)>>,
     <<Sent("1", "synth", <<Field("n", << <<"v", "v", "v", "v", "v", "v">> >>)>>, <<>>)>>}

Text == INSTANCE TextMessage
    WITH Resources <- {"synth", "recog"}, Conversations <- TwoMessages \cup OddMessages,
         BufferSize <- 9
NoText == INSTANCE TextMessage
    WITH Resources <- {}, Conversations <- {<<>>}, BufferSize <- 9

-----------------------------------------------------------------------------
textVars == <<messages, text, stream, parser, parsed, connected>>

MCInit ==
    /\ piece \in {"queue", "timers", "tasks", "text"}
    /\ Init /\ TimerInit /\ TaskInit
    /\ IF piece = "text" THEN Text!TextInit ELSE NoText!TextInit

MCNext ==
    /\ UNCHANGED piece
    /\ \/ piece = "queue" /\ Next /\ UNCHANGED <<timerVars, taskVars, textVars>>
       \/ piece = "timers" /\ TimerNext /\ UNCHANGED <<vars, taskVars, textVars>>
       \/ piece = "tasks" /\ TaskNext /\ UNCHANGED <<vars, timerVars, textVars>>
       \/ piece = "text" /\ Text!TextNext /\ UNCHANGED <<vars, timerVars, taskVars>>

\* threads run, engines answer, and Main ends the calls it has begun
Runs(t) == piece = "tasks" /\ Thread(t)
Terminates(t) == piece = "tasks" /\ Terminate(t)
MainEnds(t) == piece = "tasks" /\ (TerminateSignal(Main, t) \/ Join(Main, t))
EngineAnswers(e) == piece = "tasks" /\ EngineAnswer(e)

MCSpec ==
    /\ MCInit /\ [][MCNext]_<<piece, vars, timerVars, taskVars, textVars>>
    /\ \A t \in Tasks :
          WF_taskVars(Runs(t)) /\ WF_taskVars(Terminates(t)) /\ WF_taskVars(MainEnds(t))
    /\ \A e \in Engines : WF_taskVars(EngineAnswers(e))

-----------------------------------------------------------------------------
(* ParsedAsSent of apt_message_parser_run, for every segmentation            *)
ParsedAsSent == Text!ParsedAsSent

(* BodyAsSent of apt_header_field_parse: the header ends at the blank line,  *)
(* whatever the body begins with                                             *)
BodyAsSent == Text!BodyAsSent
=============================================================================
