------------------------------ MODULE MCClient ------------------------------
(* The client: a session with two channels and four requests of its          *)
(* application; and the ASR library above such a session, with two calls,    *)
(* a file or a stream of up to three frames each, for any schedule and for   *)
(* an orderly one.  Four requests are an offer, two that modify it or use    *)
(* it, and the termination; two calls let the messages of the first, given   *)
(* up before its time, meet the second.                                      *)
EXTENDS ClientSession

VARIABLES side,
          frames, write_pos, read_pos, unwritten, copied, loaded, frame,
          pc, woken, app_message, recog_complete, input_mode, streaming, audio_in, mode, calls,
          result, outbox, recognizing, speaking, inbox, astray

libraryVars == <<frames, write_pos, read_pos, unwritten, copied, loaded, frame, pc, woken, app_message,
                 recog_complete, input_mode, streaming, audio_in, mode, calls, result, outbox,
                 recognizing, speaking, inbox, astray>>

AnySchedule == INSTANCE AsrClient
    WITH FrameCount <- 1, Audio <- {"a", "b"}, Chunk <- {<<"a">>, <<"b">>}, Overlap <- TRUE,
         MaxWritten <- 2, MaxCalls <- 2, Modes <- {"FILE", "STREAM"}, Orderly <- FALSE

Orderly == INSTANCE AsrClient
    WITH FrameCount <- 2, Audio <- {"a", "b"}, Chunk <- {<<"a">>, <<"b">>, <<"a", "b">>},
         Overlap <- FALSE, MaxWritten <- 3, MaxCalls <- 2, Modes <- {"FILE", "STREAM"},
         Orderly <- TRUE

ASSUME FramesMakeSense == AnySchedule!FrameAssumption /\ Orderly!FrameAssumption

MCInit ==
    \/ side = "session" /\ Init /\ Orderly!AsrInit /\ mode = "FILE"
    \/ /\ side = "library" /\ AnySchedule!AsrInit
       /\ version = 2 /\ media = TRUE /\ world = "orderly" /\ requests = 0 /\ session = NewSession
    \/ /\ side = "orderly" /\ Orderly!AsrInit
       /\ version = 2 /\ media = TRUE /\ world = "orderly" /\ requests = 0 /\ session = NewSession

MCNext ==
    /\ UNCHANGED side
    /\ \/ side = "session" /\ Next /\ UNCHANGED libraryVars
       \/ side = "library" /\ AnySchedule!AsrNext /\ UNCHANGED vars
       \/ side = "orderly" /\ Orderly!AsrNext /\ UNCHANGED vars

\* the threads run, the server answers and recognitions end; nobody need call the library
CallerRuns == side = "library" /\ AnySchedule!Caller /\ pc # "ready"
ServerAnswers == side = "library" /\ AnySchedule!Answer
ServerCompletes == side = "library" /\ AnySchedule!RecognitionComplete
StackRuns == side = "library" /\ AnySchedule!AppMessageHandler

MCSpec ==
    /\ MCInit /\ [][MCNext]_<<side, vars, libraryVars>>
    /\ WF_libraryVars(CallerRuns) /\ WF_libraryVars(StackRuns)
    /\ WF_libraryVars(ServerAnswers) /\ WF_libraryVars(ServerCompletes)

-----------------------------------------------------------------------------
(* AnsweredInOrder and AnsweredWhenQuiet of mrcp_client_session.c: requests  *)
(* are answered once, in order, and by the time all responses have come in   *)
Answered == side = "session" => AnsweredInOrder /\ AnsweredWhenQuiet

(* CountedExactly and NothingAfterTermination of mrcp_client_session.c: the  *)
(* subrequests are counted, and the last one ends the session                *)
Settled == side = "session" => CountedExactly /\ NothingAfterTermination

(* ResultIsOwn of asr_session_file_recognize and its like for any schedule;  *)
(* for an orderly one OwnAnswer, EventWillCome and DestroyedLast, and        *)
(* InOrder of mpf_frame_buffer_read                                          *)
RecognizedSoundly ==
    [][/\ side = "library" => AnySchedule!ResultIsOwn'
       /\ side = "orderly" => /\ Orderly!ResultIsOwn' /\ Orderly!OwnAnswer'
                              /\ Orderly!EventWillCome' /\ Orderly!DestroyedLast'
                              /\ Orderly!InOrder]_<<side, libraryVars>>

(* CallsReturn: no call of the ASR library waits for ever for                *)
(* app_message_handler                                                       *)
CallsReturn == side = "library" => AnySchedule!CallsReturn
=============================================================================
