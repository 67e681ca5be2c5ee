----------------------------- MODULE AsrClient -----------------------------
(***************************************************************************)
(* platforms/libasr-client/src/asr_engine.c: a library that turns the      *)
(* messages of the client stack into blocking calls.  The caller sends a   *)
(* request and waits on a condition variable for app_message_handler,      *)
(* which the client task calls with every message, to put it into the one  *)
(* field app_message.  The caller holds the mutex from before it sends to  *)
(* the wait, so that a request and the wait for it are one step; between   *)
(* the signal and the moment it has the mutex again other messages may     *)
(* come, and a message that comes while nobody waits signals nobody.       *)
(* The media thread reads the audio of a file or of the frame buffer.      *)
(***************************************************************************)
EXTENDS FrameBuffer

CONSTANTS MaxCalls,  \* bound of the model: recognitions the application asks for
          Modes,     \* of FILE and STREAM, what it uses
          Orderly    \* BOOLEAN: messages come one at a time to a caller that waits,
                     \* files can be opened and time-outs do not come too early

VARIABLES pc,            \* where the caller is
          woken,         \* it is signalled and has yet to get the mutex
          app_message, recog_complete, input_mode, streaming,
          audio_in,      \* NULL, "open", or "closed" and not yet NULL
          mode, calls,   \* input of the call under way, number of calls
          result,        \* what the last call returned, and which call that was
          outbox,        \* requests on their way to the server
          recognizing,   \* calls whose RECOGNIZE the server has accepted, the first
                         \* of which is in progress
          speaking,      \* START-OF-INPUT was sent for that one
          inbox,         \* messages on their way to app_message_handler
          astray         \* one of them came for a session that was destroyed

asrVars == <<pc, woken, app_message, recog_complete, input_mode, streaming, audio_in, mode, calls,
             result, outbox, recognizing, speaking, inbox, astray>>

Waits == {"ADD", "DEFINE-GRAMMAR", "RECOGNIZE", "EVENT", "TERMINATE"}

(* asr_session_create, up to the wait *)
AsrInit ==
    /\ FrameInit
    /\ pc = "ADD" /\ woken = FALSE
    /\ app_message = NULL /\ recog_complete = NULL
    /\ input_mode = "NONE" /\ streaming = FALSE /\ audio_in = NULL
    /\ mode \in Modes /\ calls = 0 /\ result = NULL
    /\ outbox = <<[method |-> "ADD", call |-> 0]>>
    /\ recognizing = <<>> /\ speaking = FALSE /\ inbox = <<>> /\ astray = FALSE

-----------------------------------------------------------------------------
(* The server and the client stack *)

Message(type, method, call, state) ==
    [type |-> type, method |-> method, call |-> call, state |-> state]

\* the answers to a request, as the recognizer gives them
Answers(request) ==
    LET m == request.method
    IN  CASE m = "ADD" -> {Message("SIGNALING", m, 0, s) : s \in {"SUCCESS", "FAILURE"}}
          [] m = "TERMINATE" -> {Message("SIGNALING", m, request.call, "SUCCESS")}
          [] m = "DEFINE-GRAMMAR" ->
                {Message("RESPONSE", m, request.call, s) :
                    s \in {"FAILED"} \cup (IF recognizing = <<>> THEN {"COMPLETE"} ELSE {})}
          [] m = "RECOGNIZE" ->
                {Message("RESPONSE", m, request.call, s) :
                    s \in {"FAILED", IF recognizing = <<>> THEN "INPROGRESS" ELSE "PENDING"}}

Answer ==
    /\ outbox # <<>>
    /\ \E m \in Answers(Head(outbox)) :
          /\ inbox' = Append(inbox, m)
          /\ recognizing' = IF m.method = "TERMINATE" THEN <<>>
                            ELSE IF m.state \in {"INPROGRESS", "PENDING"}
                            THEN Append(recognizing, m.call) ELSE recognizing
    /\ outbox' = Tail(outbox)
    /\ UNCHANGED <<frameVars, pc, woken, app_message, recog_complete, input_mode, streaming,
                   audio_in, mode, calls, result, speaking, astray>>

StartOfInput ==
    /\ recognizing # <<>> /\ ~speaking
    /\ speaking' = TRUE
    /\ inbox' = Append(inbox, Message("EVENT", "START-OF-INPUT", Head(recognizing), "INPROGRESS"))
    /\ UNCHANGED <<frameVars, pc, woken, app_message, recog_complete, input_mode, streaming,
                   audio_in, mode, calls, result, outbox, recognizing, astray>>

RecognitionComplete ==
    /\ recognizing # <<>>
    /\ speaking' = FALSE
    /\ recognizing' = Tail(recognizing)
    /\ inbox' = Append(inbox, Message("EVENT", "RECOGNITION-COMPLETE", Head(recognizing), "COMPLETE"))
    /\ UNCHANGED <<frameVars, pc, woken, app_message, recog_complete, input_mode, streaming,
                   audio_in, mode, calls, result, outbox, astray>>

(* A handler that takes a message nobody has fetched for a signal that is  *)
(* still under way.                                                        *)
SignalsOnce == pc \in Waits /\ app_message = NULL

\* apr_thread_cond_signal wakes the caller if it waits
Signals == pc \in Waits

(* app_message_handler *)
AppMessageHandler ==
    /\ inbox # <<>>
    /\ Orderly => (pc \in Waits /\ ~woken) \/ pc = "destroyed"
    /\ inbox' = Tail(inbox)
    /\ IF pc = "destroyed"
       THEN astray' = TRUE /\ UNCHANGED <<app_message, woken>>
       ELSE /\ app_message' = Head(inbox)
            /\ woken' = (woken \/ Signals)
            /\ UNCHANGED astray
    /\ UNCHANGED <<frameVars, pc, recog_complete, input_mode, streaming, audio_in, mode, calls,
                   result, outbox, recognizing, speaking>>

-----------------------------------------------------------------------------
(* The caller *)

\* it sends a request and waits, asr_session_file_recognize and the like
Request(method) ==
    /\ pc' = method
    /\ outbox' = Append(outbox, [method |-> method, call |-> calls'])
    /\ UNCHANGED <<frameVars, woken, inbox, recognizing, speaking, astray>>

\* nothing is said of who signalled: APR permits a wait to end without a signal
WakeUp ==
    /\ ~Orderly /\ pc \in Waits /\ ~woken
    /\ woken' = TRUE
    /\ UNCHANGED <<frameVars, pc, app_message, recog_complete, input_mode, streaming, audio_in,
                   mode, calls, result, outbox, recognizing, speaking, inbox, astray>>

\* it has the mutex again and takes the message, if there is one
Fetched(m) ==
    /\ woken
    /\ m = app_message
    /\ woken' = FALSE
    /\ app_message' = NULL

Is(m, type, state) == m # NULL /\ m.type = type /\ m.state = state

Return(of) ==
    /\ pc' = "ready"
    /\ result' = [call |-> calls, of |-> of]

\* sig_response_check in asr_session_create, which terminates a session it cannot use
Created ==
    /\ pc = "ADD"
    /\ \E m \in {app_message} :
          /\ Fetched(m)
          /\ IF Is(m, "SIGNALING", "SUCCESS")
             THEN pc' = "ready" /\ UNCHANGED outbox
             ELSE pc' = "TERMINATE" /\ outbox' = Append(outbox, [method |-> "TERMINATE", call |-> 0])
    /\ UNCHANGED <<frameVars, recog_complete, input_mode, streaming, audio_in, mode, calls, result,
                   recognizing, speaking, inbox, astray>>

\* asr_session_file_recognize and asr_session_stream_recognize
Recognize ==
    /\ pc = "ready" /\ calls < MaxCalls
    /\ calls' = calls + 1
    /\ mode' \in Modes
    /\ Request("DEFINE-GRAMMAR")
    /\ UNCHANGED <<app_message, recog_complete, input_mode, streaming, audio_in, result>>

\* mrcp_response_check of the response to DEFINE-GRAMMAR
Defined ==
    /\ pc = "DEFINE-GRAMMAR"
    /\ \E m \in {app_message} :
          /\ Fetched(m)
          /\ IF Is(m, "RESPONSE", "COMPLETE") THEN pc' = "defined" /\ UNCHANGED result ELSE Return(NULL)
    /\ UNCHANGED <<frameVars, recog_complete, input_mode, streaming, audio_in, mode, calls,
                   outbox, recognizing, speaking, inbox, astray>>

(* A call that does not reset the result of the one before.                *)
SendRecognizeAgain ==
    /\ pc = "defined"
    /\ UNCHANGED <<calls, recog_complete>>
    /\ Request("RECOGNIZE")
    /\ UNCHANGED <<app_message, input_mode, streaming, audio_in, mode, result>>

SendRecognize ==
    /\ pc = "defined"
    /\ recog_complete' = NULL
    /\ UNCHANGED calls
    /\ Request("RECOGNIZE")
    /\ UNCHANGED <<app_message, input_mode, streaming, audio_in, mode, result>>

\* mrcp_response_check of the response to RECOGNIZE
Started ==
    /\ pc = "RECOGNIZE"
    /\ \E m \in {app_message} :
          /\ Fetched(m)
          /\ IF Is(m, "RESPONSE", "INPROGRESS") THEN pc' = "started" /\ UNCHANGED result ELSE Return(NULL)
    /\ UNCHANGED <<frameVars, recog_complete, input_mode, streaming, audio_in, mode, calls,
                   outbox, recognizing, speaking, inbox, astray>>

\* asr_input_file_open closes the file of an earlier call first
CloseFile ==
    /\ pc = "started" /\ mode = "FILE"
    /\ input_mode' = "FILE"
    /\ audio_in' = IF audio_in = NULL THEN NULL ELSE "closed"
    /\ pc' = "opening"
    /\ UNCHANGED <<frameVars, woken, app_message, recog_complete, streaming, mode, calls, result,
                   outbox, recognizing, speaking, inbox, astray>>

OpenFile ==
    /\ pc = "opening"
    /\ \/ audio_in' = "open" /\ streaming' = TRUE /\ pc' = "listening" /\ UNCHANGED result
       \/ ~Orderly /\ audio_in' = NULL /\ Return(NULL) /\ UNCHANGED streaming
    /\ UNCHANGED <<frameVars, woken, app_message, recog_complete, input_mode, mode, calls,
                   outbox, recognizing, speaking, inbox, astray>>

\* the restart of the media buffer, in one step or in two
StartStream ==
    /\ pc = "started" /\ mode = "STREAM"
    /\ \/ /\ Restart
          /\ input_mode' = "STREAM" /\ streaming' = TRUE /\ pc' = "listening"
       \/ /\ RestartLoad
          /\ pc' = "restarting" /\ UNCHANGED <<input_mode, streaming>>
    /\ UNCHANGED <<woken, app_message, recog_complete, audio_in, mode, calls, result,
                   outbox, recognizing, speaking, inbox, astray>>

EndRestart ==
    /\ pc = "restarting"
    /\ RestartStore
    /\ input_mode' = "STREAM" /\ streaming' = TRUE /\ pc' = "listening"
    /\ UNCHANGED <<woken, app_message, recog_complete, audio_in, mode, calls, result,
                   outbox, recognizing, speaking, inbox, astray>>

\* the loop that waits for an event
Listen ==
    /\ pc = "listening"
    /\ pc' = "EVENT"
    /\ UNCHANGED <<frameVars, woken, app_message, recog_complete, input_mode, streaming, audio_in,
                   mode, calls, result, outbox, recognizing, speaking, inbox, astray>>

\* mrcp_event_get, and the result if it is the last event
Heard ==
    /\ pc = "EVENT"
    /\ \E m \in {app_message} :
          /\ Fetched(m)
          /\ recog_complete' = IF Is(m, "EVENT", "COMPLETE") THEN m.call ELSE recog_complete
          /\ IF recog_complete' # NULL THEN Return(recog_complete')
             ELSE pc' = "listening" /\ UNCHANGED result
    /\ UNCHANGED <<frameVars, input_mode, streaming, audio_in, mode, calls, outbox, recognizing,
                   speaking, inbox, astray>>

\* apr_thread_cond_timedwait returns without a signal
TimedOut ==
    /\ pc = "EVENT" /\ ~woken
    /\ Orderly => outbox = <<>> /\ inbox = <<>> /\ recognizing = <<>>
    /\ Return(NULL)
    /\ UNCHANGED <<frameVars, woken, app_message, recog_complete, input_mode, streaming, audio_in,
                   mode, calls, outbox, recognizing, speaking, inbox, astray>>

\* asr_session_destroy, up to the wait for the response
Terminate ==
    /\ pc = "ready"
    /\ UNCHANGED calls
    /\ Request("TERMINATE")
    /\ UNCHANGED <<app_message, recog_complete, input_mode, streaming, audio_in, mode, result>>

\* and the rest, whatever ended the wait
Destroy ==
    /\ pc = "TERMINATE" /\ woken
    /\ woken' = FALSE
    /\ audio_in' = IF audio_in = NULL THEN NULL ELSE "closed"
    /\ pc' = "destroyed"
    /\ UNCHANGED <<frameVars, app_message, recog_complete, input_mode, streaming, mode, calls,
                   result, outbox, recognizing, speaking, inbox, astray>>

Caller ==
    \/ Created \/ Recognize \/ Defined \/ SendRecognize \/ Started \/ CloseFile \/ OpenFile
    \/ StartStream \/ EndRestart \/ Listen \/ Heard \/ TimedOut \/ Terminate \/ Destroy

-----------------------------------------------------------------------------
\* the stack has answered TERMINATE, and before that taken the stream from the media thread
Released ==
    \/ pc = "destroyed" /\ outbox = <<>>
    \/ pc = "TERMINATE" /\ outbox = <<>>

\* asr_stream_read: the file may be over
StreamRead ==
    /\ streaming /\ ~Released
    /\ \/ /\ input_mode = "FILE" /\ audio_in # NULL
          /\ streaming' = FALSE
          /\ UNCHANGED frameVars
       \/ /\ input_mode = "STREAM"
          /\ FrameRead
          /\ UNCHANGED streaming
    /\ UNCHANGED <<pc, woken, app_message, recog_complete, input_mode, audio_in, mode, calls,
                   result, outbox, recognizing, speaking, inbox, astray>>

\* asr_session_stream_write, in another thread of the application
StreamWrite == pc # "destroyed" /\ FrameWrite /\ UNCHANGED asrVars

AsrNext ==
    \/ Caller \/ WakeUp \/ Answer \/ StartOfInput \/ RecognitionComplete \/ AppMessageHandler
    \/ StreamRead \/ StreamWrite

(* The three threads run, the server answers and recognitions end.  The    *)
(* application need not call anything.                                     *)
AsrFair ==
    /\ WF_<<frameVars, asrVars>>(Caller /\ pc # "ready")
    /\ WF_<<frameVars, asrVars>>(Answer)
    /\ WF_<<frameVars, asrVars>>(RecognitionComplete)
    /\ WF_<<frameVars, asrVars>>(AppMessageHandler)

AsrSpec == AsrInit /\ [][AsrNext]_<<frameVars, asrVars>> /\ AsrFair
-----------------------------------------------------------------------------
(* However the threads are scheduled, and although app_message holds the   *)
(* last message only, asr_session_file_recognize and                       *)
(* asr_session_stream_recognize never return the result of an earlier      *)
(* call: a RECOGNIZE is not sent while one that was given up goes on, as   *)
(* the server refuses its DEFINE-GRAMMAR.                                  *)
ResultIsOwn == result # NULL /\ result.of # NULL => result.of = result.call

(* The caller that app_message_handler has signalled finds the answer to   *)
(* what it waits for.                                                      *)
OwnAnswer ==
    woken => /\ app_message # NULL
             /\ pc = "EVENT" => app_message.type = "EVENT" /\ app_message.call = calls
             /\ pc # "EVENT" => app_message.method = pc /\ app_message.call = calls

(* A caller that waits for an event in asr_session_file_recognize or       *)
(* asr_session_stream_recognize has its recognition in progress or the     *)
(* event on its way: apr_thread_cond_timedwait does not run out in vain.   *)
EventWillCome ==
    pc \in {"started", "opening", "restarting", "listening", "EVENT"} /\ ~woken =>
        \/ calls \in {recognizing[i] : i \in DOMAIN recognizing}
        \/ \E i \in DOMAIN inbox : inbox[i].method = "RECOGNITION-COMPLETE" /\ inbox[i].call = calls

(* asr_session_destroy_ex destroys a session when the stack has no more    *)
(* messages for it, and does not close a file that asr_stream_read reads.  *)
DestroyedLast ==
    /\ pc = "destroyed" => outbox = <<>> /\ inbox = <<>>
    /\ ~astray
    /\ streaming /\ ~Released /\ input_mode = "FILE" /\ audio_in = "closed" => pc = "opening"

(* What asr_session_stream_write writes is read in order, see FrameBuffer. *)
InOrder == FramePositions /\ [FrameFifo!Next]_<<Waiting, frame>>

(* No call of the library hangs: apr_thread_cond_wait has no time-out, but *)
(* the answer to the request comes after the wait has begun.               *)
CallsReturn == pc # "ready" ~> pc \in {"ready", "destroyed"}
=============================================================================
