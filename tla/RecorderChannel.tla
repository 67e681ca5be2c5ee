-------------------------- MODULE RecorderChannel --------------------------
(***************************************************************************)
(* A recorder channel of the server: the recorder state machine            *)
(* (mrcp_recorder_state_machine.c), run by the server task, and the        *)
(* recorder plugin (plugins/mrcp-recorder/src/mrcp_recorder_engine.c),     *)
(* whose request handlers run in the server task too while its             *)
(* recorder_stream_write runs in the media thread.  The two share the      *)
(* fields of recorder_channel_t without a lock, so each step below is one  *)
(* access of the media thread, or of the RECORD handler, that the other    *)
(* thread can observe.                                                     *)
(***************************************************************************)
EXTENDS ControlSession

CONSTANTS MediaPrompt, \* TRUE: recorder_stream_write returns before the server
                       \* task takes its next message
          TimeCap      \* bound of the model: cur_time, in frames, stops here

ASSUME TimeAssumption == TimeCap \in Nat /\ \A param \in Param : param \in 0 .. TimeCap

VARIABLES state, record,                       \* of the state machine
          record_request, stop_response,       \* of recorder_channel_t
          timers_started, max_time, cur_time, audio_out,
          voice,       \* the activity detector is in its ACTIVITY states
          media_pc,    \* where the media thread is in recorder_stream_write
          crashed,     \* the media thread has dereferenced NULL
          overtaken    \* the server task has taken a message in the middle of a callback

machineVars == <<state, record>>
pluginVars == <<record_request, stop_response, timers_started, max_time, cur_time, audio_out>>
mediaVars == <<voice, media_pc, crashed, overtaken>>
vars == <<controlVars, machineVars, pluginVars, mediaVars>>

MachineInit == state = "IDLE" /\ record = NULL

PluginInit ==
    /\ record_request = NULL
    /\ stop_response = NULL
    /\ timers_started \in BOOLEAN   \* left uninitialised
    /\ max_time = 0
    /\ cur_time = 0
    /\ audio_out = FALSE
    /\ voice = FALSE
    /\ media_pc = "start"
    /\ crashed = FALSE
    /\ overtaken = FALSE

RecorderInit == Init /\ MachineInit /\ PluginInit

(* The handler the server task runs next, and what remains after it *)
Current == Head(todo)
Rest == Tail(todo)
Running(type) == todo # <<>> /\ Current.type = type /\ ~crashed
-----------------------------------------------------------------------------
(* recorder_request_state_update.  A dispatched request is given to        *)
(* recorder_channel_request_process in the same call.                      *)

RequestSetParams ==
    /\ Current.method = "SET-PARAMS"
    /\ properties' = IF Current.param = NULL THEN properties ELSE Current.param
    /\ sm_request' = Current
    /\ Signal(Response(Current, "COMPLETE"))
    /\ todo' = Rest
    /\ UNCHANGED <<sessionVars, active, to_client, machineVars, pluginVars>>

RequestGetParams ==
    /\ Current.method = "GET-PARAMS"
    /\ sm_request' = Current
    /\ Signal(Response(Current, "COMPLETE"))
    /\ todo' = Rest
    /\ UNCHANGED <<sessionVars, active, properties, to_client, machineVars, pluginVars>>

(* A RECORD that is given to the engine while another is in progress *)
RequestRecordUnguarded ==
    /\ Current.method = "RECORD"
    /\ sm_request' = Inherit(Current)
    /\ todo' = <<[Inherit(Current) EXCEPT !.type = "record_open"]>> \o Rest
    /\ UNCHANGED <<sessionVars, active, to_client, task_queue, properties, machineVars,
                   pluginVars>>

RequestRecord ==
    /\ Current.method = "RECORD"
    /\ \/ /\ state = "RECORDING"
          /\ ResponseDispatch(Response(Current, "COMPLETE"), Rest)
       \/ /\ state # "RECORDING"
          /\ sm_request' = Inherit(Current)
          /\ todo' = <<[Inherit(Current) EXCEPT !.type = "record_open"]>> \o Rest
          /\ UNCHANGED <<sessionVars, active, to_client>>
    /\ UNCHANGED <<task_queue, properties, machineVars, pluginVars>>

(* A STOP that is always given to the engine *)
RequestStopUnguarded ==
    /\ Current.method = "STOP"
    /\ sm_request' = Current
    /\ stop_response' = Response(Current, "COMPLETE")
    /\ todo' = Rest
    /\ UNCHANGED <<sessionVars, active, to_client, task_queue, properties, machineVars,
                   record_request, timers_started, max_time, cur_time, audio_out>>

RequestStop ==
    /\ Current.method = "STOP"
    /\ \/ /\ state = "RECORDING"
          /\ sm_request' = Current
          /\ stop_response' = Response(Current, "COMPLETE")
          /\ todo' = Rest
          /\ UNCHANGED <<sessionVars, active, to_client>>
       \/ /\ state # "RECORDING"
          /\ ResponseDispatch(Response(Current, "COMPLETE"), Rest)
          /\ UNCHANGED stop_response
    /\ UNCHANGED <<task_queue, properties, machineVars, record_request, timers_started,
                   max_time, cur_time, audio_out>>

RequestStartTimers ==
    /\ Current.method = "START-INPUT-TIMERS"
    /\ \/ /\ state = "RECORDING"
          /\ sm_request' = Current
          /\ timers_started' = TRUE
          /\ Signal(Response(Current, "COMPLETE"))
          /\ todo' = Rest
          /\ UNCHANGED <<sessionVars, active, to_client>>
       \/ /\ state # "RECORDING"
          /\ ResponseDispatch(Response(Current, "COMPLETE"), Rest)
          /\ UNCHANGED <<task_queue, timers_started>>
    /\ UNCHANGED <<properties, machineVars, record_request, stop_response, max_time,
                   cur_time, audio_out>>

RequestUpdate ==
    /\ Running("request")
    /\ \/ RequestSetParams
       \/ RequestGetParams
       \/ RequestRecord
       \/ RequestStop
       \/ RequestStartTimers
    /\ UNCHANGED <<clientVars, mediaVars>>
-----------------------------------------------------------------------------
(* recorder_channel_record, in the server task: the header fields and the  *)
(* file, the counters, the response, and only then record_request          *)

RecordOpen ==
    /\ Running("record_open")
    /\ timers_started' \in BOOLEAN      \* START-INPUT-TIMERS header, or TRUE
    /\ max_time' = IF Current.param = NULL THEN max_time ELSE Current.param
    /\ \/ /\ audio_out' = TRUE
          /\ todo' = <<[Current EXCEPT !.type = "record_reset"]>> \o Rest
          /\ UNCHANGED task_queue
       \/ /\ audio_out' \in {FALSE, audio_out}   \* no path, or fopen failed
          /\ Signal(Response(Current, "COMPLETE"))
          /\ todo' = Rest
    /\ UNCHANGED <<sessionVars, active, sm_request, properties, to_client, clientVars,
                   machineVars, record_request, stop_response, cur_time, mediaVars>>

RecordReset ==
    /\ Running("record_reset")
    /\ cur_time' = 0
    /\ todo' = <<[Current EXCEPT !.type = "record_respond"]>> \o Rest
    /\ UNCHANGED <<task_queue, sessionVars, active, sm_request, properties, to_client,
                   clientVars, machineVars, record_request, stop_response, timers_started,
                   max_time, audio_out, mediaVars>>

RecordRespond ==
    /\ Running("record_respond")
    /\ Signal(Response(Current, "INPROGRESS"))
    /\ todo' = <<[Current EXCEPT !.type = "record_start"]>> \o Rest
    /\ UNCHANGED <<sessionVars, active, sm_request, properties, to_client, clientVars,
                   machineVars, pluginVars, mediaVars>>

RecordStart ==
    /\ Running("record_start")
    /\ record_request' = [Current EXCEPT !.type = "request"]
    /\ todo' = Rest
    /\ UNCHANGED <<task_queue, sessionVars, active, sm_request, properties, to_client,
                   clientVars, machineVars, stop_response, timers_started, max_time,
                   cur_time, audio_out, mediaVars>>
-----------------------------------------------------------------------------
(* recorder_response_state_update *)

Expected == sm_request # NULL /\ sm_request.id = Current.id

ResponseParams ==
    /\ Current.method \in {"SET-PARAMS", "GET-PARAMS", "START-INPUT-TIMERS"}
    /\ ResponseDispatch(IF Current.method = "GET-PARAMS"
                        THEN [Current EXCEPT !.param = properties] ELSE Current, Rest)
    /\ UNCHANGED machineVars

(* A RECORD taken for a recording whatever its response says *)
ResponseRecordAnyState ==
    /\ Current.method = "RECORD"
    /\ record' = sm_request
    /\ state' = "RECORDING"
    /\ ResponseDispatch(Current, Rest)

ResponseRecord ==
    /\ Current.method = "RECORD"
    /\ \/ /\ Current.state = "INPROGRESS"
          /\ record' = sm_request
          /\ state' = "RECORDING"
       \/ /\ Current.state # "INPROGRESS"
          /\ UNCHANGED machineVars
    /\ ResponseDispatch(Current, Rest)

(* recorder_response_stop reads record->start_line without a test *)
ResponseStop ==
    /\ Current.method = "STOP"
    /\ record' = NULL
    /\ state' = "IDLE"
    /\ ResponseDispatch(Current, Rest)

ResponseUpdate ==
    /\ Running("response")
    /\ \/ Expected /\ (ResponseParams \/ ResponseRecord \/ ResponseStop) /\ UNCHANGED properties
       \/ ~Expected /\ Ignore(Rest) /\ UNCHANGED machineVars
    /\ UNCHANGED <<task_queue, clientVars, pluginVars, mediaVars>>
-----------------------------------------------------------------------------
(* recorder_event_state_update *)

OfRecord == record # NULL /\ record.id = Current.id

StopPending == sm_request # NULL /\ sm_request.method = "STOP"

EventStartOfInput ==
    /\ Current.method = "START-OF-INPUT"
    /\ \/ OfRecord /\ EventDispatch(Current, Rest)
       \/ ~OfRecord /\ Ignore(Rest)
    /\ UNCHANGED machineVars

EventRecordComplete ==
    /\ Current.method = "RECORD-COMPLETE"
    /\ \/ /\ OfRecord /\ ~StopPending
          /\ state' = "IDLE"
          /\ record' = NULL
          /\ EventDispatch(Current, Rest)
       \/ /\ ~OfRecord \/ StopPending
          /\ Ignore(Rest)
          /\ UNCHANGED machineVars

EventUpdate ==
    /\ Running("event")
    /\ EventStartOfInput \/ EventRecordComplete
    /\ UNCHANGED <<task_queue, properties, clientVars, pluginVars, mediaVars>>

(* mrcp_server_session_deactivate with recorder_state_deactivate: the      *)
(* internal STOP takes the id after that of the recording                  *)
Deactivate ==
    /\ Running("terminate")
    /\ LET stop == IF state = "RECORDING" /\ record # NULL
                   THEN Request("STOP", record.id + 1, NULL)
                   ELSE NULL
       IN  /\ DeactivateSession(stop, Rest)
           /\ stop_response' = IF stop = NULL THEN stop_response
                               ELSE Response(stop, "COMPLETE")
    /\ UNCHANGED <<task_queue, clientVars, machineVars, record_request, timers_started,
                   max_time, cur_time, audio_out, mediaVars>>
-----------------------------------------------------------------------------
(* recorder_stream_write, called by the media thread for every frame *)

(* recorder_record_complete *)
RecordComplete ==
    /\ Signal(Event(record_request, "RECORD-COMPLETE", "COMPLETE"))
    /\ audio_out' = FALSE
    /\ record_request' = NULL

Media(from, to) ==
    /\ ~crashed
    /\ media_pc = from
    /\ media_pc' = to
    /\ UNCHANGED <<todo, sessionVars, active, sm_request, properties, to_client,
                   clientVars, machineVars, max_time, timers_started, overtaken>>

(* A STOP answered only if there is still something to stop *)
MediaStopRespondRecording ==
    /\ Media("start", "stop_response")
    /\ stop_response # NULL
    /\ audio_out' = FALSE
    /\ IF record_request # NULL THEN Signal(stop_response) ELSE UNCHANGED task_queue
    /\ UNCHANGED <<record_request, stop_response, cur_time, voice, crashed>>

(* The response to STOP is sent before the request it stops is cleared. *)
MediaStopRespond ==
    /\ Media("start", "stop_response")
    /\ stop_response # NULL
    /\ audio_out' = FALSE
    /\ Signal(stop_response)
    /\ UNCHANGED <<record_request, stop_response, cur_time, voice, crashed>>

MediaStopClear ==
    /\ Media("stop_response", "record_request")
    /\ stop_response' = NULL
    /\ UNCHANGED <<task_queue, record_request, cur_time, audio_out, voice, crashed>>

MediaRecordClear ==
    /\ Media("record_request", "start")
    /\ record_request' = NULL
    /\ UNCHANGED <<task_queue, stop_response, cur_time, audio_out, voice, crashed>>

(* mpf_activity_detector_process reports activity and inactivity in turn,  *)
(* over the whole life of the channel: it is not reset by a new RECORD.    *)
MediaDetect ==
    /\ Media("start", "write")
    /\ stop_response = NULL
    /\ record_request # NULL
    /\ \/ UNCHANGED <<task_queue, record_request, audio_out, voice>>
       \/ /\ ~voice
          /\ voice' = TRUE
          /\ Signal(Event(record_request, "START-OF-INPUT", "INPROGRESS"))
          /\ UNCHANGED <<record_request, audio_out>>
       \/ /\ voice
          /\ voice' = FALSE
          /\ RecordComplete
       \/ /\ ~voice /\ timers_started     \* no input
          /\ RecordComplete
          /\ UNCHANGED voice
    /\ UNCHANGED <<stop_response, cur_time, crashed>>

(* Frames written without a look at Max-Time *)
MediaWriteNoLimit ==
    /\ Media("write", "start")
    /\ cur_time' = IF audio_out /\ cur_time < TimeCap THEN cur_time + 1 ELSE cur_time
    /\ UNCHANGED <<task_queue, record_request, audio_out, crashed, stop_response, voice>>

(* The frame is written to whatever file is open by now. *)
MediaWrite ==
    /\ Media("write", "start")
    /\ LET time == IF cur_time < TimeCap THEN cur_time + 1 ELSE cur_time
           full == max_time # 0 /\ time >= max_time
       IN  \/ /\ ~audio_out
              /\ UNCHANGED <<task_queue, record_request, cur_time, audio_out, crashed>>
           \/ /\ audio_out /\ ~full
              /\ cur_time' = time
              /\ UNCHANGED <<task_queue, record_request, audio_out, crashed>>
           \/ /\ audio_out /\ full /\ record_request # NULL
              /\ cur_time' = time
              /\ RecordComplete
              /\ UNCHANGED crashed
           \/ /\ audio_out /\ full /\ record_request = NULL
              /\ crashed' = TRUE
              /\ cur_time' = time
              /\ UNCHANGED <<task_queue, record_request, audio_out>>
    /\ UNCHANGED <<stop_response, voice>>

MediaThread ==
    MediaStopRespond \/ MediaStopClear \/ MediaRecordClear \/ MediaDetect \/ MediaWrite
-----------------------------------------------------------------------------
TakeMessage ==
    /\ ~crashed
    /\ MediaPrompt => media_pc = "start"
    /\ overtaken' = (overtaken \/ media_pc # "start")
    /\ ReceiveSignaling \/ ReceiveEngineMessage
    /\ UNCHANGED <<machineVars, pluginVars, voice, media_pc, crashed>>

ServerTask ==
    TakeMessage \/ RequestUpdate \/ RecordOpen \/ RecordReset \/ RecordRespond
      \/ RecordStart \/ ResponseUpdate \/ EventUpdate \/ Deactivate

Client ==
    /\ ~crashed
    /\ \/ \E method \in Method : ClientRequest(method, NULL)
       \/ \E method \in Method \cap {"SET-PARAMS", "RECORD"}, param \in Param :
             ClientRequest(method, param)
       \/ ClientTerminate
    /\ UNCHANGED <<machineVars, pluginVars, mediaVars>>

Next == ServerTask \/ MediaThread \/ Client

Spec == RecorderInit /\ [][Next]_vars
-----------------------------------------------------------------------------
(* The values the fields of the session, the state machine and the plugin  *)
(* take; the server task never has more than one message in hand, because  *)
(* dispatching the next request is the last thing every handler does.      *)
TypeOK ==
    /\ ControlTypeOK
    /\ Len(todo) <= 1
    /\ state \in {"IDLE", "RECORDING"}
    /\ record \in Message \cup {NULL}
    /\ record_request \in Message \cup {NULL}
    /\ stop_response \in Message \cup {NULL}
    /\ timers_started \in BOOLEAN
    /\ max_time \in 0 .. TimeCap
    /\ cur_time \in 0 .. TimeCap
    /\ audio_out \in BOOLEAN
    /\ voice \in BOOLEAN
    /\ media_pc \in {"start", "stop_response", "record_request", "write"}
    /\ crashed \in BOOLEAN
    /\ overtaken \in BOOLEAN

(* recorder_response_stop reads record->start_line.request_id: whenever a  *)
(* response to STOP, the client's or the one of a deactivation, gets that  *)
(* far, there is a recording.                                              *)
StopFindsRecord ==
    (Running("response") /\ Expected /\ Current.method = "STOP") => record # NULL

InProgress(i) == to_client[i].type = "response" /\ to_client[i].state = "INPROGRESS"
Completes(i) == to_client[i].type = "event" /\ to_client[i].method = "RECORD-COMPLETE"
Stops(i) == to_client[i].type = "response" /\ to_client[i].method = "STOP"

(* A recording is accepted only when the client has been told of the end   *)
(* of the one before.                                                      *)
OneRecordingAtATime ==
    \A i, j \in DOMAIN to_client :
        (i < j /\ InProgress(i) /\ InProgress(j)) =>
            \E k \in i + 1 .. j - 1 : Completes(k) \/ Stops(k)

Completed(m) ==
    m.type = "event" /\ m.method = "RECORD-COMPLETE" /\ m.id = record.id

CompletionOnItsWay ==
    \/ \E i \in DOMAIN task_queue : Completed(task_queue[i])
    \/ todo # <<>> /\ Completed(Current)

(* recorder_channel_stop says "make sure there is no more activity and     *)
(* only then send the response".  So once STOP is answered nothing of the  *)
(* stopped recording reaches the next one: a recording the client was told *)
(* is in progress is the one the media thread records, until it completes  *)
(* or is stopped.                                                          *)
AcceptedRecordKept ==
    (state = "RECORDING" /\ ~StopPending /\ ~CompletionOnItsWay /\ ~crashed) =>
        record_request # NULL /\ record_request.id = record.id

(* recorder_record_complete uses record_request without a test. *)
NoNullRecordRequest == ~crashed

(* Both, as long as the server task has not overtaken a call of            *)
(* recorder_stream_write: the recording the client was told of is the one  *)
(* the media thread records, and it completes none that is not there.      *)
KeptUntilOvertaken == ~overtaken => AcceptedRecordKept /\ NoNullRecordRequest

Ended(id) == \E i \in DOMAIN to_client :
                \/ Completes(i) /\ to_client[i].id = id
                \/ Stops(i) /\ to_client[i].id > id

(* Once a Max-Time is in force every recording comes to an end, even if    *)
(* the speaker never pauses.                                               *)
RecordingBounded ==
    \A id \in 1 .. MaxRequests :
        (max_time # 0 /\ \E i \in DOMAIN to_client : InProgress(i) /\ to_client[i].id = id)
            ~> (Ended(id) \/ hangup)
=============================================================================
