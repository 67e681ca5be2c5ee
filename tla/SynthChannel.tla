---------------------------- MODULE SynthChannel ----------------------------
(***************************************************************************)
(* A synthesizer channel of the server: the synthesizer state machine      *)
(* (mrcp_synth_state_machine.c), run by the server task, and the demo      *)
(* plugin (plugins/demo-synth/src/demo_synth_engine.c), whose request      *)
(* handlers run in a task of their own and whose demo_synth_stream_read    *)
(* runs in the media thread.  The engine task and the media thread share   *)
(* the fields of demo_synth_channel_t without a lock.                      *)
(***************************************************************************)
EXTENDS PluginChannel

CONSTANT MaxFrames   \* bound of the model: length of a speech

ASSUME FramesAssumption == MaxFrames \in Nat /\ Param \subseteq Nat

VARIABLES state, is_pending, speaker, queue,  \* of the state machine
          paused,       \* of demo_synth_channel_t
          frames_left   \* what is left of audio_file or time_to_complete

machineVars == <<state, is_pending, speaker, queue>>
speechVars == <<paused, frames_left>>
vars == <<controlVars, machineVars, engine_queue, channelVars, speechVars, mediaVars>>

MachineInit == state = "IDLE" /\ is_pending = FALSE /\ speaker = NULL /\ queue = <<>>

SynthInit == Init /\ MachineInit /\ ChannelInit /\ paused = FALSE /\ frames_left = 0
-----------------------------------------------------------------------------
(* synth_request_state_update *)

RequestSetParams == Current.method = "SET-PARAMS" /\ SetParams /\ UNCHANGED machineVars

(* A pending SPEAK that overtakes those before it *)
RequestSpeakFront ==
    /\ Current.method = "SPEAK"
    /\ \/ /\ speaker # NULL
          /\ queue' = <<Inherit(Current)>> \o queue
          /\ Answer("PENDING")
       \/ speaker = NULL /\ Forward /\ UNCHANGED queue
    /\ UNCHANGED <<state, is_pending, speaker>>

RequestSpeak ==
    /\ Current.method = "SPEAK"
    /\ \/ /\ speaker # NULL
          /\ queue' = Append(queue, Inherit(Current))
          /\ Answer("PENDING")
       \/ speaker = NULL /\ Forward /\ UNCHANGED queue
    /\ UNCHANGED <<state, is_pending, speaker>>

(* synth_pending_requests_remove *)
Remaining(stop) == SelectSeq(queue, LAMBDA request : ~Concerns(stop, request))

RequestStop ==
    /\ Current.method = "STOP"
    /\ \/ /\ speaker # NULL /\ Concerns(Current, speaker)
          /\ Forward
          /\ UNCHANGED queue
       \/ /\ ~(speaker # NULL /\ Concerns(Current, speaker))
          /\ queue' = Remaining(Current)
          /\ Answer("COMPLETE")
    /\ UNCHANGED <<state, is_pending, speaker>>

(* kill is the Kill-On-Barge-In header field, TRUE when there is none *)
RequestOther ==
    /\ \/ Current.method = "GET-PARAMS" /\ Forward
       \/ Current.method = "PAUSE" /\ ForwardIf(speaker # NULL /\ state = "SPEAKING")
       \/ Current.method = "RESUME" /\ ForwardIf(speaker # NULL /\ state = "PAUSED")
       \/ /\ Current.method = "BARGE-IN-OCCURRED"
          /\ \E kill \in BOOLEAN : ForwardIf(speaker # NULL /\ kill)
       \/ Current.method = "CONTROL" /\ ForwardIf(state = "SPEAKING")
       \/ Current.method = "DEFINE-LEXICON" /\ ForwardIf(state = "IDLE")
    /\ UNCHANGED machineVars

RequestUpdate ==
    /\ Running("request")
    /\ \/ RequestSetParams
       \/ (RequestSpeak \/ RequestStop \/ RequestOther) /\ UNCHANGED properties
    /\ UNCHANGED <<task_queue, clientVars, channelVars, speechVars, mediaVars>>
-----------------------------------------------------------------------------
(* synth_response_state_update *)

(* The response handlers of STOP, PAUSE, RESUME, BARGE-IN-OCCURRED and     *)
(* CONTROL read speaker->start_line without a test.                        *)
NeedsSpeaker == Current.method \in {"STOP", "PAUSE", "RESUME", "BARGE-IN-OCCURRED", "CONTROL"}

ResponseSimple ==
    /\ Current.method \in {"SET-PARAMS", "GET-PARAMS", "DEFINE-LEXICON", "CONTROL"}
    /\ ResponseDispatch(Current, Rest)
    /\ UNCHANGED machineVars

(* A SPEAK from the pending queue was answered PENDING when it was queued: *)
(* it gets SPEECH-MARKER, and stays in active_request.                     *)
ResponseSpeak ==
    /\ Current.method = "SPEAK"
    /\ speaker' = IF Current.state = "INPROGRESS" THEN sm_request ELSE speaker
    /\ state' = IF Current.state = "INPROGRESS" THEN "SPEAKING" ELSE state
    /\ is_pending' = FALSE
    /\ \/ is_pending /\ EventDispatch(Event(sm_request, "SPEECH-MARKER", "INPROGRESS"), Rest)
       \/ ~is_pending /\ ResponseDispatch(Current, Rest)
    /\ UNCHANGED queue

(* The session goes on with its next request before the pending SPEAK that *)
(* was taken from the queue is dispatched.                                 *)
ResponseStop ==
    /\ Current.method = "STOP"
    /\ state' = "IDLE"
    /\ speaker' = NULL
    /\ LET left == Remaining(sm_request)
       IN  \/ /\ left = <<>>
              /\ queue' = left
              /\ ResponseDispatch(Current, Rest)
           \/ /\ left # <<>>
              /\ queue' = Tail(left)
              /\ ResponseDispatch(Current, <<[Head(left) EXCEPT !.type = "pending"]>> \o Rest)
    /\ UNCHANGED is_pending

ResponseBargeIn ==
    /\ Current.method = "BARGE-IN-OCCURRED"
    /\ state' = "IDLE"
    /\ speaker' = NULL
    /\ queue' = Remaining(sm_request)
    /\ ResponseDispatch(Current, Rest)
    /\ UNCHANGED is_pending

ResponsePauseResume ==
    /\ Current.method \in {"PAUSE", "RESUME"}
    /\ state' = IF Current.method = "PAUSE" THEN "PAUSED" ELSE "SPEAKING"
    /\ ResponseDispatch(Current, Rest)
    /\ UNCHANGED <<is_pending, speaker, queue>>

ResponseUpdate ==
    /\ Running("response")
    /\ \/ ~Expected /\ Ignore(Rest) /\ UNCHANGED <<machineVars, crashed>>
       \/ /\ Expected /\ (NeedsSpeaker => speaker # NULL)
          /\ \/ ResponseSimple \/ ResponseSpeak \/ ResponseStop
             \/ ResponseBargeIn \/ ResponsePauseResume
          /\ UNCHANGED <<properties, crashed>>
       \/ /\ Expected /\ NeedsSpeaker /\ speaker = NULL
          /\ Crash
          /\ UNCHANGED machineVars
    /\ UNCHANGED <<task_queue, clientVars, engine_queue, channelVars, speechVars, media_pc>>

(* The end of synth_response_stop *)
DispatchPending ==
    /\ Running("pending")
    /\ is_pending' = TRUE
    /\ sm_request' = [Current EXCEPT !.type = "request"]
    /\ engine_queue' = Append(engine_queue, [Current EXCEPT !.type = "request"])
    /\ todo' = Rest
    /\ UNCHANGED <<task_queue, sessionVars, active, properties, to_client, clientVars, state,
                   speaker, queue, channelVars, speechVars, mediaVars>>
-----------------------------------------------------------------------------
(* synth_event_speak_complete *)

OfSpeaker == speaker # NULL /\ speaker.id = Current.id

(* A SPEAK-COMPLETE that is not held back while STOP is in progress and    *)
(* starts no pending SPEAK                                                 *)
SpeakCompleteDuringStop ==
    \/ /\ OfSpeaker
       /\ state' = "IDLE"
       /\ speaker' = NULL
       /\ EventDispatch(Current, Rest)
       /\ UNCHANGED <<queue, is_pending, engine_queue>>
    \/ ~OfSpeaker /\ Ignore(Rest) /\ UNCHANGED <<machineVars, engine_queue>>

SpeakComplete ==
    \/ /\ OfSpeaker /\ ~StopPending
       /\ state' = "IDLE"
       /\ speaker' = NULL
       /\ to_client' = IF active THEN Append(to_client, Current) ELSE to_client
       /\ todo' = Rest
       /\ \/ /\ queue = <<>>
             /\ UNCHANGED <<queue, is_pending, sm_request, engine_queue>>
          \/ /\ queue # <<>>
             /\ queue' = Tail(queue)
             /\ is_pending' = TRUE
             /\ sm_request' = Head(queue)
             /\ engine_queue' = Append(engine_queue, Head(queue))
       /\ UNCHANGED <<sessionVars, active>>
    \/ /\ ~OfSpeaker \/ StopPending
       /\ Ignore(Rest)
       /\ UNCHANGED <<machineVars, engine_queue>>

EventUpdate ==
    /\ Running("event")
    /\ SpeakComplete
    /\ UNCHANGED <<task_queue, properties, clientVars, channelVars, speechVars, mediaVars>>

(* synth_state_deactivate *)
Deactivate == DeactivateChannel(speaker) /\ UNCHANGED <<machineVars, speechVars>>
-----------------------------------------------------------------------------
(* demo_synth_channel_request_dispatch, run by the task of the plugin *)
EngineRequest ==
    /\ EngineTake
    /\ LET request == Head(engine_queue)
       IN  \/ /\ request.method = "SPEAK"
              /\ EngineAccept(request)
              /\ IF descriptor THEN frames_left' \in 0 .. MaxFrames ELSE UNCHANGED frames_left
              /\ UNCHANGED paused
           \/ /\ request.method \in {"STOP", "BARGE-IN-OCCURRED"}
              /\ EngineStop(request)
              /\ UNCHANGED speechVars
           \/ /\ request.method \notin {"SPEAK", "STOP", "BARGE-IN-OCCURRED"}
              /\ EngineAnswer(request)
              /\ paused' = (request.method = "PAUSE" \/ (paused /\ request.method # "RESUME"))
              /\ UNCHANGED frames_left
    /\ UNCHANGED machineVars

EngineTask == EngineRequest \/ (EngineStart /\ UNCHANGED <<machineVars, speechVars>>)
-----------------------------------------------------------------------------
(* demo_synth_stream_read, called by the media thread for every frame *)

MediaStop ==
    /\ \/ (MediaStopRespond \/ MediaStopClear) /\ UNCHANGED speechVars
       \/ MediaRequestClear /\ paused' = FALSE /\ frames_left' = 0
    /\ UNCHANGED machineVars

MediaRead ==
    /\ Media("start", "start")
    /\ stop_response = NULL
    /\ in_progress # NULL
    /\ ~paused
    /\ \/ /\ frames_left > 0
          /\ frames_left' = frames_left - 1
          /\ UNCHANGED <<task_queue, in_progress>>
       \/ /\ frames_left = 0
          /\ in_progress' = NULL
          /\ Signal(Event(in_progress, "SPEAK-COMPLETE", "COMPLETE"))
          /\ UNCHANGED frames_left
    /\ UNCHANGED <<machineVars, stop_response, paused, crashed>>

MediaThread == MediaStop \/ MediaRead
-----------------------------------------------------------------------------
Receive == TakeMessage /\ UNCHANGED <<machineVars, speechVars>>

ServerTask ==
    \/ Receive
    \/ RequestUpdate \/ ResponseUpdate \/ DispatchPending \/ EventUpdate \/ Deactivate

Pending(i) == Told(i, "response", "SPEAK", "PENDING")
Marked(i) == Told(i, "event", "SPEECH-MARKER", "INPROGRESS")
Started(i) == Marked(i) \/ Told(i, "response", "SPEAK", "INPROGRESS")
Ended(id) ==
    \E i \in DOMAIN to_client :
        \/ Told(i, "event", "SPEAK-COMPLETE", "COMPLETE") /\ to_client[i].id = id
        \/ /\ to_client[i].type = "response" /\ to_client[i].id > id
           /\ to_client[i].method \in {"STOP", "BARGE-IN-OCCURRED"}

(* The SPEAK with this id is in the pending queue or past it.   *)
Settled(id) ==
    \/ Ended(id)
    \/ \E i \in DOMAIN queue : queue[i].id = id
    \/ \E i \in DOMAIN to_client : Marked(i) /\ to_client[i].id = id

MayAsk ==
    Quiet => /\ \A id \in 1 .. last_id : ~OnItsWay("SPEAK-COMPLETE", id)
             /\ \A i \in DOMAIN to_client : Pending(i) => Settled(to_client[i].id)

Client ==
    /\ ~crashed
    /\ \/ MayAsk /\ \E method \in Method : ClientRequest(method, NULL)
       \/ MayAsk /\ \E param \in Param : ClientRequest("STOP", param)
       \/ ClientTerminate
    /\ UNCHANGED <<machineVars, engine_queue, channelVars, speechVars, mediaVars>>

Next == ServerTask \/ EngineTask \/ MediaThread \/ Client

Spec == SynthInit /\ [][Next]_vars
-----------------------------------------------------------------------------
(* The values the fields of the session, the state machine and the plugin  *)
(* take.  The server task never has more in hand than one message and the  *)
(* pending SPEAK that synth_response_stop has still to dispatch.           *)
TypeOK ==
    /\ ChannelTypeOK
    /\ Len(todo) <= 2
    /\ state \in {"IDLE", "SPEAKING", "PAUSED"}
    /\ is_pending \in BOOLEAN
    /\ speaker \in Message \cup {NULL}
    /\ queue \in Seq(Message)
    /\ paused \in BOOLEAN
    /\ frames_left \in 0 .. MaxFrames

(* synth_response_stop reads speaker->start_line.request_id: whenever a    *)
(* response to STOP, the client's or the one of a deactivation, gets that  *)
(* far there is a SPEAK in progress, though SPEAK-COMPLETE may have come   *)
(* before it.                                                              *)
StopFindsSpeaker ==
    (Running("response") /\ Expected /\ Current.method = "STOP") => speaker # NULL

(* SPEAK requests start in the order the client sent them, whether they go *)
(* straight to the engine or through the pending queue.                    *)
SpeechInOrder ==
    \A i, j \in DOMAIN to_client :
        (i < j /\ Started(i) /\ Started(j)) => to_client[i].id < to_client[j].id

(* "not to send the response for pending request, instead send             *)
(* SPEECH-MARKER event": the marker goes to a SPEAK that was answered      *)
(* PENDING before, and is_pending marks a request of the pending queue.    *)
MarkerForPending ==
    \A i \in DOMAIN to_client : Marked(i) =>
        \E j \in 1 .. i - 1 : Pending(j) /\ to_client[j].id = to_client[i].id

(* The response handlers of the state machine never read a NULL speaker.   *)
NoNullSpeaker == ~crashed

(* demo_synth_channel_stop says "make sure there is no more activity and   *)
(* only then send the response".  So once STOP is answered nothing of it   *)
(* reaches the next SPEAK: a SPEAK the client was told is in progress is   *)
(* the one the media thread plays, until it completes or is stopped.       *)
AcceptedSpeakKept ==
    (speaker # NULL /\ ~StopPending /\ ~OnItsWay("SPEAK-COMPLETE", speaker.id) /\ ~crashed)
        => Engaged(speaker)

(* Every SPEAK that was accepted, at once or as pending, ends: with        *)
(* SPEAK-COMPLETE, by a STOP or with the session.                          *)
EverySpeakEnds ==
    \A id \in 1 .. MaxRequests :
        (\E i \in DOMAIN to_client : (Started(i) \/ Pending(i)) /\ to_client[i].id = id)
            ~> (Ended(id) \/ hangup)
=============================================================================
