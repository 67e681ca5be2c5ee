---------------------------- MODULE ListenChannel ----------------------------
(***************************************************************************)
(* The demo plugins that listen, plugins/demo-recog and                    *)
(* plugins/demo-verifier: the same code with other names.                  *)
(***************************************************************************)
EXTENDS PluginChannel

CONSTANT Dtmf   \* TRUE: a frame may start or end a named event

VARIABLES timers_started, \* of demo_recog_channel_t and demo_verifier_channel_t
          voice           \* the activity detector has reported activity and
                          \* not yet inactivity

inputVars == <<timers_started, voice>>

(* demo_recog_engine_channel_create leaves timers_started uninitialized. *)
InputInit == timers_started \in BOOLEAN /\ voice = FALSE

(* demo_recog_channel_request_dispatch, run by the task of the plugin:     *)
(* listening is RECOGNIZE or VERIFY, which sets timers_started to          *)
(* Start-Input-Timers or TRUE.                                             *)
EngineRequest(listening) ==
    /\ EngineTake
    /\ LET request == Head(engine_queue)
       IN  \/ /\ request.method = listening
              /\ EngineAccept(request)
              /\ IF descriptor THEN timers_started' \in BOOLEAN ELSE UNCHANGED timers_started
           \/ /\ request.method = "STOP"
              /\ EngineStop(request)
              /\ UNCHANGED timers_started
           \/ /\ request.method \notin {listening, "STOP"}
              /\ EngineAnswer(request)
              /\ timers_started' = (timers_started \/ request.method = "START-INPUT-TIMERS")
    /\ UNCHANGED voice

EngineTask(listening) == EngineRequest(listening) \/ (EngineStart /\ UNCHANGED inputVars)
-----------------------------------------------------------------------------
(* demo_recog_stream_write, called by the media thread for every frame *)

MediaStop == (MediaStopRespond \/ MediaStopClear \/ MediaRequestClear) /\ UNCHANGED inputVars

(* demo_recog_recognition_complete; then the log of a named event, which   *)
(* the same frame may carry, reads recog_request.                          *)
Complete(event) ==
    /\ Signal(Event(in_progress, event, "COMPLETE"))
    /\ in_progress' = NULL
    /\ crashed' \in IF Dtmf THEN BOOLEAN ELSE {FALSE}

(* mpf_activity_detector_process reports activity and inactivity in turn,  *)
(* over the whole life of the channel.                                     *)
MediaListen(event) ==
    /\ Media("start", "start")
    /\ stop_response = NULL
    /\ in_progress # NULL
    /\ \/ /\ ~voice
          /\ voice' = TRUE
          /\ Signal(Event(in_progress, "START-OF-INPUT", "INPROGRESS"))
          /\ UNCHANGED <<in_progress, crashed>>
       \/ voice /\ voice' = FALSE /\ Complete(event)
       \/ ~voice /\ timers_started /\ Complete(event) /\ UNCHANGED voice
    /\ UNCHANGED <<stop_response, timers_started>>

MediaThread(event) == MediaStop \/ MediaListen(event)
=============================================================================
