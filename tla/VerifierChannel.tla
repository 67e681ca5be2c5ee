--------------------------- MODULE VerifierChannel ---------------------------
(***************************************************************************)
(* A verifier channel of the server: the verifier state machine            *)
(* (mrcp_verifier_state_machine.c), run by the server task, and the demo   *)
(* plugin (plugins/demo-verifier/src/demo_verifier_engine.c), whose        *)
(* request handlers run in a task of their own and whose                   *)
(* demo_verifier_stream_write runs in the media thread.                    *)
(***************************************************************************)
EXTENDS ListenChannel

VARIABLES state, verify   \* of the state machine

machineVars == <<state, verify>>
vars == <<controlVars, machineVars, engine_queue, channelVars, inputVars, mediaVars>>

MachineInit == state = "IDLE" /\ verify = NULL

VerifierInit == Init /\ MachineInit /\ ChannelInit /\ InputInit

(* verifier_state_change: IDLE forgets the request, OPENED does not *)
StateChange(new) ==
    /\ state' = new
    /\ verify' = IF new = "IDLE" THEN NULL ELSE verify
-----------------------------------------------------------------------------
(* verifier_request_state_update *)

(* A START-SESSION that is let through while a verification is in progress *)
ForTheEngineAnySession(method) ==
    CASE state = "IDLE" ->
            method \notin {"END-SESSION", "QUERY-VOICEPRINT", "DELETE-VOICEPRINT", "VERIFY",
                           "VERIFY-FROM-BUFFER", "STOP", "START-INPUT-TIMERS",
                           "GET-INTERMEDIATE-RESULT"}
      [] state = "OPENED" -> method \notin {"STOP", "GET-INTERMEDIATE-RESULT"}
      [] state = "VERIFYING" ->
            method \notin {"VERIFY", "VERIFY-FROM-BUFFER", "START-INPUT-TIMERS"}

(* The state machine answers the other requests itself: they are not valid *)
(* in its state, or STOP finds nothing in progress.                        *)
ForTheEngine(method) ==
    CASE state = "IDLE" ->
            method \notin {"END-SESSION", "QUERY-VOICEPRINT", "DELETE-VOICEPRINT", "VERIFY",
                           "VERIFY-FROM-BUFFER", "STOP", "START-INPUT-TIMERS",
                           "GET-INTERMEDIATE-RESULT"}
      [] state = "OPENED" -> method \notin {"STOP", "GET-INTERMEDIATE-RESULT"}
      [] state = "VERIFYING" ->
            method \notin {"START-SESSION", "VERIFY", "VERIFY-FROM-BUFFER",
                           "START-INPUT-TIMERS"}

Verifies(request) == request.method \in {"VERIFY", "VERIFY-FROM-BUFFER"}

RequestMethod ==
    /\ Current.method # "SET-PARAMS"
    /\ ForwardIf(ForTheEngine(Current.method))
    /\ verify' = IF Verifies(Current) /\ ForTheEngine(Current.method) THEN Current ELSE verify

RequestUpdate ==
    /\ Running("request")
    /\ \/ Current.method = "SET-PARAMS" /\ SetParams /\ UNCHANGED verify
       \/ RequestMethod /\ UNCHANGED properties
    /\ UNCHANGED <<state, task_queue, clientVars, channelVars, inputVars, mediaVars>>
-----------------------------------------------------------------------------
(* verifier_response_state_update: the state does not depend on whether    *)
(* the engine has accepted the request                                     *)
ResponseMethod ==
    /\ \/ Current.method \in {"START-SESSION", "STOP"} /\ StateChange("OPENED")
       \/ Current.method = "END-SESSION" /\ StateChange("IDLE")
       \/ Verifies(Current) /\ StateChange("VERIFYING")
       \/ /\ ~Verifies(Current) /\ Current.method \notin {"START-SESSION", "STOP", "END-SESSION"}
          /\ UNCHANGED machineVars
    /\ ResponseDispatch(Current, Rest)

ResponseUpdate ==
    /\ Running("response")
    /\ \/ ~Expected /\ Ignore(Rest) /\ UNCHANGED <<machineVars, crashed>>
       \/ /\ Expected /\ (Current.method = "STOP" => verify # NULL)
          /\ ResponseMethod
          /\ UNCHANGED <<properties, crashed>>
       \/ /\ Expected /\ Current.method = "STOP" /\ verify = NULL
          /\ Crash
          /\ UNCHANGED machineVars
    /\ UNCHANGED <<task_queue, clientVars, engine_queue, channelVars, inputVars, media_pc>>
-----------------------------------------------------------------------------
(* verifier_event_state_update *)

OfVerify == verify # NULL /\ verify.id = Current.id

StartOfInput ==
    /\ Current.method = "START-OF-INPUT"
    /\ IF OfVerify THEN EventDispatch(Current, Rest) /\ UNCHANGED properties ELSE Ignore(Rest)
    /\ UNCHANGED machineVars

VerificationComplete ==
    /\ Current.method = "VERIFICATION-COMPLETE"
    /\ \/ /\ OfVerify /\ ~StopPending
          /\ StateChange("OPENED")
          /\ EventDispatch(Current, Rest)
          /\ UNCHANGED properties
       \/ /\ ~OfVerify \/ StopPending
          /\ Ignore(Rest)
          /\ UNCHANGED machineVars

EventUpdate ==
    /\ Running("event")
    /\ StartOfInput \/ VerificationComplete
    /\ UNCHANGED <<task_queue, clientVars, engine_queue, channelVars, inputVars, mediaVars>>

(* verifier_state_deactivate *)
Deactivate ==
    /\ DeactivateChannel(IF state = "VERIFYING" THEN verify ELSE NULL)
    /\ UNCHANGED <<machineVars, inputVars>>
-----------------------------------------------------------------------------
Receive == TakeMessage /\ UNCHANGED <<machineVars, inputVars>>

ServerTask == Receive \/ RequestUpdate \/ ResponseUpdate \/ EventUpdate \/ Deactivate

PluginTask == EngineTask("VERIFY") /\ UNCHANGED machineVars

StreamWrite == MediaThread("VERIFICATION-COMPLETE") /\ UNCHANGED machineVars

Client ==
    /\ ~crashed
    /\ (\E method \in Method : ClientRequest(method, NULL)) \/ ClientTerminate
    /\ UNCHANGED <<machineVars, engine_queue, channelVars, inputVars, mediaVars>>

Next == ServerTask \/ PluginTask \/ StreamWrite \/ Client

Spec == VerifierInit /\ [][Next]_vars
-----------------------------------------------------------------------------
(* The values the fields of the session, the state machine and the plugin  *)
(* take.  The server task has one message in hand, and the verifier has a  *)
(* request from the start of a verification to its end.                    *)
TypeOK ==
    /\ ChannelTypeOK
    /\ Len(todo) <= 1
    /\ state \in {"IDLE", "OPENED", "VERIFYING"}
    /\ verify \in Message \cup {NULL}
    /\ state = "VERIFYING" => verify # NULL
    /\ timers_started \in BOOLEAN
    /\ voice \in BOOLEAN

(* verifier_response_stop reads verify->start_line.request_id: whenever a  *)
(* response to STOP gets that far there is a VERIFY, though                *)
(* VERIFICATION-COMPLETE may have come before it.                          *)
StopFindsVerify ==
    (Running("response") /\ Expected /\ Current.method = "STOP") => verify # NULL

(* VERIFYING is the state of an "in-progress verify request": one the      *)
(* client has been told is in progress.                                    *)
VerifyingIsInProgress ==
    state = "VERIFYING" =>
        \E i \in DOMAIN to_client :
            Told(i, "response", "VERIFY", "INPROGRESS") /\ to_client[i].id = verify.id

(* verifier_state_deactivate leaves a state machine that is not VERIFYING  *)
(* alone because there is "no in-progress VERIFY request to deactivate":   *)
(* the plugin does not listen any more when the session releases it.       *)
NothingLeftToStop ==
    (Running("terminate") /\ state # "VERIFYING") => in_progress = NULL /\ starting = NULL

(* An accepted VERIFY is the one the plugin listens for until it completes *)
(* or is stopped: nothing of a STOP, or of the VERIFY before, reaches it.  *)
AcceptedVerifyKept ==
    (state = "VERIFYING" /\ descriptor /\ verify.method = "VERIFY" /\ ~StopPending
       /\ ~OnItsWay("VERIFICATION-COMPLETE", verify.id) /\ ~crashed)
        => Engaged(verify)
=============================================================================
