---------------------------- MODULE RecogChannel ----------------------------
(***************************************************************************)
(* A recognizer channel of the server: the recognizer state machine        *)
(* (mrcp_recog_state_machine.c), run by the server task, and the demo      *)
(* plugin (plugins/demo-recog/src/demo_recog_engine.c), whose request      *)
(* handlers run in a task of their own and whose demo_recog_stream_write   *)
(* runs in the media thread.                                               *)
(***************************************************************************)
EXTENDS ListenChannel

VARIABLES state, is_pending, recog, queue   \* of the state machine

machineVars == <<state, is_pending, recog, queue>>
vars == <<controlVars, machineVars, engine_queue, channelVars, inputVars, mediaVars>>

MachineInit == state = "IDLE" /\ is_pending = FALSE /\ recog = NULL /\ queue = <<>>

RecogInit == Init /\ MachineInit /\ ChannelInit /\ InputInit

(* recog_state_change: IDLE forgets the request *)
StateChange(new) ==
    /\ state' = new
    /\ recog' = IF new = "IDLE" THEN NULL ELSE recog
-----------------------------------------------------------------------------
(* recog_request_state_update *)

RequestDefineGrammar ==
    /\ Current.method = "DEFINE-GRAMMAR"
    /\ IF state = "RECOGNIZED" THEN StateChange("IDLE") ELSE UNCHANGED <<state, recog>>
    /\ ForwardIf(state # "RECOGNIZING")
    /\ UNCHANGED <<is_pending, queue>>

RequestRecognize ==
    /\ Current.method = "RECOGNIZE"
    /\ \/ /\ state = "RECOGNIZING"
          /\ queue' = Append(queue, Inherit(Current))
          /\ Answer("PENDING")
       \/ state # "RECOGNIZING" /\ Forward /\ UNCHANGED queue
    /\ UNCHANGED <<state, is_pending, recog>>

(* recog_pending_requests_remove *)
Remaining(stop) == SelectSeq(queue, LAMBDA request : ~Concerns(stop, request))

(* A STOP answered by the state machine on its own *)
RequestStopAtOnce ==
    /\ Current.method = "STOP"
    /\ IF state = "RECOGNIZED" THEN StateChange("IDLE") ELSE UNCHANGED <<state, recog>>
    /\ queue' = Remaining(Current)
    /\ Answer("COMPLETE")
    /\ UNCHANGED is_pending

RequestStop ==
    /\ Current.method = "STOP"
    /\ \/ /\ state = "RECOGNIZING" /\ Concerns(Current, recog)
          /\ Forward
          /\ UNCHANGED <<state, recog, queue>>
       \/ /\ ~(state = "RECOGNIZING" /\ Concerns(Current, recog))
          /\ IF state = "RECOGNIZED" THEN StateChange("IDLE") ELSE UNCHANGED <<state, recog>>
          /\ queue' = Remaining(Current)
          /\ Answer("COMPLETE")
    /\ UNCHANGED is_pending

RequestOther ==
    /\ \/ Current.method \in {"GET-PARAMS", "INTERPRET"} /\ Forward
       \/ Current.method = "GET-RESULT" /\ ForwardIf(state = "RECOGNIZED")
       \/ Current.method = "START-INPUT-TIMERS" /\ ForwardIf(state = "RECOGNIZING")
    /\ UNCHANGED machineVars

RequestUpdate ==
    /\ Running("request")
    /\ \/ Current.method = "SET-PARAMS" /\ SetParams /\ UNCHANGED machineVars
       \/ /\ RequestDefineGrammar \/ RequestRecognize \/ RequestStop \/ RequestOther
          /\ UNCHANGED properties
    /\ UNCHANGED <<task_queue, clientVars, channelVars, inputVars, mediaVars>>
-----------------------------------------------------------------------------
(* recog_response_state_update *)

(* A RECOGNIZE that leaves is_pending to the next one *)
ResponseRecognizeStaysPending ==
    /\ Current.method = "RECOGNIZE"
    /\ IF Current.state = "INPROGRESS"
       THEN recog' = sm_request /\ state' = "RECOGNIZING" ELSE UNCHANGED <<recog, state>>
    /\ IF is_pending THEN Ignore(Rest)
       ELSE ResponseDispatch(Current, Rest) /\ UNCHANGED properties
    /\ UNCHANGED <<queue, is_pending>>

(* A RECOGNIZE from the pending queue was answered PENDING when it was     *)
(* queued: nothing is sent, and it stays in active_request.                *)
ResponseRecognize ==
    /\ Current.method = "RECOGNIZE"
    /\ IF Current.state = "INPROGRESS"
       THEN recog' = sm_request /\ state' = "RECOGNIZING" ELSE UNCHANGED <<recog, state>>
    /\ is_pending' = FALSE
    /\ IF is_pending THEN Ignore(Rest)
       ELSE ResponseDispatch(Current, Rest) /\ UNCHANGED properties
    /\ UNCHANGED queue

(* The session goes on with its next request before the pending RECOGNIZE  *)
(* that was taken from the queue is dispatched.                            *)
ResponseStop ==
    /\ Current.method = "STOP"
    /\ StateChange("IDLE")
    /\ LET left == Remaining(sm_request)
       IN  \/ /\ left = <<>>
              /\ queue' = left
              /\ ResponseDispatch(Current, Rest)
           \/ /\ left # <<>>
              /\ queue' = Tail(left)
              /\ ResponseDispatch(Current, <<[Head(left) EXCEPT !.type = "pending"]>> \o Rest)
    /\ UNCHANGED <<is_pending, properties>>

ResponseOther ==
    /\ Current.method \notin {"RECOGNIZE", "STOP"}
    /\ ResponseDispatch(Current, Rest)
    /\ UNCHANGED <<machineVars, properties>>

ResponseUpdate ==
    /\ Running("response")
    /\ \/ ~Expected /\ Ignore(Rest) /\ UNCHANGED <<machineVars, crashed>>
       \/ /\ Expected /\ (Current.method = "STOP" => recog # NULL)
          /\ ResponseRecognize \/ ResponseStop \/ ResponseOther
          /\ UNCHANGED crashed
       \/ /\ Expected /\ Current.method = "STOP" /\ recog = NULL
          /\ Crash
          /\ UNCHANGED machineVars
    /\ UNCHANGED <<task_queue, clientVars, engine_queue, channelVars, inputVars, media_pc>>

DispatchPending(request) ==
    /\ is_pending' = TRUE
    /\ sm_request' = request
    /\ engine_queue' = Append(engine_queue, request)

(* The end of recog_response_stop *)
DispatchAfterStop ==
    /\ Running("pending")
    /\ DispatchPending([Current EXCEPT !.type = "request"])
    /\ todo' = Rest
    /\ UNCHANGED <<task_queue, sessionVars, active, properties, to_client, clientVars, state,
                   recog, queue, channelVars, inputVars, mediaVars>>
-----------------------------------------------------------------------------
(* recog_event_state_update *)

OfRecog == recog # NULL /\ recog.id = Current.id

StartOfInput ==
    /\ Current.method = "START-OF-INPUT"
    /\ IF OfRecog THEN EventDispatch(Current, Rest) /\ UNCHANGED properties ELSE Ignore(Rest)
    /\ UNCHANGED <<machineVars, engine_queue>>

(* A RECOGNITION-COMPLETE that is not held back while STOP is in progress *)
RecognitionCompleteDuringStop ==
    /\ Current.method = "RECOGNITION-COMPLETE"
    /\ IF OfRecog
       THEN StateChange("IDLE") /\ EventDispatch(Current, Rest) /\ UNCHANGED properties
       ELSE UNCHANGED <<state, recog>> /\ Ignore(Rest)
    /\ UNCHANGED <<queue, is_pending, engine_queue>>

RecognitionComplete ==
    /\ Current.method = "RECOGNITION-COMPLETE"
    /\ \/ /\ OfRecog /\ ~StopPending
          /\ StateChange("RECOGNIZED")
          /\ to_client' = IF active THEN Append(to_client, Current) ELSE to_client
          /\ todo' = Rest
          /\ \/ queue = <<>> /\ UNCHANGED <<queue, is_pending, sm_request, engine_queue>>
             \/ queue # <<>> /\ queue' = Tail(queue) /\ DispatchPending(Head(queue))
          /\ UNCHANGED <<sessionVars, active, properties>>
       \/ /\ ~OfRecog \/ StopPending
          /\ Ignore(Rest)
          /\ UNCHANGED <<machineVars, engine_queue>>

EventUpdate ==
    /\ Running("event")
    /\ StartOfInput \/ RecognitionComplete
    /\ UNCHANGED <<task_queue, clientVars, channelVars, inputVars, mediaVars>>

(* recog_state_deactivate *)
Deactivate ==
    /\ DeactivateChannel(IF state = "RECOGNIZING" THEN recog ELSE NULL)
    /\ UNCHANGED <<machineVars, inputVars>>
-----------------------------------------------------------------------------
Receive == TakeMessage /\ UNCHANGED <<machineVars, inputVars>>

ServerTask ==
    Receive \/ RequestUpdate \/ ResponseUpdate \/ DispatchAfterStop \/ EventUpdate \/ Deactivate

PluginTask == EngineTask("RECOGNIZE") /\ UNCHANGED machineVars

StreamWrite == MediaThread("RECOGNITION-COMPLETE") /\ UNCHANGED machineVars

Pending(i) == Told(i, "response", "RECOGNIZE", "PENDING")

(* The client asks nothing while a RECOGNIZE from the pending queue is on  *)
(* its way to the engine or waits for its answer.                          *)
MayAsk ==
    Quiet => /\ \A id \in 1 .. last_id : ~OnItsWay("RECOGNITION-COMPLETE", id)
             /\ \A i \in DOMAIN engine_queue : ~Answered(engine_queue[i].id)
             /\ \A id \in 1 .. last_id : OnItsWay("RECOGNIZE", id) => ~Answered(id)

Client ==
    /\ ~crashed
    /\ \/ MayAsk /\ \E method \in Method : ClientRequest(method, NULL)
       \/ MayAsk /\ \E param \in Param : ClientRequest("STOP", param)
       \/ ClientTerminate
    /\ UNCHANGED <<machineVars, engine_queue, channelVars, inputVars, mediaVars>>

Next == ServerTask \/ PluginTask \/ StreamWrite \/ Client

Spec == RecogInit /\ [][Next]_vars
-----------------------------------------------------------------------------
(* The values the fields of the session, the state machine and the plugin  *)
(* take.  The server task never has more in hand than one message and the  *)
(* pending RECOGNIZE that recog_response_stop has still to dispatch.       *)
TypeOK ==
    /\ ChannelTypeOK
    /\ Len(todo) <= 2
    /\ state \in {"IDLE", "RECOGNIZING", "RECOGNIZED"}
    /\ is_pending \in BOOLEAN
    /\ recog \in Message \cup {NULL}
    /\ queue \in Seq(Message)
    /\ timers_started \in BOOLEAN
    /\ voice \in BOOLEAN

(* recog_response_stop reads recog->start_line.request_id: whenever a      *)
(* response to STOP, the client's or the one of a deactivation, gets that  *)
(* far there is a RECOGNIZE, though RECOGNITION-COMPLETE may have come     *)
(* before it.                                                              *)
StopFindsRecog ==
    (Running("response") /\ Expected /\ Current.method = "STOP") => recog # NULL

(* is_pending is there to "indicate whether active_request was processed   *)
(* from pending request queue": the request that waits for the engine has  *)
(* been answered PENDING, and its response may be withheld.                *)
IsPendingAsDocumented ==
    is_pending => /\ sm_request # NULL
                  /\ \E i \in DOMAIN to_client : Pending(i) /\ to_client[i].id = sm_request.id

Completes(i) == Told(i, "event", "RECOGNITION-COMPLETE", "COMPLETE")

(* Results reach the client in the order of its RECOGNIZE requests, one    *)
(* for each at most, whether they went straight to the engine or through   *)
(* the pending queue.                                                      *)
ResultsInOrder ==
    \A i, j \in DOMAIN to_client :
        (i < j /\ Completes(i) /\ Completes(j)) => to_client[i].id < to_client[j].id

(* demo_recog_channel_stop says "make sure there is no more activity and   *)
(* only then send the response".  So nothing of a STOP reaches the next    *)
(* RECOGNIZE: the one the state machine has in progress is the one the     *)
(* plugin listens for, until it completes or is stopped.                   *)
AcceptedRecogKept ==
    (state = "RECOGNIZING" /\ ~StopPending /\ ~OnItsWay("RECOGNITION-COMPLETE", recog.id)
       /\ ~crashed)
        => Engaged(recog)

(* demo_recog_stream_write logs recog_request with a named event. *)
NoNullRequest == ~crashed
=============================================================================
