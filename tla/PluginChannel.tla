---------------------------- MODULE PluginChannel ----------------------------
(***************************************************************************)
(* What the synthesizer, the recognizer and the verifier have in common:   *)
(* the helpers of their state machines, run by the server task, and the    *)
(* frame of the demo plugins.  A demo plugin processes requests in a task  *)
(* of its own and answers STOP from the media thread; the two share the    *)
(* fields of the channel without a lock.                                   *)
(***************************************************************************)
EXTENDS ControlSession

CONSTANTS MediaPrompt, \* TRUE: the stream callback of the plugin returns before
                       \* the server task takes its next message
          Quiet        \* TRUE: the client sends nothing between the end of a
                       \* request and the start of the pending one after it

VARIABLES engine_queue,  \* requests signalled to the task of the plugin
          starting,      \* a request that the plugin has answered IN-PROGRESS
                         \* and not stored yet
          in_progress,   \* speak_request, recog_request, verifier_request
          stop_response, \* of the channel of the plugin
          descriptor,    \* the channel has a codec descriptor
          media_pc,      \* where the media thread is in the stream callback
          crashed        \* a thread has dereferenced NULL

channelVars == <<starting, in_progress, stop_response, descriptor>>
mediaVars == <<media_pc, crashed>>

ChannelInit ==
    /\ engine_queue = <<>>
    /\ starting = NULL
    /\ in_progress = NULL
    /\ stop_response = NULL
    /\ descriptor \in BOOLEAN
    /\ media_pc = "start"
    /\ crashed = FALSE

(* The handler the server task runs next, and what remains after it *)
Current == Head(todo)
Rest == Tail(todo)
Running(type) == todo # <<>> /\ Current.type = type /\ ~crashed
-----------------------------------------------------------------------------
(* Helpers of the state machines *)

(* synth_request_dispatch and its twins: the request is signalled to the   *)
(* task of the plugin.                                                     *)
Forward ==
    /\ sm_request' = Current
    /\ engine_queue' = Append(engine_queue, Current)
    /\ todo' = Rest
    /\ UNCHANGED <<sessionVars, active, to_client>>

(* A response without the engine *)
Answer(request_state) ==
    /\ ResponseDispatch(Response(Current, request_state), Rest)
    /\ UNCHANGED engine_queue

ForwardIf(condition) ==
    \/ condition /\ Forward
    \/ ~condition /\ Answer("COMPLETE")

SetParams ==
    /\ properties' = IF Current.param = NULL THEN properties ELSE Current.param
    /\ Forward

(* A response is processed if it is the one the state machine waits for. *)
Expected == sm_request # NULL /\ sm_request.id = Current.id

StopPending == sm_request # NULL /\ sm_request.method = "STOP"

(* Active-Request-Id-List, of one id: without it STOP concerns them all *)
Concerns(stop, request) == stop.param \in {NULL, request.id}

Crash ==
    /\ crashed' = TRUE
    /\ UNCHANGED <<todo, sessionVars, active, sm_request, properties, to_client>>

(* mrcp_server_session_deactivate with the deactivation of the state       *)
(* machine, which stops source if there is one                             *)
DeactivateChannel(source) ==
    /\ Running("terminate")
    /\ LET stop == IF source = NULL THEN NULL ELSE Request("STOP", source.id + 1, NULL)
       IN  /\ DeactivateSession(stop, Rest)
           /\ engine_queue' = IF stop = NULL THEN engine_queue ELSE Append(engine_queue, stop)
    /\ UNCHANGED <<task_queue, clientVars, channelVars, mediaVars>>

(* The server task takes a message from its queue. *)
TakeMessage ==
    /\ ~crashed
    /\ MediaPrompt => media_pc = "start"
    /\ ReceiveSignaling \/ ReceiveEngineMessage
    /\ UNCHANGED <<engine_queue, channelVars, mediaVars>>
-----------------------------------------------------------------------------
(* The task of the plugin *)

EngineTake ==
    /\ ~crashed
    /\ starting = NULL
    /\ engine_queue # <<>>
    /\ engine_queue' = Tail(engine_queue)
    /\ UNCHANGED <<todo, sessionVars, active, sm_request, properties, to_client, clientVars,
                   in_progress, descriptor, mediaVars>>

(* SPEAK, RECOGNIZE and VERIFY: without a descriptor the request fails. *)
EngineAccept(request) ==
    \/ /\ descriptor
       /\ starting' = request
       /\ Signal(Response(request, "INPROGRESS"))
       /\ UNCHANGED stop_response
    \/ /\ ~descriptor
       /\ Signal(Response(request, "COMPLETE"))
       /\ UNCHANGED <<starting, stop_response>>

(* The response to STOP is left to the media thread. *)
EngineStop(request) ==
    /\ stop_response' = Response(request, "COMPLETE")
    /\ UNCHANGED <<task_queue, starting>>

EngineAnswer(request) ==
    /\ Signal(Response(request, "COMPLETE"))
    /\ UNCHANGED <<starting, stop_response>>

(* The end of demo_synth_channel_speak and its twins: the response has     *)
(* left already.                                                           *)
EngineStart ==
    /\ ~crashed
    /\ starting # NULL
    /\ in_progress' = starting
    /\ starting' = NULL
    /\ UNCHANGED <<controlVars, engine_queue, stop_response, descriptor, mediaVars>>
-----------------------------------------------------------------------------
(* The stream callback, called by the media thread for every frame *)

Media(from, to) ==
    /\ ~crashed
    /\ media_pc = from
    /\ media_pc' = to
    /\ UNCHANGED <<todo, sessionVars, active, sm_request, properties, to_client, clientVars,
                   engine_queue, starting, descriptor>>

(* The response to STOP is sent before the request it stops is cleared. *)
MediaStopRespond ==
    /\ Media("start", "stop_response")
    /\ stop_response # NULL
    /\ Signal(stop_response)
    /\ UNCHANGED <<in_progress, stop_response, crashed>>

MediaStopClear ==
    /\ Media("stop_response", "in_progress")
    /\ stop_response' = NULL
    /\ UNCHANGED <<task_queue, in_progress, crashed>>

MediaRequestClear ==
    /\ Media("in_progress", "start")
    /\ in_progress' = NULL
    /\ UNCHANGED <<task_queue, stop_response, crashed>>
-----------------------------------------------------------------------------
(* The part of a type invariant that concerns the variables above *)
ChannelTypeOK ==
    /\ ControlTypeOK
    /\ engine_queue \in Seq(Message)
    /\ starting \in Message \cup {NULL}
    /\ in_progress \in Message \cup {NULL}
    /\ stop_response \in Message \cup {NULL}
    /\ descriptor \in BOOLEAN
    /\ media_pc \in {"start", "stop_response", "in_progress"}
    /\ crashed \in BOOLEAN

(* A message with this method and id is on its way to the state machine. *)
OnItsWay(method, id) ==
    \E message \in {task_queue[i] : i \in DOMAIN task_queue} \cup {todo[i] : i \in DOMAIN todo} :
        message.method = method /\ message.id = id

(* The plugin works on this request, or is about to. *)
Engaged(request) ==
    \E other \in {in_progress, starting} : other # NULL /\ other.id = request.id

Told(i, type, method, request_state) ==
    /\ to_client[i].type = type
    /\ to_client[i].method = method
    /\ to_client[i].state = request_state

(* Once STOP is answered the client hears no more of what it has stopped:  *)
(* neither the state machine, which forwards events of the request it      *)
(* remembers, nor the media thread lets an event out after the response.   *)
NothingAfterStop ==
    \A i, j \in DOMAIN to_client :
        (i < j /\ Told(i, "response", "STOP", "COMPLETE") /\ to_client[j].type = "event")
            => to_client[j].id > to_client[i].id
=============================================================================
