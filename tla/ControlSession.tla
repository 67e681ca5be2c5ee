--------------------------- MODULE ControlSession ---------------------------
(***************************************************************************)
(* The control path of one server session with one channel, common to the  *)
(* four resources: mrcp_server_session.c serialises the requests of the    *)
(* client, mrcp_state_machine.h is the base of the resource state machine  *)
(* between the session and the engine channel.                             *)
(*                                                                         *)
(* Everything here runs in the thread of the server task, which takes one  *)
(* message at a time from task_queue.  A handler may call itself: sending  *)
(* a response pops the next request of the session and dispatches it       *)
(* before the call returns.  todo is that call stack, innermost first; a   *)
(* message is taken from task_queue only when it is empty.                 *)
(***************************************************************************)
EXTENDS Integers, Sequences

CONSTANTS Method,      \* the methods the client uses
          Param,       \* values of the one header field SET-PARAMS carries
          NULL,
          MaxRequests  \* bound of the model: requests the client sends

ASSUME RequestsAssumption == MaxRequests \in Nat

VARIABLES task_queue,       \* messages signalled to the server task
          todo,             \* messages the running handler has to process
          active_request,   \* mrcp_server_session_t
          request_queue,    \* mrcp_server_session_t
          session_state,    \* mrcp_server_session_t.state
          subrequest_count, \* mrcp_server_session_t
          active,           \* mrcp_state_machine_t
          sm_request,       \* active_request of the resource state machine
          properties,       \* of the state machine: what SET-PARAMS stored
          to_client,        \* responses and events sent, oldest first
          last_id,          \* id of the last request the client sent
          hangup            \* the client has ended the session

sessionVars == <<active_request, request_queue, session_state, subrequest_count>>
clientVars == <<last_id, hangup>>
controlVars == <<task_queue, todo, sessionVars, active, sm_request, properties,
                 to_client, clientVars>>

Request(method, id, param) ==
    [type |-> "request", method |-> method, id |-> id, state |-> "COMPLETE",
     param |-> param]

Terminate ==
    [type |-> "terminate", method |-> "DEACTIVATE", id |-> 0, state |-> "COMPLETE",
     param |-> NULL]

(* mrcp_response_create: the id and the method are those of the request *)
Response(request, state) ==
    [type |-> "response", method |-> request.method, id |-> request.id,
     state |-> state, param |-> NULL]

(* mrcp_event_create *)
Event(request, method, state) ==
    [type |-> "event", method |-> method, id |-> request.id, state |-> state,
     param |-> NULL]

MessageType == {"request", "terminate", "response", "event",
                \* a request on its way through a handler of an engine
                "record_open", "record_reset", "record_respond", "record_start",
                \* a request taken from the pending queue of a state machine
                "pending"}

(* The methods and the events of the resources *)
MethodName == {"SET-PARAMS", "GET-PARAMS", "STOP", "START-INPUT-TIMERS", "START-OF-INPUT",
               "RECORD", "RECORD-COMPLETE",
               "SPEAK", "PAUSE", "RESUME", "BARGE-IN-OCCURRED", "CONTROL",
               "DEFINE-LEXICON", "SPEECH-MARKER", "SPEAK-COMPLETE",
               "DEFINE-GRAMMAR", "RECOGNIZE", "INTERPRET", "GET-RESULT",
               "RECOGNITION-COMPLETE",
               "START-SESSION", "END-SESSION", "QUERY-VOICEPRINT", "DELETE-VOICEPRINT",
               "VERIFY", "VERIFY-FROM-BUFFER", "VERIFY-ROLLBACK", "CLEAR-BUFFER",
               "GET-INTERMEDIATE-RESULT", "VERIFICATION-COMPLETE",
               "DEACTIVATE"}   \* no method: the end of the session

ASSUME MethodAssumption == Method \subseteq MethodName

Message == [type : MessageType, method : MethodName, id : Nat,
            state : {"COMPLETE", "INPROGRESS", "PENDING"}, param : Param \cup {NULL}]

ASSUME NullAssumption == NULL \notin Message /\ NULL \notin Param

Init ==
    /\ task_queue = <<>>
    /\ todo = <<>>
    /\ active_request = NULL
    /\ request_queue = <<>>
    /\ session_state = "INITIALIZING"
    /\ subrequest_count = 0
    /\ active = TRUE
    /\ sm_request = NULL
    /\ properties = NULL
    /\ to_client = <<>>
    /\ last_id = 0
    /\ hangup = FALSE
-----------------------------------------------------------------------------
(* apt_task_msg_signal: any thread appends to the queue of the server task *)
Signal(message) == task_queue' = Append(task_queue, message)

(* mrcp_server_message_signal, by the connection agent *)
ClientRequest(method, param) ==
    /\ ~hangup
    /\ last_id < MaxRequests
    /\ last_id' = last_id + 1
    /\ Signal(Request(method, last_id + 1, param))
    /\ UNCHANGED <<todo, sessionVars, active, sm_request, properties, to_client, hangup>>

(* mrcp_server_terminate_signal, by the signaling agent *)
ClientTerminate ==
    /\ ~hangup
    /\ hangup' = TRUE
    /\ Signal(Terminate)
    /\ UNCHANGED <<todo, sessionVars, active, sm_request, properties, to_client, last_id>>

(* The server task takes the next message of its queue. *)
Take(types) ==
    /\ todo = <<>>
    /\ task_queue # <<>>
    /\ Head(task_queue).type \in types
    /\ task_queue' = Tail(task_queue)
    /\ UNCHANGED <<session_state, subrequest_count, active, sm_request, properties,
                   to_client, clientVars>>

(* mrcp_server_signaling_message_process *)
ReceiveSignaling ==
    /\ Take({"request", "terminate"})
    /\ \/ /\ active_request # NULL
          /\ request_queue' = Append(request_queue, Head(task_queue))
          /\ UNCHANGED <<active_request, todo>>
       \/ /\ active_request = NULL
          /\ active_request' = Head(task_queue)
          /\ todo' = <<Head(task_queue)>>
          /\ UNCHANGED request_queue

(* mrcp_server_on_engine_channel_message *)
ReceiveEngineMessage ==
    /\ Take({"response", "event"})
    /\ todo' = <<Head(task_queue)>>
    /\ UNCHANGED <<active_request, request_queue>>
-----------------------------------------------------------------------------
(* What the handlers of a state machine call.  rest is what remains to do  *)
(* once the call returns.                                                  *)

(* A session that takes the youngest request of its queue. *)
SendResponseYoungest(message, rest) ==
    /\ to_client' = Append(to_client, message)
    /\ \/ /\ request_queue = <<>>
          /\ active_request' = NULL
          /\ todo' = rest
          /\ UNCHANGED request_queue
       \/ /\ request_queue # <<>>
          /\ active_request' = request_queue[Len(request_queue)]
          /\ todo' = <<request_queue[Len(request_queue)]>> \o rest
          /\ request_queue' = SubSeq(request_queue, 1, Len(request_queue) - 1)
    /\ UNCHANGED <<session_state, subrequest_count>>

(* state_machine_on_message_dispatch of a response: send it, then pop and  *)
(* dispatch the next request of the session                                *)
SendResponse(message, rest) ==
    /\ to_client' = Append(to_client, message)
    /\ \/ /\ request_queue = <<>>
          /\ active_request' = NULL
          /\ todo' = rest
          /\ UNCHANGED request_queue
       \/ /\ request_queue # <<>>
          /\ active_request' = Head(request_queue)
          /\ todo' = <<Head(request_queue)>> \o rest
          /\ request_queue' = Tail(request_queue)
    /\ UNCHANGED <<session_state, subrequest_count>>

(* state_machine_on_deactivate: mrcp_server_session_subrequest_remove; the *)
(* last subrequest of a session that is deactivating goes on to            *)
(* mrcp_server_session_terminate_process                                   *)
OnDeactivate(rest) ==
    /\ subrequest_count' = IF subrequest_count = 0 THEN 0 ELSE subrequest_count - 1
    /\ session_state' = IF subrequest_count = 1 /\ session_state = "DEACTIVATING"
                        THEN "TERMINATING" ELSE session_state
    /\ todo' = rest
    /\ UNCHANGED <<active_request, request_queue, to_client>>

(* recorder_response_dispatch and its twins *)
ResponseDispatch(message, rest) ==
    /\ sm_request' = NULL
    /\ IF active THEN SendResponse(message, rest) ELSE OnDeactivate(rest)
    /\ UNCHANGED active

(* recorder_event_dispatch and its twins *)
EventDispatch(message, rest) ==
    /\ to_client' = IF active THEN Append(to_client, message) ELSE to_client
    /\ todo' = rest
    /\ UNCHANGED <<sessionVars, active, sm_request>>

(* A message the state machine drops *)
Ignore(rest) ==
    /\ todo' = rest
    /\ UNCHANGED <<sessionVars, active, sm_request, properties, to_client>>

(* mrcp_server_session_deactivate: stop is the internal request the state  *)
(* machine dispatches, NULL when it has nothing to stop                    *)
DeactivateSession(stop, rest) ==
    /\ active' = FALSE
    /\ subrequest_count' = IF stop = NULL THEN 0 ELSE 1
    /\ session_state' = IF stop = NULL THEN "TERMINATING" ELSE "DEACTIVATING"
    /\ sm_request' = IF stop = NULL THEN sm_request ELSE stop
    /\ todo' = rest
    /\ UNCHANGED <<active_request, request_queue, properties, to_client>>

(* mrcp_header_fields_inherit, for the one header field of the model *)
Inherit(message) ==
    IF message.param = NULL THEN [message EXCEPT !.param = properties] ELSE message
-----------------------------------------------------------------------------
(* The part of a type invariant that concerns the variables above *)
ControlTypeOK ==
    /\ task_queue \in Seq(Message)
    /\ todo \in Seq(Message)
    /\ active_request \in Message \cup {NULL}
    /\ request_queue \in Seq(Message)
    /\ session_state \in {"INITIALIZING", "DEACTIVATING", "TERMINATING"}
    /\ subrequest_count \in 0 .. 1
    /\ active \in BOOLEAN
    /\ sm_request \in Message \cup {NULL}
    /\ properties \in Param \cup {NULL}
    /\ to_client \in Seq(Message)
    /\ last_id \in Nat
    /\ hangup \in BOOLEAN

Answered(id) == \E i \in DOMAIN to_client :
                    to_client[i].type = "response" /\ to_client[i].id = id

(* The session never answers a request twice and never answers two         *)
(* requests in another order than the client sent them, however engine     *)
(* responses, immediate responses and new requests interleave.             *)
ResponsesInOrder ==
    \A i, j \in DOMAIN to_client :
        (i < j /\ to_client[i].type = "response" /\ to_client[j].type = "response")
            => to_client[i].id < to_client[j].id

(* Every request of the client gets its response.  The engine interface    *)
(* says so of every request it is given: "asynchronous response MUST be    *)
(* sent".                                                                  *)
EveryRequestAnswered ==
    \A id \in 1 .. MaxRequests : (id <= last_id) ~> Answered(id)

(* A session the client has ended always gets to release its resources.    *)
SessionTerminates == hangup ~> (session_state = "TERMINATING")
=============================================================================
