----------------------------- MODULE RtspServer -----------------------------
(***************************************************************************)
(* The RTSP server, rtsp_server.c, on one connection, and what the MRCPv1  *)
(* signalling agent of the server, mrcp_unirtsp_server_agent.c, does with  *)
(* its sessions: it passes their requests to MRCP sessions, which run in   *)
(* the server task and answer later.  The RTSP server is one thread; what  *)
(* the MRCP sessions signal to it waits in tasks, what it signals to them  *)
(* in work.                                                                *)
(***************************************************************************)
EXTENDS RtspLink

CONSTANTS MaxEvents     \* bound: events of the server

VARIABLES connection,   \* "none", then "open", "closed" without a socket, "destroyed"
          sessions,     \* rtsp_server_session_t, by id
          events        \* number of events sent

serverVars == <<connection, sessions, events>>

NoSession ==
    [state |-> "none",       \* then "live", in the table of the connection, "destroyed"
     active_request |-> NULL,
     request_queue |-> <<>>,
     resource_table |-> {},
     terminating |-> FALSE,
     obj |-> FALSE,          \* it has an MRCP session
     work |-> <<>>,          \* for the MRCP session: requests, NULL to terminate
     tasks |-> <<>>,         \* for the RTSP server: responses, events, NULL to terminate
     terminations |-> 0]     \* times the MRCP session was told to terminate

ServerInit ==
    /\ connection = "none" /\ events = 0
    /\ sessions = [id \in Ids |-> NoSession]
-----------------------------------------------------------------------------
(* Operators from a session to a session and the messages it sends *)
With(s, out) == [session |-> s, out |-> out]

(* rtsp_server_session_terminate_request and mrcp_unirtsp_session_terminate *)
TerminateRequest(s) ==
    IF s.obj THEN [s EXCEPT !.terminating = TRUE, !.work = Append(@, NULL),
                            !.terminations = @ + 1]
    ELSE [s EXCEPT !.terminating = TRUE]

(* mrcp_unirtsp_message_handle: whether the message could be handled *)
Handled(s, m) == s.obj /\ m.good

(* ... and what it signals, to the MRCP session or back to the server *)
UnirtspHandle(s, m) ==
    IF m.method = "DESCRIBE" THEN [s EXCEPT !.tasks = Append(@, Response(m, "OK", 0))]
    ELSE [s EXCEPT !.work = Append(@, m)]

(* rtsp_server_session_message_handle: a message that cannot be handled is *)
(* answered, but stays the active request.                                 *)
MessageHandle(s, id, m) ==
    LET left == s.resource_table \ {m.resource}
        torn == IF m.method = "TEARDOWN" THEN [s EXCEPT !.resource_table = left] ELSE s
    IN  IF m.method = "TEARDOWN" /\ left = {} THEN With(TerminateRequest(torn), <<>>)
        ELSE IF Handled(torn, m) THEN With(UnirtspHandle(torn, m), <<>>)
        ELSE With(torn, <<Response(m, "ERROR", 0)>>)

(* rtsp_server_session_request_process, for a session that exists *)
SessionRequest(s, id, m) ==
    IF s.terminating THEN With(s, <<Response(m, "ERROR", 0)>>)
    ELSE IF s.active_request # NULL
    THEN With([s EXCEPT !.request_queue = Append(@, m)], <<>>)
    ELSE MessageHandle([s EXCEPT !.active_request = m], id, m)

(* rtsp_server_session_response_process: a DESCRIBE, or a SETUP that fails *)
(* and leaves the session without resources, ends the session.             *)
SessionResponse(s, id, response) ==
    LET request == s.active_request
        setup == request.method = "SETUP"
        terminate == \/ request.method = "DESCRIBE"
                     \/ setup /\ response.status # "OK" /\ s.resource_table = {}
        added == IF setup /\ response.status = "OK"
                 THEN [s EXCEPT !.resource_table = @ \cup {request.resource}] ELSE s
        sent == <<[response EXCEPT !.session_id = IF request.method = "DESCRIBE" THEN 0 ELSE id]>>
        queue == s.request_queue
        next == MessageHandle([added EXCEPT !.active_request = Head(queue),
                                            !.request_queue = Tail(queue)], id, Head(queue))
    IN  IF s.active_request = NULL THEN With(s, <<>>)
        ELSE IF terminate
        THEN With(TerminateRequest([added EXCEPT !.active_request = NULL]), sent)
        ELSE IF queue = <<>> THEN With([added EXCEPT !.active_request = NULL], sent)
        ELSE With(next.session, sent \o next.out)
-----------------------------------------------------------------------------
(* rtsp_server_message_send: nothing is sent without a socket *)
Sends(out) ==
    toClient' = IF connection = "open" /\ link = "up" THEN toClient \o out ELSE toClient

SetSession(id, result) ==
    /\ sessions' = [sessions EXCEPT ![id] = result.session]
    /\ Sends(result.out)

(* rtsp_server_connection_accept *)
ServerAccept ==
    /\ connection = "none" /\ link = "up"
    /\ connection' = "open"
    /\ UNCHANGED <<linkVars, sessions, events>>

Live == {id \in Ids : sessions[id].state = "live"}
Unused == {id \in Ids : sessions[id].state = "none"}

(* rtsp_server_message_handler and rtsp_server_session_request_process: a  *)
(* message without a session id makes a session, if it is a SETUP or a     *)
(* DESCRIBE and the MRCP server takes one; a session that cannot handle it *)
(* would be destroyed, which no good message of these two can cause.       *)
ServerReceive ==
    /\ connection = "open" /\ toServer # <<>>
    /\ toServer' = Tail(toServer)
    /\ LET m == Head(toServer)
           error == Response(m, "ERROR", 0)
           fresh == [NoSession EXCEPT !.state = "live", !.obj = TRUE, !.active_request = m]
       IN  \/ m.type = "RESPONSE" /\ UNCHANGED <<toClient, sessions>>
           \/ /\ m.type = "REQUEST" /\ m.session_id = 0
              /\ \/ Sends(IF m.method \in {"SETUP", "DESCRIBE"} THEN <<error>> ELSE <<error, error>>)
                    /\ UNCHANGED sessions
                 \/ /\ m.method \in {"SETUP", "DESCRIBE"}
                    /\ \E id \in Unused :
                          /\ \A other \in Unused : id <= other
                          /\ SetSession(id, MessageHandle(fresh, id, m))
           \/ /\ m.type = "REQUEST" /\ m.session_id # 0
              /\ IF m.session_id \in Live
                 THEN SetSession(m.session_id, SessionRequest(sessions[m.session_id], m.session_id, m))
                 ELSE Sends(<<error>>) /\ UNCHANGED sessions
    /\ UNCHANGED <<link, connection, events>>

ServerCloseAgain ==
    /\ connection = "open" /\ link = "down" /\ toServer = <<>>
    /\ connection' = IF Live = {} THEN "destroyed" ELSE "closed"
    /\ sessions' = [id \in Ids |->
          IF id \in Live THEN TerminateRequest(sessions[id]) ELSE sessions[id]]
    /\ UNCHANGED <<linkVars, events>>

(* rtsp_server_connection_close *)
ServerClose ==
    /\ connection = "open" /\ link = "down" /\ toServer = <<>>
    /\ connection' = IF Live = {} THEN "destroyed" ELSE "closed"
    /\ sessions' = [id \in Ids |->
          IF id \in Live /\ ~sessions[id].terminating THEN TerminateRequest(sessions[id])
          ELSE sessions[id]]
    /\ UNCHANGED <<linkVars, events>>

DoTerminateKeeping(id) ==
    LET s == sessions[id]
    IN  /\ Sends(IF s.active_request = NULL THEN <<>> ELSE <<Response(s.active_request, "OK", id)>>)
        /\ sessions' = [sessions EXCEPT ![id].state = "destroyed", ![id].tasks = Tail(@)]
        /\ UNCHANGED connection

(* rtsp_server_session_do_terminate *)
DoTerminate(id) ==
    LET s == sessions[id]
    IN  /\ Sends(IF s.active_request = NULL THEN <<>> ELSE <<Response(s.active_request, "OK", id)>>)
        /\ sessions' = [sessions EXCEPT ![id].state = "destroyed", ![id].tasks = Tail(@)]
        /\ connection' = IF connection = "closed" /\ Live = {id} THEN "destroyed" ELSE connection

(* rtsp_server_task_msg_process; an event of a resource that is not set up *)
(* is dropped                                                              *)
ServerTask(id) ==
    /\ sessions[id].tasks # <<>>
    /\ LET task == Head(sessions[id].tasks)
           s == [sessions[id] EXCEPT !.tasks = Tail(@)]
       IN  IF task = NULL THEN DoTerminate(id)
           ELSE /\ IF task.type = "EVENT"
                   THEN SetSession(id, With(s, IF task.resource \in s.resource_table THEN <<task>> ELSE <<>>))
                   ELSE SetSession(id, SessionResponse(s, id, task))
                /\ UNCHANGED connection
    /\ UNCHANGED <<link, toServer, events>>

(* The MRCP session: it answers its requests in order, with a response to  *)
(* the request that is active when it answers, a SETUP with either status, *)
(* and its last signal is that it has terminated;                          *)
(* mrcp_unirtsp_on_session_answer, ..._control and ..._terminate.          *)
MrcpSession(id) ==
    /\ sessions[id].obj /\ sessions[id].work # <<>>
    /\ LET request == sessions[id].active_request
       IN  IF Head(sessions[id].work) = NULL
           THEN sessions' = [sessions EXCEPT ![id].work = Tail(@), ![id].obj = FALSE,
                                             ![id].tasks = Append(@, NULL)]
           ELSE \E status \in {"OK"} \cup (IF request.method = "SETUP" THEN {"ERROR"} ELSE {}) :
                   sessions' = [sessions EXCEPT ![id].work = Tail(@),
                                   ![id].tasks = Append(@, Response(request, status, 0))]
    /\ UNCHANGED <<linkVars, connection, events>>

MrcpEvent(id) ==
    /\ sessions[id].obj /\ events < MaxEvents
    /\ events' = events + 1
    /\ \E resource \in Resources :
          sessions' = [sessions EXCEPT ![id].tasks = Append(@, Announce(resource))]
    /\ UNCHANGED <<linkVars, connection>>

ServerStep == ServerAccept \/ ServerReceive \/ ServerClose \/ \E id \in Ids : ServerTask(id)
MrcpStep == \E id \in Ids : MrcpSession(id)
ServerNext == ServerStep \/ MrcpStep \/ \E id \in Ids : MrcpEvent(id)
=============================================================================
