----------------------------- MODULE RtspClient -----------------------------
(***************************************************************************)
(* An RTSP client session and its connection, rtsp_client.c: a request in  *)
(* progress, with its timer, requests pending behind it, the resources     *)
(* that are set up, and the termination that waits for the request and     *)
(* tears the resources down.  The client is one thread.                    *)
(*                                                                         *)
(* The functions of rtsp_client.c call each other with the session as an   *)
(* argument; here they are operators from a session to a session.  fault   *)
(* is what goes wrong while a task message or a stream is processed:       *)
(* nothing, the connect, or the generating and sending of messages.        *)
(***************************************************************************)
EXTENDS RtspLink, FiniteSets

CONSTANT Methods         \* bound: the methods the user chooses its n-th request from

ASSUME ClientAssumption ==
    /\ IsFiniteSet(Resources)
    /\ Methods \in [Ids -> SUBSET MethodIds]

VARIABLES request_timeout,  \* BOOLEAN: the client was configured with one
          requests,         \* number of requests the user has made
          session           \* rtsp_client_session_t, with its connection

clientVars == <<request_timeout, requests, session>>

NewSession ==
    [connection |-> "none",     \* then "open", "closed" without a socket, "destroyed"
     handle_table |-> FALSE,    \* the session is in the tables and the queue of its
     session_table |-> FALSE,   \* connection
     inprogress_request_queue |-> FALSE,
     last_cseq |-> 0,
     id |-> 0,
     active_request |-> NULL,
     pending_request_queue |-> <<>>,
     request_timer |-> FALSE,
     resource_table |-> {},
     term_state |-> "NONE",
     sent |-> <<>>,             \* messages sent by the current step
     answers |-> [n \in Ids |-> <<>>],  \* what the user was told: the responses to its
     user |-> "active"]         \* requests; "told" of a disconnect; "terminating",
                                \* "terminated"

ClientInit ==
    /\ request_timeout \in BOOLEAN
    /\ requests = 0
    /\ session = NewSession
-----------------------------------------------------------------------------
(* rtsp_client_connection_destroy *)
ConnectionDestroy(s) == [s EXCEPT !.connection = "destroyed"]

(* rtsp_client_session_terminate_respond; the user destroys the session *)
TerminateRespond(s) ==
    [s EXCEPT !.handle_table = FALSE, !.term_state = "NONE", !.user = "terminated"]

(* rtsp_client_request_push *)
RequestPush(s, r) ==
    [s EXCEPT !.inprogress_request_queue = TRUE, !.active_request = r,
              !.request_timer = request_timeout]

(* rtsp_client_connection_create, for a session that has no connection *)
Connected(s, fault) ==
    IF s.connection = "none" /\ fault # "connect"
    THEN [s EXCEPT !.connection = "open", !.handle_table = TRUE] ELSE s

(* Whether rtsp_client_session_request_process succeeds: there is an open  *)
(* connection, and rtsp_client_message_send does not fail.                 *)
Processed(s, fault) == Connected(s, fault).connection = "open" /\ fault # "send"

(* rtsp_client_session_request_process, if it succeeds *)
RequestProcess(s, fault, request) ==
    LET connected == Connected(s, fault)
        r == [request EXCEPT !.cseq = connected.last_cseq + 1, !.session_id = connected.id]
    IN  RequestPush([connected EXCEPT !.last_cseq = r.cseq, !.sent = Append(@, r)], r)

(* rtsp_client_session_response_process: a SETUP adds its resource, and    *)
(* the first one the session; a TEARDOWN removes its resource, and the     *)
(* last one the session.                                                   *)
ResponseProcess(s, request, response) ==
    LET setup == request.method = "SETUP" /\ response.status = "OK"
        added == [s EXCEPT !.resource_table = @ \cup {request.resource},
                           !.session_table = @ \/ s.resource_table = {},
                           !.id = IF s.resource_table = {} THEN response.session_id ELSE @]
        left == s.resource_table \ {request.resource}
        torn == [s EXCEPT !.resource_table = left, !.session_table = @ /\ left # {}]
        done == IF setup THEN added ELSE IF request.method = "TEARDOWN" THEN torn ELSE s
    IN  IF s.term_state = "INPROGRESS" THEN done
        ELSE [done EXCEPT !.answers[request.n] = Append(@, response)]

(* rtsp_client_session_response_process for each request of a queue, in a  *)
(* loop that answers all of them with errors                               *)
ErrorsProcess(s, queue, error) ==
    LET torn == {i \in DOMAIN queue : queue[i].method = "TEARDOWN"}
        left == s.resource_table \ {queue[i].resource : i \in torn}
        told == {queue[i].n : i \in DOMAIN queue}
    IN  [s EXCEPT !.resource_table = left,
                  !.session_table = @ /\ (torn = {} \/ left # {}),
                  !.answers = [n \in Ids |->
                     IF s.term_state # "INPROGRESS" /\ n \in told THEN Append(@[n], error[n]) ELSE @[n]]]

(* The requests of a queue are processed up to the first that succeeds;    *)
(* what fails for one of them, fails for all.  A request that fails has    *)
(* its CSeq nevertheless, if there is a connection.                        *)
RequestsProcess(s, fault, queue) ==
    LET tried == Connected(s, fault)
        numbered == [tried EXCEPT !.last_cseq = IF tried.connection = "none" THEN @
                                                ELSE @ + Len(queue)]
    IN  IF queue = <<>> THEN s
        ELSE IF Processed(s, fault)
        THEN [RequestProcess(s, fault, Head(queue)) EXCEPT !.pending_request_queue = @ \o Tail(queue)]
        ELSE ErrorsProcess(numbered, queue, [n \in Ids |-> Response([n |-> n, cseq |-> 0], "ERROR", 0)])

(* rtsp_client_session_message_process *)
MessageProcess(s, fault, request) ==
    IF s.active_request # NULL
    THEN [s EXCEPT !.pending_request_queue = Append(@, request)]
    ELSE RequestsProcess(s, fault, <<request>>)

PendingRequestsForgotten(s, fault) == [s EXCEPT !.pending_request_queue = <<>>]

(* rtsp_client_session_pending_requests_process *)
PendingRequestsProcess(s, fault) ==
    RequestsProcess([s EXCEPT !.pending_request_queue = <<>>], fault, s.pending_request_queue)

(* The resources of a table, as apr_hash_first and apr_hash_next find them *)
InOrder(table) ==
    CHOOSE order \in [1..Cardinality(table) -> table] :
       \A resource \in table : \E i \in DOMAIN order : order[i] = resource

(* rtsp_client_session_resources_teardown: a TEARDOWN for every resource,  *)
(* one after the other                                                     *)
ResourcesTeardown(s, fault) ==
    LET order == InOrder(s.resource_table)
    IN  RequestsProcess([s EXCEPT !.term_state = "INPROGRESS"], fault,
                        [i \in DOMAIN order |-> Request(0, "TEARDOWN", order[i], TRUE)])

(* The end of rtsp_client_session_terminate_process and of                 *)
(* rtsp_client_message_handler: the session is the only one of its         *)
(* connection.                                                             *)
RespondIfNoneLeft(s) ==
    IF s.resource_table = {} THEN ConnectionDestroy(TerminateRespond(s)) ELSE s

(* rtsp_client_session_terminate_process *)
TerminateProcess(s, fault) ==
    IF s.connection = "none" THEN [s EXCEPT !.user = "terminated"]
    ELSE IF s.active_request # NULL THEN [s EXCEPT !.term_state = "REQUESTED"]
    ELSE RespondIfNoneLeft(ResourcesTeardown(s, fault))

(* rtsp_client_message_handler with rtsp_client_request_pop *)
RequestPopAny(s, response) ==
    s.inprogress_request_queue /\ s.active_request # NULL
RequestPop(s, response) ==
    s.inprogress_request_queue /\ s.active_request # NULL /\ s.active_request.cseq = response.cseq

MessageHandler(s, fault, response) ==
    LET popped == [s EXCEPT !.active_request = NULL, !.inprogress_request_queue = FALSE,
                            !.request_timer = FALSE]
        next == PendingRequestsProcess(
                    ResponseProcess(popped, s.active_request, response), fault)
    IN  IF ~RequestPop(s, response) THEN s
        ELSE IF next.active_request # NULL \/ next.term_state = "NONE" THEN next
        ELSE IF next.term_state = "REQUESTED"
        THEN RespondIfNoneLeft(ResourcesTeardown(next, fault))
        ELSE RespondIfNoneLeft(next)

(* rtsp_client_request_cancel; the response has the CSeq of the request *)
RequestCancel(s, fault, status) ==
    IF s.active_request = NULL THEN s
    ELSE MessageHandler(s, fault, Response(s.active_request, status, 0))

(* rtsp_client_session_terminate_raise: the pending requests are answered  *)
(* with a response to the active one.                                      *)
TerminateRaise(s) ==
    LET cancelled == ErrorsProcess([s EXCEPT !.pending_request_queue = <<>>],
                                   s.pending_request_queue,
                                   [n \in Ids |-> Response(s.active_request, "ERROR", 0)])
    IN  IF s.term_state = "NONE"
        THEN [cancelled EXCEPT !.user = IF @ = "active" THEN "told" ELSE @]
        ELSE TerminateRespond(cancelled)

OnDisconnectTimed(s) ==
    LET closed == [s EXCEPT !.connection = "closed", !.inprogress_request_queue = FALSE]
    IN  IF s.handle_table /\ s.session_table THEN TerminateRaise(closed) ELSE closed

(* rtsp_client_on_disconnect: it takes the session off the queue of the    *)
(* requests in progress and then cancels its request, which                *)
(* rtsp_client_request_pop looks for on that queue.                        *)
OnDisconnect(s) ==
    LET closed == [s EXCEPT !.connection = "closed"]
        cancelled == IF ~s.inprogress_request_queue THEN closed
                     ELSE [RequestCancel([closed EXCEPT !.inprogress_request_queue = FALSE],
                                         "send", "ERROR") EXCEPT !.request_timer = FALSE]
    IN  IF cancelled.handle_table /\ cancelled.session_table THEN TerminateRaise(cancelled)
        ELSE cancelled
-----------------------------------------------------------------------------
(* What a step sends, and the connection it opens or closes *)
Becomes(s, rest) ==
    /\ session' = [s EXCEPT !.sent = <<>>]
    /\ link' = IF link = "none" /\ s.connection = "open" THEN "up"
               ELSE IF s.connection = "destroyed" THEN "down" ELSE link
    /\ toServer' = IF link' = "up" THEN toServer \o s.sent ELSE toServer
    /\ toClient' = IF link' = "up" THEN rest ELSE <<>>

Faults == {"none", "connect", "send"}

(* rtsp_client_session_request and TASK_MSG_SEND_MESSAGE; with bad, the    *)
(* user may send an ANNOUNCE the server cannot parse                       *)
ClientRequest(bad) ==
    /\ session.user \in {"active", "told"} /\ requests < MaxRequests
    /\ requests' = requests + 1
    /\ \E method \in Methods[requests'], resource \in Resources, good \in {TRUE, ~bad}, fault \in Faults :
          /\ method # "ANNOUNCE" => good
          /\ method \in {"TEARDOWN", "ANNOUNCE"} => resource \in session.resource_table
          /\ Becomes(MessageProcess(session, fault, Request(requests', method, resource, good)),
                     toClient)
    /\ UNCHANGED request_timeout

(* rtsp_client_session_terminate and TASK_MSG_TERMINATE_SESSION *)
ClientTerminate ==
    /\ session.user \in {"active", "told"}
    /\ \E fault \in {"none", "send"} :
          Becomes(TerminateProcess([session EXCEPT !.user = "terminating"], fault), toClient)
    /\ UNCHANGED <<request_timeout, requests>>

(* rtsp_client_poller_signal_process, a message received: a response, or   *)
(* an event of the server, which is answered and passed to the user if it  *)
(* is of the session                                                       *)
ClientReceive ==
    /\ session.connection = "open" /\ toClient # <<>>
    /\ LET m == Head(toClient)
       IN  IF m.type = "EVENT"
           THEN Becomes([session EXCEPT !.sent = <<Acknowledgement>>], Tail(toClient))
           ELSE \E fault \in {"none", "send"} :
                   Becomes(MessageHandler(session, fault, m), Tail(toClient))
    /\ UNCHANGED <<request_timeout, requests>>

(* rtsp_client_poller_signal_process, the connection closed or reset *)
ClientDisconnect ==
    /\ session.connection = "open" /\ link = "down"
    /\ session' = OnDisconnect(session)
    /\ UNCHANGED <<linkVars, request_timeout, requests>>

(* rtsp_client_timer_proc *)
ClientTimer ==
    /\ session.request_timer
    /\ \E fault \in {"none", "send"} : Becomes(RequestCancel(session, fault, "TIMEOUT"), toClient)
    /\ UNCHANGED <<request_timeout, requests>>

ClientStep == ClientReceive \/ ClientDisconnect \/ ClientTimer
ClientNext(bad) == ClientRequest(bad) \/ ClientTerminate \/ ClientStep
=============================================================================
