-------------------------------- MODULE Rtsp --------------------------------
(***************************************************************************)
(* The MRCPv1 signalling path: an RTSP client session, the RTSP server and *)
(* the connection between them, which may fail.                            *)
(***************************************************************************)
EXTENDS RtspClient, RtspServer

VARIABLE orderly     \* BOOLEAN: the connection does not fail, the server parses what it
                     \* is sent and answers in time

vars == <<orderly, linkVars, clientVars, serverVars>>

Init ==
    /\ link = "none" /\ toServer = <<>> /\ toClient = <<>>
    /\ ClientInit /\ ServerInit
    /\ orderly \in BOOLEAN /\ (orderly => ~request_timeout)

Next ==
    /\ \/ ClientNext(~orderly) /\ UNCHANGED serverVars
       \/ ServerNext /\ UNCHANGED clientVars
       \/ ~orderly /\ LinkFails /\ UNCHANGED <<clientVars, serverVars>>
    /\ UNCHANGED orderly

Spec == Init /\ [][Next]_vars

(* The two RTSP tasks and the MRCP server run, and timers elapse; a user   *)
(* that is done with a session terminates it.                              *)
FairSpec ==
    /\ Spec
    /\ WF_vars(ClientStep /\ UNCHANGED <<orderly, serverVars>>)
    /\ WF_vars(ServerStep /\ UNCHANGED <<orderly, clientVars>>)
    /\ WF_vars(MrcpStep /\ UNCHANGED <<orderly, clientVars>>)
    /\ WF_vars(ClientTerminate /\ UNCHANGED <<orderly, serverVars>>)
-----------------------------------------------------------------------------
(* The user gets at most one answer to a request, and one that comes from  *)
(* the server is the answer to that request, however late other answers    *)
(* arrive: the client times requests out, goes on with the next, and       *)
(* matches a response by its CSeq in rtsp_client_request_pop.              *)
AnsweredOnceByItsOwn ==
    \A n \in Ids :
       LET answer == session.answers[n]
       IN  /\ Len(answer) <= 1
           /\ \A i \in 1..Len(answer) : answer[i].status = "OK" => answer[i].n = n

(* The queue of the requests in progress, the active request and its timer *)
(* agree, and requests are pending only behind an active one, which        *)
(* rtsp_client_session_terminate_raise relies on when it answers them.     *)
InProgressIsWatched ==
    /\ session.inprogress_request_queue => session.active_request # NULL
    /\ session.pending_request_queue # <<>> => session.active_request # NULL
    /\ session.request_timer <=> (request_timeout /\ session.inprogress_request_queue)

(* The server destroys no connection that has sessions, and, when all is   *)
(* orderly, tells an MRCP session to terminate once and destroys an RTSP   *)
(* session when nothing is signalled to it any more.  (When the connection *)
(* closes while the answer to a DESCRIBE, or a refusal of the first SETUP, *)
(* is signalled, rtsp_server_connection_close and                          *)
(* rtsp_server_session_response_process both tell it to.)                  *)
SessionsEndOnce ==
    /\ connection \in {"none", "destroyed"} => Live = {}
    /\ orderly =>
          \A id \in Ids :
             /\ sessions[id].terminations <= 1
             /\ sessions[id].state = "destroyed" =>
                   sessions[id].tasks = <<>> /\ sessions[id].work = <<>>

(* When all is orderly, every request is answered and the termination of   *)
(* the session completes.                                                  *)
ServedWhenOrderly ==
    <>[](orderly => /\ session.user = "terminated"
                    /\ \A n \in 1..requests : session.answers[n] # <<>>)

(* The server gets rid of the sessions and the connection of a client,     *)
(* whether the connection fails, messages are late or cannot be parsed, if *)
(* the client times its requests out: rtsp_server_connection_close and     *)
(* rtsp_server_session_do_terminate.                                       *)
ServerCleared ==
    <>[](orderly \/ request_timeout => connection \in {"none", "destroyed"})
=============================================================================
