------------------------------ MODULE RtspLink ------------------------------
(***************************************************************************)
(* The TCP connection between an RTSP client session and an RTSP server,   *)
(* and the messages on it.  Every client session makes a connection of its *)
(* own, rtsp_client_session_request_process.                               *)
(***************************************************************************)
EXTENDS Naturals, Sequences

CONSTANTS Resources,    \* resources a session may set up
          MaxRequests,  \* bound: requests of the user of the client
          NULL

VARIABLES link,      \* "none" before the connection, then "up", then "down"
          toServer,  \* messages sent and not received, by direction
          toClient

linkVars == <<link, toServer, toClient>>

(* The n-th request of the user, or 0 for one the client makes itself.  An *)
(* ANNOUNCE is good if the server can parse what it carries.               *)
Request(n, method, resource, good) ==
    [type |-> "REQUEST", n |-> n, method |-> method, resource |-> resource, good |-> good,
     cseq |-> 0, session_id |-> 0]

Response(request, status, id) ==
    [type |-> "RESPONSE", n |-> request.n, cseq |-> request.cseq, status |-> status,
     session_id |-> id]

Announce(resource) == [type |-> "EVENT", resource |-> resource]

(* What the client answers an event with *)
Acknowledgement == [type |-> "RESPONSE"]

(* The server has a session for a user's request at the most. *)
Ids == 1..MaxRequests

MethodIds == {"SETUP", "DESCRIBE", "ANNOUNCE", "TEARDOWN"}
Requests == [type : {"REQUEST"}, n : Nat, method : MethodIds, resource : Resources,
             good : BOOLEAN, cseq : Nat, session_id : Nat]
Responses == [type : {"RESPONSE"}, n : Nat, cseq : Nat, status : {"OK", "ERROR", "TIMEOUT"},
              session_id : Nat]
Events == [type : {"EVENT"}, resource : Resources]

ASSUME LinkAssumption ==
    /\ MaxRequests \in Nat
    /\ NULL \notin Requests /\ NULL \notin Responses /\ NULL \notin Events

(* Either host, or the network between them, fails. *)
LinkFails ==
    /\ link = "up"
    /\ link' = "down" /\ toServer' = <<>> /\ toClient' = <<>>
=============================================================================
