---------------------------- MODULE ClientSession ----------------------------
(***************************************************************************)
(* A session of the client, mrcp_client_session.c: the requests of the     *)
(* application are queued and dispatched one at a time; adding a channel   *)
(* generates an offer, the answer to it is processed, and a termination    *)
(* takes everything down.  Each of these sends subrequests to the          *)
(* connection agent, the media engine and the signalling agent, three      *)
(* other threads, and counts them in subrequest_count; the last response   *)
(* sends the offer or answers the application.                             *)
(*                                                                         *)
(* The session runs in the client task.  Its functions call each other     *)
(* with the session as an argument; here they are operators from a session *)
(* to a session.                                                           *)
(***************************************************************************)
EXTENDS Naturals, Sequences, FiniteSets, SequencesExt

CONSTANTS Channels, MaxRequests, NULL

VARIABLES version,   \* mrcp_version of the profile, 1 or 2
          media,     \* BOOLEAN: the channels have media terminations
          world,     \* "orderly"; "closing": the server may close the session;
                     \* "undiscoverable": it may not answer a SIP OPTIONS request
          requests,  \* number of requests of the application
          session

vars == <<version, media, world, requests, session>>

MaxMessageCount == 5   \* MAX_MPF_MESSAGE_COUNT

NewSession ==
    [state |-> "NONE", status |-> "SUCCESS", subrequest_count |-> 0,
     active_request |-> NULL, request_queue |-> <<>>,
     registered |-> FALSE, disconnected |-> FALSE,
     offer |-> FALSE, resource_state |-> FALSE, id |-> FALSE, context |-> FALSE,
     channels |-> <<>>,
     waiting_for_channel |-> {}, waiting_for_termination |-> {},
     waiting |-> {},        \* channels whose RTP termination slot is waiting
     agent |-> {},          \* what the connection agent has to answer
     media_queue |-> <<>>,  \* of the media engine: containers of messages
     signaling |-> <<>>,    \* what the signalling agent has to answer
     answers |-> [n \in 1..MaxRequests |-> <<>>],
     removed |-> FALSE,     \* from the table of the client
     terminated |-> FALSE,  \* the application was told so, and may destroy the session
     late |-> FALSE]        \* a response was processed after that

Init ==
    /\ version \in {1, 2} /\ media \in BOOLEAN
    /\ world \in {"orderly", "closing", "undiscoverable"}
    /\ requests = 0
    /\ session = NewSession
-----------------------------------------------------------------------------
(* mrcp_client_session_state_set, ..._subrequest_add and                   *)
(* ..._subrequest_remove, which is TRUE for the last one                   *)
StateSet(s, state) == [s EXCEPT !.state = state, !.subrequest_count = 0]
SubrequestAdd(s, n) == [s EXCEPT !.subrequest_count = @ + n]
IsLast(s) == s.subrequest_count = 1
SubrequestRemove(s) ==
    [s EXCEPT !.subrequest_count = IF @ = 0 THEN 0 ELSE @ - 1]

(* The messages of a handler, in containers of MAX_MPF_MESSAGE_COUNT:      *)
(* mpf_engine_message_get and mpf_engine_message_send                      *)
Containers(messages) ==
    [i \in 1..((Len(messages) + MaxMessageCount - 1) \div MaxMessageCount) |->
        SubSeq(messages, (i - 1) * MaxMessageCount + 1,
               IF i * MaxMessageCount <= Len(messages) THEN i * MaxMessageCount ELSE Len(messages))]

(* ..., each of them a subrequest *)
MediaSend(s, messages) ==
    SubrequestAdd([s EXCEPT !.media_queue = @ \o Containers(messages)], Len(messages))

Topology(command) == <<[command |-> command, channel |-> NULL]>>
OfTermination(command, c) == [command |-> command, channel |-> c, rtp |-> FALSE]
OfSlot(command, c) == [command |-> command, channel |-> c, rtp |-> TRUE]

(* Requests to the connection agent for the control channels of cs *)
AgentSend(s, op, cs) ==
    SubrequestAdd([s EXCEPT !.waiting_for_channel = @ \cup cs,
                            !.agent = @ \cup {[op |-> op, channel |-> c] : c \in cs}],
                  Cardinality(cs))

(* mrcp_client_session_offer_send *)
OfferSend(s) == [s EXCEPT !.signaling = Append(@, "OFFER")]

(* The handler of the application gets the response to the active request. *)
Respond(s, status) ==
    [s EXCEPT !.active_request = NULL,
              !.answers[s.active_request.n] = Append(@, status),
              !.terminated = @ \/ s.active_request.kind = "TERMINATE"]
-----------------------------------------------------------------------------
RECURSIVE Dispatch(_, _)

(* The next request of the queue.  The session is registered then. *)
NextRequest(s) ==
    IF s.request_queue = <<>> THEN s
    ELSE Dispatch([s EXCEPT !.active_request = Head(s.request_queue),
                            !.request_queue = Tail(@)], TRUE)

(* mrcp_app_sig_response_raise *)
SigResponseRaise(s, process_pending_requests) ==
    LET status == IF s.disconnected THEN "TERMINATE" ELSE s.status
        responded == Respond([s EXCEPT !.status = status], status)
    IN  IF s.active_request = NULL THEN s
        ELSE IF process_pending_requests THEN NextRequest(responded) ELSE responded

(* mrcp_app_session_terminate_raise *)
TerminateRaise(s, status) ==
    SigResponseRaise([s EXCEPT !.removed = TRUE,
                               !.status = IF status = "SUCCESS" THEN @ ELSE status], FALSE)

(* mrcp_app_failure_message_raise *)
FailureMessageRaise(s, status) == Respond([s EXCEPT !.status = status], status)

(* mrcp_app_control_message_raise, a response *)
ControlMessageRaise(s, status) ==
    IF s.active_request = NULL \/ s.active_request.kind # "CONTROL" THEN s
    ELSE NextRequest(Respond(s, status))

(* mrcp_client_message_send *)
MessageSend(s, c) ==
    IF ~s.id THEN ControlMessageRaise(s, "METHOD_FAILED")
    ELSE IF version = 2 THEN [s EXCEPT !.agent = @ \cup {[op |-> "SEND", channel |-> c]}]
    ELSE [s EXCEPT !.signaling = Append(@, "CONTROL")]

(* mrcp_client_channel_modify; without an offer nothing happens *)
ChannelModify(s, c, enable) ==
    IF s.offer THEN OfferSend([s EXCEPT !.resource_state = enable]) ELSE s

(* mrcp_client_channel_add *)
ChannelAdd(s, c) ==
    LET generating == StateSet([s EXCEPT !.offer = TRUE, !.channels = Append(@, c)],
                               "GENERATING_OFFER")
        controlled == IF version = 1 THEN [generating EXCEPT !.resource_state = TRUE]
                      ELSE AgentSend(generating, "ADD", {c})
        added == IF ~media THEN controlled
                 ELSE MediaSend([controlled EXCEPT !.context = TRUE, !.waiting = @ \cup {c},
                                                   !.waiting_for_termination = @ \cup {c}],
                                <<OfTermination("ADD", c), OfSlot("ADD", c)>>)
    IN  IF c \in Range(s.channels) THEN ChannelModify(s, c, TRUE)
        ELSE IF added.subrequest_count = 0 THEN OfferSend(added) ELSE added

(* mrcp_client_session_update *)
SessionUpdate(s) == IF s.offer THEN OfferSend(s) ELSE s

SubtractSlotsFirst(s) ==
    [i \in 1..Len(s.channels) |-> OfSlot("SUBTRACT", s.channels[i])] \o
    [i \in 1..Len(s.channels) |-> OfTermination("SUBTRACT", s.channels[i])]

(* The messages that subtract the terminations of the channels, and after  *)
(* them those of the RTP termination slots                                 *)
Subtract(s) ==
    [i \in 1..Len(s.channels) |-> OfTermination("SUBTRACT", s.channels[i])] \o
    [i \in 1..Len(s.channels) |-> OfSlot("SUBTRACT", s.channels[i])]

(* mrcp_client_session_terminate *)
SessionTerminate(s) ==
    LET cs == Range(s.channels)
        terminating == StateSet(s, "TERMINATING")
        removing == IF version = 2 THEN AgentSend(terminating, "REMOVE", cs) ELSE terminating
        subtracting == IF ~s.context THEN removing
                       ELSE MediaSend([removing EXCEPT !.waiting_for_termination = cs,
                                                       !.waiting = cs],
                                      Topology("DESTROY_TOPOLOGY") \o Subtract(s))
    IN  SubrequestAdd([subtracting EXCEPT !.signaling = Append(@, "TERMINATE")], 1)

(* mrcp_client_resource_discover; there are two resources to discover by   *)
(* RTSP, and one request by SIP                                            *)
ResourceDiscover(s) ==
    LET n == IF version = 1 THEN 2 ELSE 1
    IN  SubrequestAdd([StateSet(s, "DISCOVERING") EXCEPT
                          !.signaling = @ \o [i \in 1..n |-> "DISCOVER"]], n)

(* mrcp_app_request_dispatch; created is whether the agents could be       *)
(* selected and the session created.  The status of a failure is kept, so  *)
(* that the session cannot be registered later either.                     *)
Dispatch(s, created) ==
    LET request == s.active_request
        ready == [s EXCEPT !.registered = TRUE, !.status = "SUCCESS"]
    IN  CASE s.state = "TERMINATING" -> s
          [] s.state # "TERMINATING" /\ s.disconnected /\ request.kind # "TERMINATE" ->
                FailureMessageRaise(s, "CANCEL")
          [] ~s.registered /\ request.kind = "TERMINATE" ->
                SigResponseRaise([s EXCEPT !.status = "SUCCESS"], FALSE)
          [] /\ ~s.registered /\ request.kind # "TERMINATE"
             /\ ~created \/ s.status = "FAILURE" -> FailureMessageRaise(s, "FAILURE")
          [] OTHER ->
                CASE request.kind = "UPDATE" -> SessionUpdate(ready)
                  [] request.kind = "TERMINATE" -> SessionTerminate(ready)
                  [] request.kind = "ADD" -> ChannelAdd(ready, request.channel)
                  [] request.kind = "REMOVE" -> ChannelModify(ready, request.channel, FALSE)
                  [] request.kind = "DISCOVER" -> ResourceDiscover(ready)
                  [] request.kind = "CONTROL" -> MessageSend(ready, request.channel)

(* mrcp_client_app_message_process *)
AppMessageProcess(s, request, created) ==
    IF s.active_request # NULL THEN [s EXCEPT !.request_queue = Append(@, request)]
    ELSE Dispatch([s EXCEPT !.active_request = request], created)
-----------------------------------------------------------------------------
(* mrcp_client_control_media_answer_process *)
ControlMediaAnswer(s) == AgentSend([s EXCEPT !.id = TRUE], "MODIFY", Range(s.channels))

(* mrcp_client_av_media_answer_process: the messages for the terminations *)
AvMediaAnswer(s) ==
    FlattenSeq([i \in 1..Len(s.channels) |->
        <<OfSlot("MODIFY", s.channels[i]), OfSlot("ASSOCIATE", s.channels[i])>>])

(* mrcp_client_session_answer_process, with                                *)
(* mrcp_client_resource_answer_process: there is no descriptor, the offer  *)
(* is refused, or accepted with or without the resource (of MRCPv1)        *)
AnswerProcess(s, descriptor) ==
    LET processing == StateSet(s, "PROCESSING_ANSWER")
        refused == version = 1 /\ s.resource_state /\ descriptor = "NO_RESOURCE"
        answered == IF version = 2 THEN ControlMediaAnswer(processing)
                    ELSE IF refused THEN [processing EXCEPT !.status = "FAILURE"]
                    ELSE [processing EXCEPT !.id = TRUE]
        av == IF version = 2 \/ (s.resource_state /\ ~refused) THEN AvMediaAnswer(s) ELSE <<>>
        sent == IF ~s.context THEN answered
                ELSE LET m == [answered EXCEPT !.waiting = @ \cup {c \in Channels :
                                                      \E i \in 1..Len(av) : av[i].channel = c}]
                     IN  MediaSend(m, Topology("RESET_ASSOCIATIONS") \o av \o
                                      Topology("APPLY_TOPOLOGY"))
        next == IF descriptor = "REFUSED" THEN [s EXCEPT !.status = "TERMINATE"] ELSE sent
    IN  IF ~s.offer THEN s
        ELSE IF descriptor = "NULL" THEN SigResponseRaise([s EXCEPT !.status = "FAILURE"], TRUE)
        ELSE IF next.subrequest_count = 0 THEN SigResponseRaise(next, TRUE) ELSE next

(* mrcp_client_session_terminate_response_process *)
TerminateResponseProcess(s) ==
    IF IsLast(s) THEN TerminateRaise(SubrequestRemove(s), "SUCCESS") ELSE SubrequestRemove(s)

(* mrcp_client_session_terminate_event_process *)
TerminateEventProcess(s) ==
    IF s.state = "TERMINATING" THEN s ELSE [s EXCEPT !.disconnected = TRUE]

(* mrcp_client_session_discover_response_process *)
DiscoverResponseProcess(s, descriptor) ==
    IF s.active_request = NULL THEN s
    ELSE IF descriptor = "NULL" THEN SigResponseRaise([s EXCEPT !.status = "FAILURE"], TRUE)
    ELSE IF IsLast(s) THEN NextRequest(Respond(SubrequestRemove(s), "SUCCESS"))
    ELSE SubrequestRemove(s)

(* mrcp_client_on_channel_add, ..._modify and ..._remove *)
OnChannel(s, op, c, status) ==
    LET done == SubrequestRemove([s EXCEPT !.waiting_for_channel = @ \ {c}])
    IN  IF c \notin s.waiting_for_channel THEN s
        ELSE IF ~IsLast(s) THEN done
        ELSE CASE op = "ADD" -> OfferSend(done)
               [] op = "MODIFY" ->
                     SigResponseRaise([done EXCEPT !.status = IF status = "SUCCESS" THEN @
                                                              ELSE "FAILURE"], TRUE)
               [] op = "REMOVE" -> TerminateRaise(done, status)

ByStateOffering(s) == IF s.state = "GENERATING_OFFER" THEN OfferSend(s) ELSE s

(* What follows the last response to a message of the topology, or of a    *)
(* modified termination                                                    *)
ByState(s) ==
    CASE s.state = "GENERATING_OFFER" -> OfferSend(s)
      [] s.state = "PROCESSING_ANSWER" -> SigResponseRaise(s, TRUE)
      [] OTHER -> s

(* mrcp_client_on_termination_add, ..._modify and ..._subtract *)
OnTermination(s, m) ==
    LET waits == m.channel \in (IF m.rtp THEN s.waiting ELSE s.waiting_for_termination)
        done == SubrequestRemove(
                    IF m.rtp THEN [s EXCEPT !.waiting = @ \ {m.channel}]
                    ELSE [s EXCEPT !.waiting_for_termination = @ \ {m.channel}])
    IN  IF ~waits THEN s
        ELSE IF ~IsLast(s) THEN done
        ELSE CASE m.command = "ADD" -> OfferSend(done)
               [] m.command = "MODIFY" -> ByState(done)
               [] m.command = "SUBTRACT" /\ m.rtp -> TerminateRaise(done, "SUCCESS")
               [] m.command = "SUBTRACT" /\ ~m.rtp -> SigResponseRaise(done, TRUE)

(* mrcp_client_mpf_message_process, a container of responses *)
MpfMessage(s, m) ==
    LET t == [s EXCEPT !.late = @ \/ s.terminated]
    IN  IF m.command \in {"ADD", "MODIFY", "SUBTRACT"} THEN OnTermination(t, m)
        ELSE IF IsLast(t) THEN ByState(SubrequestRemove(t)) ELSE SubrequestRemove(t)

MpfMessageProcess(s, container) == FoldLeft(MpfMessage, s, container)
-----------------------------------------------------------------------------
Becomes(s) ==
    /\ session' = s
    /\ UNCHANGED <<version, media, world>>

Terminating == \E i \in 1..Len(session.request_queue) : session.request_queue[i].kind = "TERMINATE"

(* The application: mrcp_application_session_update and its like.  It does *)
(* nothing with a channel before it adds it, nor with a session after it   *)
(* terminates it.                                                          *)
AppRequest(kind) ==
    /\ requests < MaxRequests /\ ~session.terminated /\ session.state # "TERMINATING" /\ ~Terminating
    /\ requests' = requests + 1
    /\ \E c \in (IF kind = "ADD" THEN Channels
                  ELSE IF kind \in {"REMOVE", "CONTROL"} THEN Range(session.channels)
                  ELSE {NULL}), created \in BOOLEAN :
          /\ kind = "UPDATE" => session.channels # <<>>
          /\ Becomes(AppMessageProcess(session, [n |-> requests', kind |-> kind, channel |-> c],
                                       created))

(* The connection agent, the media engine and the signalling agent answer. *)
AgentResponds ==
    \E r \in session.agent, status \in {"SUCCESS", "FAILURE"} :
       LET s == [session EXCEPT !.agent = @ \ {r}]
       IN  /\ Becomes(IF r.op = "SEND" THEN ControlMessageRaise(s, status)
                      ELSE OnChannel(s, r.op, r.channel, status))
           /\ UNCHANGED requests

MediaResponds ==
    /\ session.media_queue # <<>>
    /\ Becomes(MpfMessageProcess([session EXCEPT !.media_queue = Tail(@)],
                                 Head(session.media_queue)))
    /\ UNCHANGED requests

Undiscovered == IF version = 2 /\ world = "undiscoverable" THEN {"NULL"} ELSE {}

SignalingResponds ==
    /\ session.signaling # <<>>
    /\ LET s == [session EXCEPT !.signaling = Tail(@)]
           op == Head(session.signaling)
       IN  \/ /\ op = "OFFER"
              /\ \E descriptor \in {"OK", "REFUSED", "NULL"} \cup
                                   (IF version = 1 THEN {"NO_RESOURCE"} ELSE {}) :
                    Becomes(AnswerProcess(s, descriptor))
           \/ op = "TERMINATE" /\ Becomes(TerminateResponseProcess(s))
           \/ op = "CONTROL" /\ Becomes(ControlMessageRaise(s, "SUCCESS"))
           \/ /\ op = "DISCOVER"
              /\ \E descriptor \in {"OK"} \cup Undiscovered :
                    Becomes(DiscoverResponseProcess(s, descriptor))
    /\ UNCHANGED requests

(* The server ends the session or closes the connection. *)
ServerCloses ==
    /\ world = "closing" /\ session.registered /\ ~session.terminated /\ ~session.disconnected
    /\ Becomes(TerminateEventProcess(session))
    /\ UNCHANGED requests

Responses == AgentResponds \/ MediaResponds \/ SignalingResponds

Next ==
    \/ \E kind \in {"ADD", "REMOVE", "UPDATE", "CONTROL", "DISCOVER", "TERMINATE"} :
          AppRequest(kind)
    \/ Responses
    \/ ServerCloses

Spec == Init /\ [][Next]_vars

-----------------------------------------------------------------------------
(* The application gets one answer to a request at the most, and, unless   *)
(* the server closes the session, in the order of its requests.            *)
AnsweredInOrder ==
    \A n \in 1..MaxRequests :
       /\ Len(session.answers[n]) <= 1
       /\ world # "closing" /\ session.answers[n] # <<>> =>
             \A m \in 1..n : session.answers[m] # <<>>

Of(ops) == Len(SelectSeq(session.signaling, LAMBDA op : op \in ops))

(* subrequest_count is the number of subrequests the three threads have    *)
(* still to answer, and an offer or a control request is sent only when    *)
(* there are none, unless a discovery failed:                              *)
(* mrcp_client_session_discover_response_process answers the application   *)
(* then and leaves the count at one.                                       *)
CountedExactly ==
    LET messages == FoldLeft(LAMBDA n, container : n + Len(container), 0, session.media_queue)
        outstanding == Cardinality({r \in session.agent : r.op # "SEND"}) + messages
                       + Of({"TERMINATE", "DISCOVER"})
    IN  world # "undiscoverable" =>
           /\ session.subrequest_count = outstanding
           /\ Of({"OFFER", "CONTROL"}) # 0 => outstanding = 0

Quiet == session.agent = {} /\ session.media_queue = <<>> /\ session.signaling = <<>>

(* Every request is answered by the time all responses have come in, and   *)
(* so, as a response is to one request, eventually.  If the server closes  *)
(* the session none is left active, but some may be left in the queue.     *)
AnsweredWhenQuiet ==
    Quiet => /\ world = "orderly" => \A n \in 1..requests : session.answers[n] # <<>>
             /\ world = "closing" => session.active_request = NULL

(* When the application learns that the session is terminated, and may     *)
(* destroy it, the session is in no table, no response is outstanding and  *)
(* none is left in the container that is being processed:                  *)
(* mrcp_client_mpf_message_process would go on with the session.           *)
NothingAfterTermination ==
    session.terminated => (session.registered => session.removed) /\ Quiet /\ ~session.late

(* A disconnected session cancels all the requests besides the termination *)
(* one, as mrcp_app_request_dispatch says.                                 *)
CancelsAll ==
    session.disconnected /\ session.active_request = NULL => session.request_queue = <<>>
=============================================================================
