---------------------------- MODULE ServerSession ----------------------------
(***************************************************************************)
(* The life of a session of the server, mrcp_server_session.c: offers are  *)
(* answered, requests are passed to the channels, and a session that the   *)
(* client ends is deactivated and terminated.  Each of these phases sends  *)
(* subrequests to the connection agent, to the engines and to the media    *)
(* engine, three threads that answer in their own time, and counts them in *)
(* subrequest_count; the last answer starts the next phase.                *)
(*                                                                         *)
(* Every action of the session runs in the server task, which takes one    *)
(* message at a time from task_queue.  todo is what the running handler    *)
(* has still to do, innermost first, as in ControlSession.                 *)
(***************************************************************************)
EXTENDS Integers, Sequences, FiniteSets, SequencesExt

CONSTANTS Version,     \* 1 or 2: mrcp_version of the profile
          Good,        \* resources with an engine
          NoEngine,    \* resources without an engine in engine_table
          Unknown,     \* names the resource factory does not know
          Offer,       \* the offers the client makes
          Limited,     \* TRUE: an engine may refuse a channel
          MaxOffers,   \* bound of the model: offers of the client
          MaxControls, \* bound of the model: requests of the client
          NULL

VARIABLES session_state, subrequest_count, active_request, request_queue,
          offer, answer, context,   \* of mrcp_server_session_t
          channels,      \* mrcp_channel_t, with is_open of its engine channel
          terminations,  \* mrcp_termination_slot_t
          running,       \* channels whose state machine has something to stop
          task_queue,    \* of the server task
          todo,
          agent_queue,   \* of the connection agent
          attached,      \* channels in the tables of the connection agent
          engine_work,   \* what the engines have to answer
          media_queue,   \* of the media engine: containers of commands
          answers,       \* answers sent, oldest first
          offers,        \* offers made by the client
          controls,      \* requests made by the client
          hangup,        \* the client has ended the session
          destroyed      \* mrcp_session_terminate_response has been sent

phaseVars == <<session_state, subrequest_count>>
requestVars == <<active_request, request_queue>>
offerVars == <<offer, answer, context>>
mediaVars == <<channels, terminations, running>>
outVars == <<agent_queue, engine_work, media_queue>>
clientVars == <<offers, controls, hangup>>
vars == <<phaseVars, requestVars, offerVars, mediaVars, outVars, clientVars,
          task_queue, todo, attached, answers, destroyed>>

MaxMessageCount == 5   \* MAX_MPF_MESSAGE_COUNT

Init ==
    /\ session_state = "NONE" /\ subrequest_count = 0
    /\ active_request = NULL /\ request_queue = <<>>
    /\ offer = NULL /\ answer = NULL /\ context = FALSE
    /\ channels = <<>> /\ terminations = <<>> /\ running = {}
    /\ task_queue = <<>> /\ todo = <<>>
    /\ agent_queue = <<>> /\ attached = {} /\ engine_work = {} /\ media_queue = <<>>
    /\ answers = <<>> /\ offers = 0 /\ controls = 0 /\ hangup = FALSE /\ destroyed = FALSE

Message(type, arg) == [type |-> type, arg |-> arg]

(* mpf_engine_message_get: a full container is sent before the next        *)
(* command is added.                                                       *)
Containers(commands) ==
    [n \in 1 .. (Len(commands) + MaxMessageCount - 1) \div MaxMessageCount |->
        SubSeq(commands, (n - 1) * MaxMessageCount + 1,
               IF n * MaxMessageCount < Len(commands) THEN n * MaxMessageCount
                                                      ELSE Len(commands))]

SendMedia(commands) == media_queue' = media_queue \o Containers(commands)

(* A message of the type for each member of a set of positions, in order *)
Each(type, positions) ==
    LET ordered == SetToSortSeq(positions, <)
    IN  [k \in DOMAIN ordered |-> Message(type, ordered[k])]
-----------------------------------------------------------------------------
(* The client, through the signaling agent and the connection agent *)

ClientOffer ==
    /\ ~hangup /\ offers < MaxOffers
    /\ offers' = offers + 1
    /\ \E o \in Offer : task_queue' = Append(task_queue, Message("offer", o))
    /\ UNCHANGED <<phaseVars, requestVars, offerVars, mediaVars, outVars, controls, hangup,
                   todo, attached, answers, destroyed>>

(* MRCPv2: over a connection, to a channel of an answer that the agent has *)
(* in its tables.  MRCPv1: over the signaling connection, to a resource.   *)
ClientControl ==
    /\ controls < MaxControls
    /\ controls' = controls + 1
    /\ \/ /\ Version = 2
          /\ \E c \in attached :
                /\ \E a \in Range(answers) : /\ a.status /\ channels[c].id \in DOMAIN a.control
                                              /\ a.control[channels[c].id]
                /\ task_queue' = Append(task_queue, Message("control", c))
       \/ /\ Version = 1 /\ ~hangup /\ answers # <<>>
          /\ \E r \in Good \cup NoEngine : task_queue' = Append(task_queue, Message("control", r))
    /\ UNCHANGED <<phaseVars, requestVars, offerVars, mediaVars, outVars, offers, hangup,
                   todo, attached, answers, destroyed>>

ClientTerminate ==
    /\ ~hangup /\ offers > 0
    /\ hangup' = TRUE
    /\ task_queue' = Append(task_queue, Message("terminate", NULL))
    /\ UNCHANGED <<phaseVars, requestVars, offerVars, mediaVars, outVars, offers, controls,
                   todo, attached, answers, destroyed>>

Client == ClientOffer \/ ClientControl \/ ClientTerminate
-----------------------------------------------------------------------------
(* The three threads that answer *)

AgentStep ==
    /\ agent_queue # <<>>
    /\ agent_queue' = Tail(agent_queue)
    /\ LET request == Head(agent_queue)
       IN  /\ attached' = CASE request.type = "add" -> attached \cup {request.arg}
                            [] request.type = "modify" -> attached
                            [] request.type = "remove" -> attached \ {request.arg}
           /\ task_queue' = Append(task_queue,
                  Message(IF request.type = "remove" THEN "removed" ELSE "modified", request.arg))
    /\ UNCHANGED <<phaseVars, requestVars, offerVars, mediaVars, engine_work, media_queue,
                   clientVars, todo, answers, destroyed>>

(* An engine answers; a channel may fail to open. *)
EngineStep ==
    /\ \E work \in engine_work :
          /\ engine_work' = engine_work \ {work}
          /\ \/ /\ work.type = "open"
                /\ \E status \in BOOLEAN :
                      task_queue' = Append(task_queue,
                          Message(IF status THEN "opened" ELSE "failed", work.arg))
             \/ /\ work.type = "close"
                /\ task_queue' = Append(task_queue, Message("closed", work.arg))
             \/ /\ work.type = "request"
                /\ task_queue' = Append(task_queue, Message("response", work.arg))
             \/ /\ work.type = "stop"
                /\ task_queue' = Append(task_queue, Message("stopped", work.arg))
    /\ UNCHANGED <<phaseVars, requestVars, offerVars, mediaVars, agent_queue, media_queue,
                   clientVars, todo, attached, answers, destroyed>>

(* mpf_engine_msg_process answers a container with a container. *)
MediaStep ==
    /\ media_queue # <<>>
    /\ media_queue' = Tail(media_queue)
    /\ task_queue' = Append(task_queue, Message("media", Head(media_queue)))
    /\ UNCHANGED <<phaseVars, requestVars, offerVars, mediaVars, agent_queue, engine_work,
                   clientVars, todo, attached, answers, destroyed>>
-----------------------------------------------------------------------------
(* The server task *)

(* mrcp_server_msg_process takes a message; requests of the client wait    *)
(* for the one in progress (mrcp_server_signaling_message_process).        *)
Receive ==
    /\ ~destroyed /\ todo = <<>> /\ task_queue # <<>>
    /\ task_queue' = Tail(task_queue)
    /\ LET message == Head(task_queue)
       IN  \/ /\ message.type \in {"offer", "control", "terminate"}
              /\ active_request # NULL
              /\ request_queue' = Append(request_queue, message)
              /\ UNCHANGED <<active_request, todo>>
           \/ /\ message.type \in {"offer", "control", "terminate"}
              /\ active_request = NULL
              /\ active_request' = message
              /\ todo' = <<message>>
              /\ UNCHANGED request_queue
           \/ /\ message.type \notin {"offer", "control", "terminate"}
              /\ todo' = IF message.type = "media" THEN message.arg ELSE <<message>>
              /\ UNCHANGED requestVars
    /\ UNCHANGED <<phaseVars, offerVars, mediaVars, outVars, clientVars, attached, answers,
                   destroyed>>

Doing(types) == todo # <<>> /\ Head(todo).type \in types

(* The next request of the session is dispatched before the call returns. *)
DispatchNext ==
    /\ active_request' = IF request_queue = <<>> THEN NULL ELSE Head(request_queue)
    /\ request_queue' = IF request_queue = <<>> THEN <<>> ELSE Tail(request_queue)
    /\ todo' = (IF request_queue = <<>> THEN <<>> ELSE <<Head(request_queue)>>) \o Tail(todo)

(* mrcp_server_session_state_set, and count subrequests of the new phase;  *)
(* "phase" is the call made when there are none.                           *)
Phase(new, count) ==
    /\ session_state' = new
    /\ subrequest_count' = count
    /\ todo' = (IF count = 0 THEN <<Message("phase", NULL)>> ELSE <<>>) \o Tail(todo)
-----------------------------------------------------------------------------
(* mrcp_server_session_offer_process *)

(* mrcp_server_channel_create for the medium at position i, and the        *)
(* requests that follow it: the channel waits for the connection agent and *)
(* for the media engine.                                                   *)
ChannelCreateNextId(resource, i, accepted) ==
    [id |-> i + 1, resource |-> resource, engine_channel |-> resource \in Good /\ accepted,
     is_open |-> FALSE, waiting_for_channel |-> Version = 2,
     waiting_for_termination |-> resource \in Good /\ accepted]

ChannelCreate(resource, i, accepted) ==
    [id |-> i, resource |-> resource, engine_channel |-> resource \in Good /\ accepted,
     is_open |-> FALSE, waiting_for_channel |-> Version = 2,
     waiting_for_termination |-> resource \in Good /\ accepted]

(* The state machine is created before the engine is asked for a channel. *)
HasStateMachine(c) == channels[c].resource \in Good

(* The media of an offer that are taken to have a channel already; a       *)
(* channel has to be created for the others.  An offer of MRCPv1 has one   *)
(* medium, a resource to set up (port) or to tear down.                    *)
Existing(o) ==
    IF Version = 2 THEN DOMAIN o.control \cap DOMAIN channels
    ELSE {i \in DOMAIN o.control :
            ~o.control[i].port \/ \E c \in Range(channels) : c.resource = o.control[i].resource}

Added(o) == {i \in DOMAIN o.control \ Existing(o) : o.control[i].resource \notin Unknown}

NewChannels(o, accepted) ==
    LET ordered == SetToSortSeq(Added(o), <)
    IN  [k \in DOMAIN ordered |->
            ChannelCreate(o.control[ordered[k]].resource, ordered[k], accepted[ordered[k]])]

(* mrcp_server_av_media_offer_process: the termination of the audio, then  *)
(* its associations with the engine channels of cs.  An offer of MRCPv1    *)
(* for a resource that does not exist does not come to this.               *)
MediaCommands(o, cs) ==
    IF o.audio = 0 \/ (Version = 1 /\ Added(o) \cup Existing(o) = {}) THEN <<>>
    ELSE <<Message("slot", 1)>> \o
         Each("association", {c \in DOMAIN cs : cs[c].engine_channel})

(* mrcp_server_session_subrequest_add for every request sent *)
Subrequests(commands, requests) == Len(commands) + Len(requests)

OfferProcess ==
    /\ Doing({"offer"})
    /\ LET o == Head(todo).arg
       IN \E accepted \in [DOMAIN o.control -> IF Limited THEN BOOLEAN ELSE {TRUE}] :
            LET modified == IF Version = 2 THEN Existing(o) ELSE {}
                cs == [c \in DOMAIN channels |-> [channels[c] EXCEPT !.waiting_for_channel =
                                                    IF c \in modified THEN TRUE ELSE @]]
                          \o NewChannels(o, accepted)
                new == DOMAIN cs \ DOMAIN channels
                requests == IF Version = 2 THEN Each("modify", modified) \o Each("add", new)
                                           ELSE <<>>
                av == MediaCommands(o, cs)
                commands == <<Message("reset", NULL)>>
                                \o Each("termination", {c \in new : cs[c].engine_channel})
                                \o av \o <<Message("apply", NULL)>>
            IN  /\ channels' = cs
                /\ terminations' = IF av = <<>> THEN terminations ELSE <<TRUE>>
                /\ agent_queue' = agent_queue \o requests
                /\ SendMedia(commands)
                /\ offer' = o
                /\ answer' = [status |-> \A i \in DOMAIN o.control \ Existing(o) :
                                            o.control[i].resource \in Good /\ accepted[i],
                              control |-> [i \in DOMAIN o.control |-> FALSE]]
                /\ Phase("GENERATING_ANSWER", Subrequests(commands, requests))
    /\ context' = TRUE
    /\ UNCHANGED <<requestVars, running, engine_work, clientVars, task_queue, attached,
                   answers, destroyed>>
-----------------------------------------------------------------------------
(* mrcp_server_engine_channels_update: the position of a channel in the    *)
(* array of channels is its position in the offer.                         *)
Opened ==
    {c \in DOMAIN channels :
        /\ channels[c].engine_channel /\ ~channels[c].is_open
        /\ IF Version = 1 THEN channels[c].resource = offer.control[1].resource
                          ELSE c \in DOMAIN offer.control /\ offer.control[c].port}

Closed ==
    {c \in DOMAIN channels :
        /\ channels[c].engine_channel /\ channels[c].is_open
        /\ Version = 2 /\ c \in DOMAIN offer.control /\ ~offer.control[c].port}

EngineChannelsUpdate ==
    /\ Doing({"phase"}) /\ session_state = "GENERATING_ANSWER"
    /\ channels' = [c \in DOMAIN channels |->
                       [channels[c] EXCEPT !.is_open = (@ \/ c \in Opened) /\ c \notin Closed]]
    /\ engine_work' = engine_work \cup {Message("open", c) : c \in Opened}
                                  \cup {Message("close", c) : c \in Closed}
    /\ Phase("INITIALIZING", Cardinality(Opened \cup Closed))
    /\ UNCHANGED <<requestVars, offerVars, terminations, running, agent_queue, media_queue,
                   clientVars, task_queue, attached, answers, destroyed>>

(* mrcp_server_session_answer_send; AnswerSendOnly leaves out what follows *)
(* the answer.                                                             *)
AnswerSendOnly ==
    /\ Doing({"phase"}) /\ session_state = "INITIALIZING"
    /\ answers' = Append(answers, answer)
    /\ answer' = NULL
    /\ todo' = Tail(todo)
    /\ UNCHANGED <<phaseVars, requestVars, offer, context, mediaVars, outVars, clientVars, task_queue,
                   attached, destroyed>>

AnswerSend ==
    /\ Doing({"phase"}) /\ session_state = "INITIALIZING"
    /\ answers' = Append(answers, answer)
    /\ offer' = NULL /\ answer' = NULL
    /\ DispatchNext
    /\ UNCHANGED <<phaseVars, context, mediaVars, outVars, clientVars, task_queue, attached,
                   destroyed>>
-----------------------------------------------------------------------------
(* Requests to the channels *)

(* mrcp_server_on_message_receive; the state machine answers the request   *)
(* itself or passes it to the engine, if the channel has one.  Without a   *)
(* channel or a state machine the request is dropped.                      *)
ControlProcess ==
    /\ Doing({"control"})
    /\ LET target == Head(todo).arg
           cs == {c \in DOMAIN channels : IF Version = 2 THEN c = target
                                                         ELSE channels[c].resource = target}
       IN  \/ /\ \A c \in cs : ~HasStateMachine(c)
              /\ todo' = Tail(todo)
              /\ UNCHANGED <<requestVars, engine_work>>
           \/ /\ \E c \in cs : HasStateMachine(c)
              /\ DispatchNext
              /\ UNCHANGED engine_work
           \/ /\ \E c \in cs :
                    /\ HasStateMachine(c)
                    /\ engine_work' = IF channels[c].engine_channel
                                      THEN engine_work \cup {Message("request", c)}
                                      ELSE engine_work
              /\ todo' = Tail(todo)
              /\ UNCHANGED requestVars
    /\ UNCHANGED <<phaseVars, offerVars, mediaVars, agent_queue, media_queue, clientVars,
                   task_queue, attached, answers, destroyed>>

(* mrcp_server_on_engine_channel_message: the response goes to the client, *)
(* and the channel may have something to stop from now on.                 *)
EngineResponse ==
    /\ Doing({"response"})
    /\ running' = running \cup {Head(todo).arg}
    /\ DispatchNext
    /\ UNCHANGED <<phaseVars, offerVars, channels, terminations, outVars, clientVars,
                   task_queue, attached, answers, destroyed>>
-----------------------------------------------------------------------------
(* The end of the session *)

(* mrcp_server_session_deactivate: a state machine with a request in       *)
(* progress stops it first.                                                *)
Deactivate ==
    /\ Doing({"terminate"})
    /\ \E stopping \in SUBSET running :
          /\ engine_work' = engine_work \cup {Message("stop", c) : c \in stopping}
          /\ Phase("DEACTIVATING", Cardinality(stopping))
    /\ UNCHANGED <<requestVars, offerVars, mediaVars, agent_queue, media_queue, clientVars,
                   task_queue, attached, answers, destroyed>>

(* The requests that terminate a session, the channels to close included *)
TerminateSubrequestsToAgents(commands, requests, open) == Subrequests(commands, requests)
TerminateSubrequests(commands, requests, open) ==
    Subrequests(commands, requests) + Cardinality(open)

(* mrcp_server_session_terminate_process *)
TerminateProcess ==
    /\ Doing({"phase"}) /\ session_state = "DEACTIVATING"
    /\ LET all == DOMAIN channels
           engines == {c \in all : channels[c].engine_channel}
           open == {c \in all : channels[c].is_open}
           requests == IF Version = 2 THEN Each("remove", all) ELSE <<>>
           commands == (IF context THEN <<Message("reset", NULL)>> ELSE <<>>)
                           \o Each("termination", engines) \o Each("slot", DOMAIN terminations)
       IN  /\ channels' = [c \in all |-> [channels[c] EXCEPT
                               !.waiting_for_channel = @ \/ Version = 2,
                               !.waiting_for_termination = @ \/ c \in engines,
                               !.is_open = FALSE]]
           /\ terminations' = [t \in DOMAIN terminations |-> TRUE]
           /\ agent_queue' = agent_queue \o requests
           /\ SendMedia(commands)
           /\ engine_work' = engine_work \cup {Message("close", c) : c \in open}
           /\ Phase("TERMINATING", TerminateSubrequests(commands, requests, open))
    /\ UNCHANGED <<requestVars, offerVars, running, clientVars, task_queue, attached, answers,
                   destroyed>>

(* mrcp_server_session_terminate_send: the channels are destroyed and the  *)
(* signaling agent is told, which destroys the session.                    *)
TerminateSend ==
    /\ Doing({"phase"}) /\ session_state = "TERMINATING"
    /\ destroyed' = TRUE
    /\ todo' = Tail(todo)
    /\ UNCHANGED <<phaseVars, requestVars, offerVars, mediaVars, outVars, clientVars,
                   task_queue, attached, answers>>
-----------------------------------------------------------------------------
(* The answers to the subrequests *)

(* mrcp_server_session_subrequest_remove, and the phase it completes *)
SubrequestRemove ==
    /\ subrequest_count' = IF subrequest_count = 0 THEN 0 ELSE subrequest_count - 1
    /\ todo' = (IF subrequest_count = 1 THEN <<Message("phase", NULL)>> ELSE <<>>) \o Tail(todo)

Ignored == todo' = Tail(todo) /\ UNCHANGED subrequest_count

(* mrcp_server_on_channel_modify and _remove *)
ChannelAnswered ==
    /\ Doing({"modified", "removed"})
    /\ LET c == Head(todo).arg
       IN  IF channels[c].waiting_for_channel
           THEN /\ channels' = [channels EXCEPT ![c].waiting_for_channel = FALSE]
                /\ answer' = IF Head(todo).type = "modified" /\ channels[c].id \in DOMAIN answer.control
                             THEN [answer EXCEPT !.control[channels[c].id] = TRUE] ELSE answer
                /\ SubrequestRemove
           ELSE Ignored /\ UNCHANGED <<channels, answer>>
    /\ UNCHANGED <<session_state, requestVars, offer, context, terminations, running, outVars,
                   clientVars, task_queue, attached, answers, destroyed>>

(* mrcp_server_on_engine_channel_open and _close, state_machine_on_deactivate *)
EngineAnswered ==
    /\ Doing({"opened", "failed", "closed", "stopped"})
    /\ answer' = IF Head(todo).type = "failed" THEN [answer EXCEPT !.status = FALSE] ELSE answer
    /\ SubrequestRemove
    /\ UNCHANGED <<session_state, requestVars, offer, context, mediaVars, outVars, clientVars,
                   task_queue, attached, answers, destroyed>>

(* mrcp_server_mpf_message_process, for one command of the container *)
MediaAnswered ==
    /\ \/ /\ Doing({"slot"})
          /\ terminations' = [terminations EXCEPT ![Head(todo).arg] = FALSE]
          /\ IF terminations[Head(todo).arg] THEN SubrequestRemove ELSE Ignored
          /\ UNCHANGED channels
       \/ /\ Doing({"termination"})
          /\ channels' = [channels EXCEPT ![Head(todo).arg].waiting_for_termination = FALSE]
          /\ IF channels[Head(todo).arg].waiting_for_termination THEN SubrequestRemove ELSE Ignored
          /\ UNCHANGED terminations
       \/ /\ Doing({"reset", "association", "apply"})
          /\ SubrequestRemove
          /\ UNCHANGED <<channels, terminations>>
    /\ UNCHANGED <<session_state, requestVars, offerVars, running, outVars, clientVars,
                   task_queue, attached, answers, destroyed>>
-----------------------------------------------------------------------------
ServerTask ==
    \/ Receive
    \/ OfferProcess \/ EngineChannelsUpdate \/ AnswerSend
    \/ ControlProcess \/ EngineResponse
    \/ Deactivate \/ TerminateProcess \/ TerminateSend
    \/ ChannelAnswered \/ EngineAnswered \/ MediaAnswered

Next == Client \/ AgentStep \/ EngineStep \/ MediaStep \/ ServerTask

Spec == Init /\ [][Next]_vars
-----------------------------------------------------------------------------
Channel == [id : Nat, resource : Good \cup NoEngine, engine_channel : BOOLEAN, is_open : BOOLEAN,
            waiting_for_channel : BOOLEAN, waiting_for_termination : BOOLEAN]

(* The state of mrcp_server_session_t has the types its declaration gives. *)
TypeOK ==
    /\ session_state \in {"NONE", "GENERATING_ANSWER", "INITIALIZING", "DEACTIVATING", "TERMINATING"}
    /\ subrequest_count \in Nat
    /\ channels \in Seq(Channel) /\ terminations \in Seq(BOOLEAN)
    /\ running \subseteq DOMAIN channels /\ attached \subseteq DOMAIN channels
    /\ offer = NULL \/ offer \in Offer
    /\ (offer = NULL) = (answer = NULL)
    /\ \A t \in Range(todo) : t.type \in
          {"offer", "control", "terminate", "phase", "modified", "removed", "opened", "failed",
           "closed", "stopped", "response", "slot", "termination", "reset", "association", "apply"}

Total(numbers) == FoldSeq(+, 0, numbers)
CommandCount(containers) == Total([n \in DOMAIN containers |-> Len(containers[n])])
Answered(message) ==
    IF message.type = "media" THEN Len(message.arg)
    ELSE IF message.type \in {"offer", "control", "terminate", "response", "phase"} THEN 0 ELSE 1

(* subrequest_count is the number of subrequests that are still to be      *)
(* answered, wherever they are: with the connection agent, the engines or  *)
(* the media engine, or answered and not yet handled.  So no phase begins  *)
(* with requests of the phase before under way, and the two branches       *)
(* marked "error case" are never taken.                                    *)
CountMatches ==
    subrequest_count =
        Len(agent_queue) + CommandCount(media_queue)
        + Cardinality({w \in engine_work : w.type # "request"})
        + Total([n \in DOMAIN task_queue |-> Answered(task_queue[n])])
        + Total([n \in DOMAIN todo |-> Answered(todo[n])])

(* A request that the session holds as active is in progress: between two  *)
(* messages of the server task some subrequest of it, or the engine, has   *)
(* still to answer.  Were it not so the requests queued behind it, and the *)
(* end of the session, would wait for ever.                                *)
ActiveInProgress ==
    todo = <<>> /\ active_request # NULL /\ ~destroyed =>
        \/ subrequest_count > 0
        \/ \E w \in engine_work : w.type = "request"
        \/ \E m \in Range(task_queue) : m.type = "response"

(* An offer that is accepted is answered for each of its control media:    *)
(* every medium had its channel, the answer of the connection agent came   *)
(* before the answer of the session, and it was stored at its position.    *)
AnswerComplete ==
    Version = 2 => \A a \in Range(answers) : a.status => \A i \in DOMAIN a.control : a.control[i]

(* id is the position of a channel in the session descriptor, so a channel *)
(* is modified with the control medium at that position of the offer.      *)
ModifiedAtItsPosition ==
    \A m \in Range(agent_queue) : m.type = "modify" => channels[m.arg].id = m.arg

(* When the session is destroyed nothing refers to it any more: the agent  *)
(* has forgotten its channels, the engines and the media engine have       *)
(* nothing to answer, and no message of any thread waits for the server    *)
(* task, though the client may have sent requests to the very end.         *)
NothingLeftBehind ==
    destroyed => /\ attached = {} /\ agent_queue = <<>> /\ media_queue = <<>>
                 /\ engine_work = {} /\ task_queue = <<>> /\ todo = <<>>
                 /\ \A c \in Range(channels) : ~c.is_open

(* Every offer is answered unless the client ends the session. *)
EveryOfferAnswered ==
    \A n \in 1 .. MaxOffers : offers = n ~> (Len(answers) >= n \/ hangup)

(* A session that the client ends is terminated, whatever was under way. *)
SessionDestroyed == hangup ~> destroyed
=============================================================================
