-------------------------- MODULE ClientConnection --------------------------
(***************************************************************************)
(* The MRCPv2 connection agent of the client, mrcp_client_connection.c:    *)
(* TCP connections to servers, the control channels that share them, and   *)
(* the request each channel may have in progress, with its timer.  The     *)
(* agent is one thread.  The sessions that own the channels run in the     *)
(* client task and have at most one request under way per channel, so      *)
(* phase says who has to act on it next.                                   *)
(*                                                                         *)
(* A message is a response to a request of a channel, named by the         *)
(* channel and the request id, or an event (id 0).  A receive takes whole  *)
(* messages off the stream, one or several.                                *)
(***************************************************************************)
EXTENDS Naturals, Sequences, FiniteSets

CONSTANTS Channels,      \* control channels, of any number of sessions
          Connections,   \* TCP connections the agent may make
          Servers,       \* addresses of servers
          MaxRequests,   \* bound: requests per channel
          MaxEvents,     \* bound: events per connection
          NULL

VARIABLES request_timeout,  \* BOOLEAN: the agent was configured with one
          connection_list,
          sock,          \* "none" before the connection, then "open", then NULL
          r_sockaddr,
          access_count, channel_table,
          rx_stream,     \* messages from the start of the buffer up to stream->pos
          destroyed,     \* connections whose pool is destroyed
          connection,    \* of a channel
          active_request,\* of a channel: the id of the request in progress, or 0
          request_timer, \* channels whose timer runs
          removed,       \* channels that have to destroy their connection
          phase,         \* of a channel: which operation of its session is under way
          request_id,    \* of a channel: the id of its last request
          answers,       \* of a channel: by request, the answers its session got
          told,          \* channels whose session was told of a disconnect
          wire,          \* of a connection: messages the agent has not received yet
          received,      \* of a connection: requests the server has not answered
          closed,        \* connections the server has closed
          events,        \* of a connection: events the server has sent
          late           \* connections on which a response came after its time-out

connectionVars == <<connection_list, sock, r_sockaddr, access_count, channel_table, destroyed>>
channelVars == <<connection, removed>>
requestVars == <<active_request, request_timer, answers, told>>
serverVars == <<wire, received, closed, events>>
vars == <<request_timeout, connectionVars, rx_stream, channelVars, requestVars, phase, request_id,
          serverVars, late>>

Response(ch, id) == [channel |-> ch, id |-> id]
Event(ch) == [channel |-> ch, id |-> 0]

Init ==
    /\ request_timeout \in BOOLEAN
    /\ connection_list = <<>>
    /\ sock = [c \in Connections |-> "none"]
    /\ r_sockaddr = [c \in Connections |-> NULL]
    /\ access_count = [c \in Connections |-> 0]
    /\ channel_table = [c \in Connections |-> {}]
    /\ rx_stream = [c \in Connections |-> <<>>]
    /\ destroyed = {}
    /\ connection = [ch \in Channels |-> NULL] /\ removed = {}
    /\ active_request = [ch \in Channels |-> 0] /\ request_timer = {}
    /\ phase = [ch \in Channels |-> "idle"]
    /\ request_id = [ch \in Channels |-> 0]
    /\ answers = [ch \in Channels |-> [id \in 1..MaxRequests |-> <<>>]]
    /\ told = {}
    /\ wire = [c \in Connections |-> <<>>]
    /\ received = [c \in Connections |-> {}]
    /\ closed = {} /\ late = {}
    /\ events = [c \in Connections |-> 0]
-----------------------------------------------------------------------------
(* The operations of the sessions *)

ControlRequest(ch, from, to) ==
    /\ phase[ch] = from
    /\ phase' = [phase EXCEPT ![ch] = to]
    /\ UNCHANGED <<request_timeout, connectionVars, rx_stream, channelVars, requestVars, request_id,
                   serverVars, late>>

(* mrcp_client_control_message_send; the session numbers its requests *)
ControlMessageSend(ch) ==
    /\ phase[ch] = "ready" /\ request_id[ch] < MaxRequests
    /\ phase' = [phase EXCEPT ![ch] = "sending"]
    /\ request_id' = [request_id EXCEPT ![ch] = @ + 1]
    /\ UNCHANGED <<request_timeout, connectionVars, rx_stream, channelVars, requestVars,
                   serverVars, late>>

(* mrcp_client_control_channel_destroy, when the session ends: the channel *)
(* that was removed last destroys the connection.                          *)
ControlChannelDestroy(ch) ==
    /\ phase[ch] = "removed"
    /\ phase' = [phase EXCEPT ![ch] = "destroyed"]
    /\ destroyed' = IF ch \in removed THEN destroyed \cup {connection[ch]} ELSE destroyed
    /\ connection' = IF ch \in removed THEN [connection EXCEPT ![ch] = NULL] ELSE connection
    /\ UNCHANGED <<request_timeout, connection_list, sock, r_sockaddr, access_count, channel_table,
                   rx_stream, removed, requestVars, request_id, serverVars, late>>

Sessions ==
    \E ch \in Channels :
        \/ ControlRequest(ch, "idle", "adding")
        \/ ControlRequest(ch, "added", "modifying")
        \/ ControlRequest(ch, "ready", "modifying")
        \/ ControlRequest(ch, "added", "removing")
        \/ ControlRequest(ch, "ready", "removing")
        \/ ControlMessageSend(ch)
        \/ ControlChannelDestroy(ch)
-----------------------------------------------------------------------------
(* The channels, as the agent handles the operations *)

(* mrcp_client_agent_channel_add: the connection type it offers is only    *)
(* read by the server, which may answer with either.                       *)
ChannelAdd(ch) == ControlRequest(ch, "adding", "added")

(* mrcp_client_agent_connection_find: the first connection to the server *)
ConnectionFind(s) ==
    LET at == {i \in 1..Len(connection_list) : r_sockaddr[connection_list[i]] = s}
    IN  IF at = {} THEN NULL
        ELSE connection_list[CHOOSE i \in at : \A j \in at : i <= j]

(* mrcp_client_agent_connection_create, which may fail *)
ConnectionCreate(c, s) ==
    /\ sock[c] = "none"
    /\ sock' = [sock EXCEPT ![c] = "open"]
    /\ r_sockaddr' = [r_sockaddr EXCEPT ![c] = s]
    /\ connection_list' = Append(connection_list, c)

(* mrcp_connection_channel_add *)
ConnectionChannelAdd(c, ch) ==
    /\ channel_table' = [channel_table EXCEPT ![c] = @ \cup {ch}]
    /\ access_count' = [access_count EXCEPT ![c] = @ + 1]
    /\ connection' = [connection EXCEPT ![ch] = c]

(* mrcp_client_agent_channel_modify, for an answer of the server at s: a   *)
(* port of zero, a channel that has its connection already, an existing    *)
(* connection, a new one, or none.                                         *)
ChannelModify(ch) ==
    /\ phase[ch] = "modifying"
    /\ phase' = [phase EXCEPT ![ch] = "ready"]
    /\ \/ UNCHANGED <<connectionVars, connection>>
       \/ /\ connection[ch] = NULL
          /\ \E s \in Servers :
                \/ /\ ConnectionFind(s) # NULL
                   /\ ConnectionChannelAdd(ConnectionFind(s), ch)
                   /\ UNCHANGED <<sock, r_sockaddr, connection_list>>
                \/ \E c \in Connections :
                      ConnectionCreate(c, s) /\ ConnectionChannelAdd(c, ch)
          /\ UNCHANGED destroyed
    /\ UNCHANGED <<request_timeout, rx_stream, removed, requestVars, request_id, serverVars, late>>

(* What one end has sent and the other not received is lost with the       *)
(* socket.                                                                 *)
ConnectionLost(c) ==
    /\ wire' = [wire EXCEPT ![c] = <<>>]
    /\ received' = [received EXCEPT ![c] = {}]

(* mrcp_client_agent_channel_remove with mrcp_connection_channel_remove    *)
(* and mrcp_client_agent_connection_remove: the last channel closes the    *)
(* connection and keeps it, to destroy it with itself.                     *)
ChannelRemove(ch) ==
    LET c == connection[ch]
        last == c # NULL /\ access_count[c] = 1
    IN  /\ phase[ch] = "removing"
        /\ phase' = [phase EXCEPT ![ch] = "removed"]
        /\ IF c = NULL THEN UNCHANGED <<channel_table, access_count>>
           ELSE /\ channel_table' = [channel_table EXCEPT ![c] = @ \ {ch}]
                /\ access_count' = [access_count EXCEPT ![c] = @ - 1]
        /\ connection' = [connection EXCEPT ![ch] = IF last THEN c ELSE NULL]
        /\ removed' = IF last THEN removed \cup {ch} ELSE removed
        /\ IF last
           THEN /\ connection_list' = SelectSeq(connection_list, LAMBDA d : d # c)
                /\ sock' = [sock EXCEPT ![c] = NULL]
                /\ ConnectionLost(c)
           ELSE UNCHANGED <<connection_list, sock, wire, received>>
        /\ UNCHANGED <<request_timeout, r_sockaddr, destroyed, rx_stream, requestVars, request_id,
                       closed, events, late>>
-----------------------------------------------------------------------------
(* The requests *)

(* What the agent knows of the requests of its channels; answers and told  *)
(* are what it has passed to the client task, which takes an answer for    *)
(* the one to the request it is waiting for.                               *)
Requests == [active |-> active_request, timers |-> request_timer, answers |-> answers,
             told |-> told, phase |-> phase]

(* mrcp_connection_message_receive of a response *)
MessageReceive(r, ch, answer) ==
    [r EXCEPT !.answers[ch][request_id[ch]] = Append(@, answer), !.phase[ch] = "ready"]

(* mrcp_client_agent_request_cancel: the response it makes has the id of   *)
(* the request it is given.                                                *)
RequestCancel(r, ch, id) == MessageReceive(r, ch, [id |-> id, status |-> "METHOD_FAILED"])

SetRequests(r) ==
    /\ active_request' = r.active /\ request_timer' = r.timers
    /\ answers' = r.answers /\ told' = r.told /\ phase' = r.phase

(* mrcp_client_agent_messsage_send: without an open socket, or if the      *)
(* message cannot be generated or sent, the request is cancelled.          *)
MessageSend(ch) ==
    LET c == connection[ch]
        id == request_id[ch]
    IN  /\ phase[ch] = "sending"
        /\ \/ /\ SetRequests(RequestCancel(Requests, ch, id))
              /\ UNCHANGED received
           \/ /\ c # NULL /\ sock[c] = "open"
              /\ SetRequests([Requests EXCEPT
                    !.active[ch] = id, !.phase[ch] = "sent",
                    !.timers = IF request_timeout THEN @ \cup {ch} ELSE @])
              /\ received' = IF c \in closed THEN received
                             ELSE [received EXCEPT ![c] = @ \cup {Response(ch, id)}]
        /\ UNCHANGED <<request_timeout, connectionVars, rx_stream, channelVars, request_id,
                       wire, closed, events, late>>

(* mrcp_client_timer_proc *)
TimerProc(ch) ==
    /\ ch \in request_timer
    /\ SetRequests([RequestCancel(Requests, ch, active_request[ch]) EXCEPT
          !.active[ch] = 0, !.timers = @ \ {ch}])
    /\ UNCHANGED <<request_timeout, connectionVars, rx_stream, channelVars, request_id,
                   serverVars, late>>

(* mrcp_client_message_handler returns FALSE for the message. *)
UnexpectedNever(r, c, m) == FALSE
Unexpected(r, c, m) ==
    m.id # 0 /\ m.channel \in channel_table[c] /\ r.active[m.channel] # m.id

(* mrcp_client_message_handler of any other message: a message to a        *)
(* channel the connection does not have is dropped, an event goes to the   *)
(* session.                                                                *)
MessageHandler(r, c, m) ==
    IF m.id = 0 \/ m.channel \notin channel_table[c] THEN r
    ELSE MessageReceive([r EXCEPT !.active[m.channel] = 0, !.timers = @ \ {m.channel}],
                        m.channel, [id |-> m.id, status |-> "SUCCESS"])

(* The loop of mrcp_client_poller_signal_process over the messages of the  *)
(* stream from the i-th on.  An unexpected response ends it before         *)
(* apt_text_stream_scroll: everything up to it stays in the buffer, in     *)
(* front of what is received next, and what came after it is overwritten.  *)
ProcessStream(r, c, stream) ==
    LET handled[i \in 0..Len(stream)] ==
            IF i = 0 THEN [requests |-> r, kept |-> <<>>]
            ELSE LET before == handled[i - 1]
                 IN  IF before.kept # <<>> THEN before
                     ELSE IF Unexpected(before.requests, c, stream[i])
                     THEN [before EXCEPT !.kept = SubSeq(stream, 1, i)]
                     ELSE [before EXCEPT !.requests = MessageHandler(@, c, stream[i])]
    IN  handled[Len(stream)]

(* mrcp_client_poller_signal_process, some messages received *)
Receive(c) ==
    /\ sock[c] = "open"
    /\ \E n \in 1..Len(wire[c]) :
          LET stream == rx_stream[c] \o SubSeq(wire[c], 1, n)
              done == ProcessStream(Requests, c, stream)
          IN  /\ wire' = [wire EXCEPT ![c] = SubSeq(@, n + 1, Len(@))]
              /\ rx_stream' = [rx_stream EXCEPT ![c] = done.kept]
              /\ SetRequests(done.requests)
              /\ late' = IF done.kept = <<>> THEN late ELSE late \cup {c}
    /\ UNCHANGED <<request_timeout, connectionVars, channelVars, request_id,
                   received, closed, events>>

(* mrcp_client_agent_disconnect_raise: a channel with a request gets it    *)
(* cancelled, any other is told.                                           *)
DisconnectRaiseQuietly(c) == SetRequests([Requests EXCEPT
    !.told = @ \cup {ch \in channel_table[c] : active_request[ch] = 0}])

DisconnectRaise(c) ==
    LET waiting == {ch \in channel_table[c] : active_request[ch] # 0}
    IN  /\ active_request' = [ch \in Channels |-> IF ch \in waiting THEN 0 ELSE active_request[ch]]
        /\ request_timer' = request_timer \ waiting
        /\ answers' = [ch \in Channels |-> IF ch \notin waiting THEN answers[ch]
                         ELSE RequestCancel(Requests, ch, active_request[ch]).answers[ch]]
        /\ phase' = [ch \in Channels |-> IF ch \in waiting THEN "ready" ELSE phase[ch]]
        /\ told' = told \cup (channel_table[c] \ waiting)

(* mrcp_client_poller_signal_process, the connection closed or reset: it   *)
(* stays in the list.                                                      *)
Disconnect(c) ==
    /\ sock[c] = "open" /\ c \in closed
    /\ sock' = [sock EXCEPT ![c] = NULL]
    /\ ConnectionLost(c)
    /\ DisconnectRaise(c)
    /\ UNCHANGED <<request_timeout, connection_list, r_sockaddr, access_count, channel_table,
                   destroyed, rx_stream, channelVars, request_id, closed, events, late>>

Agent ==
    \/ \E ch \in Channels :
          ChannelAdd(ch) \/ ChannelModify(ch) \/ ChannelRemove(ch) \/ MessageSend(ch) \/ TimerProc(ch)
    \/ \E c \in Connections : Receive(c) \/ Disconnect(c)
-----------------------------------------------------------------------------
(* The servers *)

Reply(c, m) ==
    /\ m \in received[c] /\ c \notin closed
    /\ received' = [received EXCEPT ![c] = @ \ {m}]
    /\ wire' = [wire EXCEPT ![c] = Append(@, m)]
    /\ UNCHANGED <<request_timeout, connectionVars, rx_stream, channelVars, requestVars, phase,
                   request_id, closed, events, late>>

SendEvent(c, ch) ==
    /\ sock[c] = "open" /\ c \notin closed /\ events[c] < MaxEvents
    /\ ch \in channel_table[c]
    /\ events' = [events EXCEPT ![c] = @ + 1]
    /\ wire' = [wire EXCEPT ![c] = Append(@, Event(ch))]
    /\ UNCHANGED <<request_timeout, connectionVars, rx_stream, channelVars, requestVars, phase,
                   request_id, received, closed, late>>

Close(c) ==
    /\ sock[c] = "open" /\ c \notin closed
    /\ closed' = closed \cup {c}
    /\ received' = [received EXCEPT ![c] = {}]
    /\ UNCHANGED <<request_timeout, connectionVars, rx_stream, channelVars, requestVars, phase,
                   request_id, wire, events, late>>

ServerStep ==
    \/ \E c \in Connections : Close(c) \/ \E m \in received[c] : Reply(c, m)
    \/ \E c \in Connections, ch \in Channels : SendEvent(c, ch)

Next == Sessions \/ Agent \/ ServerStep

Spec == Init /\ [][Next]_vars

(* The agent handles every operation, reads its sockets and fires its      *)
(* timers, and a session whose channels are removed destroys them.  A      *)
(* server need not answer, unless the agent has no time-out: then nothing  *)
(* but an answer or the loss of the connection ends a request.             *)
FairSpec ==
    /\ Spec
    /\ \A ch \in Channels :
          /\ WF_vars(ChannelAdd(ch) \/ ChannelModify(ch) \/ ChannelRemove(ch) \/ MessageSend(ch))
          /\ WF_vars(TimerProc(ch))
          /\ WF_vars(ControlChannelDestroy(ch))
    /\ \A c \in Connections :
          /\ WF_vars(Receive(c)) /\ WF_vars(Disconnect(c))
          /\ WF_vars(~request_timeout /\ \E m \in received[c] : Reply(c, m))
-----------------------------------------------------------------------------
Phases == {"idle", "adding", "added", "modifying", "ready", "sending", "sent", "removing",
           "removed", "destroyed"}
Messages == [channel : Channels, id : 0..MaxRequests]

(* The state of the agent, of its connections and of its channels has the  *)
(* types its declarations give.                                            *)
TypeOK ==
    /\ request_timeout \in BOOLEAN
    /\ connection_list \in Seq(Connections)
    /\ sock \in [Connections -> {"none", "open", NULL}]
    /\ r_sockaddr \in [Connections -> Servers \cup {NULL}]
    /\ access_count \in [Connections -> Nat]
    /\ channel_table \in [Connections -> SUBSET Channels]
    /\ rx_stream \in [Connections -> Seq(Messages)] /\ wire \in [Connections -> Seq(Messages)]
    /\ received \in [Connections -> SUBSET Messages]
    /\ destroyed \subseteq Connections /\ closed \subseteq Connections /\ late \subseteq Connections
    /\ removed \subseteq Channels /\ request_timer \subseteq Channels /\ told \subseteq Channels
    /\ connection \in [Channels -> Connections \cup {NULL}]
    /\ active_request \in [Channels -> 0..MaxRequests]
    /\ request_id \in [Channels -> 0..MaxRequests]
    /\ phase \in [Channels -> Phases]

(* A channel is in the table of its connection and in no other until it is *)
(* removed, the reference counts are the sizes of the tables, and the list *)
(* has each connection with a channel once.                                *)
TablesAgree ==
    /\ TypeOK
    /\ \A ch \in Channels, c \in Connections :
          ch \in channel_table[c] <=>
              connection[ch] = c /\ phase[ch] \notin {"removed", "destroyed"}
    /\ \A c \in Connections :
          /\ access_count[c] = Cardinality(channel_table[c])
          /\ Cardinality({i \in 1..Len(connection_list) : connection_list[i] = c})
                = (IF channel_table[c] = {} THEN 0 ELSE 1)

(* A channel has a request in progress exactly while its session waits for *)
(* the answer, on a connection whose socket is open; its timer runs        *)
(* exactly then, if there is a time-out at all.  A timer or a request that *)
(* outlived the wait would be left with a channel whose memory is gone.    *)
InProgressIsWatched ==
    /\ \A ch \in Channels :
          /\ active_request[ch] = (IF phase[ch] = "sent" THEN request_id[ch] ELSE 0)
          /\ phase[ch] = "sent" => connection[ch] # NULL /\ sock[connection[ch]] = "open"
    /\ request_timer = {ch \in Channels : request_timeout /\ active_request[ch] # 0}

(* A connection is freed only when nothing refers to it, by one channel    *)
(* alone, and a connection without channels is freed or about to be.       *)
FreedExactlyUnused ==
    /\ \A c \in destroyed : sock[c] = NULL /\ channel_table[c] = {}
    /\ \A ch \in Channels : connection[ch] \notin destroyed
    /\ \A ch, other \in removed :
          connection[ch] # NULL /\ connection[ch] = connection[other] => ch = other
    /\ \A c \in Connections :
          sock[c] # "none" => c \in destroyed \/ \E ch \in Channels : connection[ch] = c

(* Every request that a session sent gets one answer, its own or a failure *)
(* of the agent: a response that comes after the time-out of its request   *)
(* is not taken for the one to the next request, and no request is         *)
(* answered twice, by a time-out and a disconnect, say.                    *)
AnsweredOnceByItsOwn ==
    \A ch \in Channels, id \in 1..MaxRequests :
        LET answered == \/ id < request_id[ch]
                        \/ id = request_id[ch] /\ phase[ch] \notin {"sending", "sent"}
        IN  IF answered THEN Len(answers[ch][id]) = 1 /\ answers[ch][id][1].id = id
            ELSE answers[ch][id] = <<>>

(* Without a request time-out no response is unexpected, so every message  *)
(* the agent receives is handled, and nothing is kept in front of the next *)
(* receive.                                                                *)
NothingHeldBack == late # {} \/ (\E c \in Connections : rx_stream[c] # <<>>) => request_timeout

(* No session waits for the answer to a request.                           *)
NobodyWaits == \A ch \in Channels : phase[ch] \notin {"sending", "sent"}
=============================================================================
