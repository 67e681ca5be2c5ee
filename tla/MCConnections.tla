--------------------------- MODULE MCConnections ---------------------------
(* The MRCPv2 connection agents.  The server has three channels and two      *)
(* connections, of clients with one address or two: a connection can be      *)
(* shared, closed while it is, and followed by another; what it has to do in *)
(* the end is checked with two channels.  The client has two channels that   *)
(* share a connection or have one each, with a request apiece; or one        *)
(* channel with three requests, for a response that comes after its time-out *)
(* to meet the next request.                                                 *)
EXTENDS ServerConnection

VARIABLES side,
          client_list, client_sock, client_count, client_table, client_destroyed,
          client_connection, client_removed, client_phase,
          request_timeout, r_sockaddr, rx_stream, active_request, request_timer, request_id,
          answers, told, wire, received, closed, events, late

TwoChannels == INSTANCE ClientConnection
    WITH Channels <- {"synth", "recog"}, Connections <- {"c1", "c2"}, Servers <- {"s"},
         MaxRequests <- 1, MaxEvents <- 0,
         connection_list <- client_list, sock <- client_sock, access_count <- client_count,
         channel_table <- client_table, destroyed <- client_destroyed,
         connection <- client_connection, removed <- client_removed, phase <- client_phase
OneChannel == INSTANCE ClientConnection
    WITH Channels <- {"recog"}, Connections <- {"c1"}, Servers <- {"s"},
         MaxRequests <- 3, MaxEvents <- 1,
         connection_list <- client_list, sock <- client_sock, access_count <- client_count,
         channel_table <- client_table, destroyed <- client_destroyed,
         connection <- client_connection, removed <- client_removed, phase <- client_phase

clientVars == <<client_list, client_sock, client_count, client_table, client_destroyed,
                client_connection, client_removed, client_phase,
                request_timeout, r_sockaddr, rx_stream, active_request, request_timer, request_id,
                answers, told, wire, received, closed, events, late>>

MCInit ==
    /\ Init
    /\ \/ side \in {"server", "small_server"} /\ OneChannel!Init /\ request_timeout
       \/ side = "two_channels" /\ TwoChannels!Init
       \/ side = "one_channel" /\ OneChannel!Init

\* the third channel of the small server is never used
MCNext ==
    /\ UNCHANGED side
    /\ \/ side = "server" /\ Next /\ UNCHANGED clientVars
       \/ side = "small_server" /\ Next /\ phase'["ch3"] = "idle" /\ UNCHANGED clientVars
       \/ side = "two_channels" /\ TwoChannels!Next /\ UNCHANGED vars
       \/ side = "one_channel" /\ OneChannel!Next /\ UNCHANGED vars

\* The agents handle every operation, read their sockets and fire their timers, and a
\* session whose channels are removed destroys them.  A server need not answer, unless
\* the agent has no time-out: then nothing but an answer or the loss of the connection
\* ends a request.
ServerServes(ch) ==
    /\ side = "small_server"
    /\ ChannelAdd(ch) \/ ChannelModify(ch) \/ ChannelRemove(ch)
SessionDestroys(ch) == side = "small_server" /\ ControlChannelDestroy(ch)

ClientServes(ch) ==
    \/ /\ side = "two_channels"
       /\ \/ TwoChannels!ChannelModify(ch) \/ TwoChannels!ChannelRemove(ch)
          \/ TwoChannels!MessageSend(ch)
    \/ /\ side = "one_channel" /\ ch = "recog"
       /\ \/ OneChannel!ChannelModify(ch) \/ OneChannel!ChannelRemove(ch)
          \/ OneChannel!MessageSend(ch)
TimerFires(ch) ==
    \/ side = "two_channels" /\ TwoChannels!TimerProc(ch)
    \/ side = "one_channel" /\ ch = "recog" /\ OneChannel!TimerProc(ch)
ClientHears(c) ==
    \/ side = "two_channels" /\ (TwoChannels!Receive(c) \/ TwoChannels!Disconnect(c))
    \/ side = "one_channel" /\ c = "c1" /\ (OneChannel!Receive(c) \/ OneChannel!Disconnect(c))
ServerAnswers(c) ==
    /\ request_timeout = FALSE
    /\ \/ side = "two_channels" /\ \E m \in received[c] : TwoChannels!Reply(c, m)
       \/ side = "one_channel" /\ c = "c1" /\ \E m \in received[c] : OneChannel!Reply(c, m)

MCSpec ==
    /\ MCInit /\ [][MCNext]_<<vars, clientVars, side>>
    /\ \A ch \in {"ch1", "ch2"} : WF_vars(ServerServes(ch)) /\ WF_vars(SessionDestroys(ch))
    /\ \A ch \in {"synth", "recog"} : WF_clientVars(ClientServes(ch)) /\ WF_clientVars(TimerFires(ch))
    /\ \A c \in {"c1", "c2"} : WF_clientVars(ClientHears(c)) /\ WF_clientVars(ServerAnswers(c))

-----------------------------------------------------------------------------
(* AnsweredOnceByItsOwn, NothingHeldBack and InProgressIsWatched of          *)
(* mrcp_client_connection.c: time-outs, disconnects and late responses       *)
(* answer each request once, with its own answer, without a time-out no      *)
(* response is unexpected, and active_request and its timer are there        *)
(* exactly while a session waits; and the tables, counts and list of the     *)
(* agent agree, and a connection is freed neither too early nor never.       *)
AnsweredOnce ==
    /\ side = "two_channels" =>
          /\ TwoChannels!AnsweredOnceByItsOwn /\ TwoChannels!NothingHeldBack
          /\ TwoChannels!InProgressIsWatched
          /\ TwoChannels!TablesAgree /\ TwoChannels!FreedExactlyUnused
    /\ side = "one_channel" =>
          /\ OneChannel!AnsweredOnceByItsOwn /\ OneChannel!NothingHeldBack
          /\ OneChannel!InProgressIsWatched
          /\ OneChannel!TablesAgree /\ OneChannel!FreedExactlyUnused

(* A connection that its client has closed is freed in the end, once the     *)
(* sessions that used it ask for the removal of their channels               *)
(* (mrcp_server_agent_connection_close and mrcp_server_agent_channel_remove) *)
ServerFrees == \A c \in Connections : (side = "small_server" /\ Unneeded(c)) ~> c \in destroyed

(* A session that sends a request gets an answer, from the server or from    *)
(* the agent: with the bounded number of requests there comes a time when    *)
(* no session waits (mrcp_client_agent_messsage_send)                        *)
RequestAnswered ==
    <>[](/\ side = "two_channels" => TwoChannels!NobodyWaits
         /\ side = "one_channel" => OneChannel!NobodyWaits)
=============================================================================
