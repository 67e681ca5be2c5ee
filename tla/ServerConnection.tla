-------------------------- MODULE ServerConnection --------------------------
(***************************************************************************)
(* The MRCPv2 connection agent of the server, mrcp_server_connection.c:    *)
(* TCP connections, the control channels attached to them, and the         *)
(* container (null_connection) of the channels that no client has used     *)
(* yet.  The agent is one thread; the sessions that own the channels run   *)
(* in the server task.  Each channel has at most one request under way, so *)
(* phase says who has to act on it next.                                   *)
(*                                                                         *)
(* Objects live in memory pools and are freed with them: a connection with *)
(* its own pool, the sockets and the list of connections with the pool of  *)
(* the container.                                                          *)
(***************************************************************************)
EXTENDS Naturals, FiniteSets

CONSTANTS Channels,     \* control channels, of any number of sessions
          Connections,  \* TCP connections, in the order of no one
          Ips,          \* addresses of clients
          Pending,      \* stands for null_connection
          NULL

ASSUME ConstantsApart ==
    /\ Pending \notin Connections /\ NULL \notin Connections /\ Pending # NULL
    /\ NULL \notin Ips \cup {"none", "open"}

VARIABLES null_connection,  \* BOOLEAN: the container exists
          connection_list,
          sock,          \* "none" before the connection, then "open", then NULL
          remote_ip,
          access_count, channel_table,  \* of a connection or the container
          destroyed,     \* connections whose pool is destroyed
          connection,    \* of a channel
          removed,       \* channels that have to destroy their connection
          phase,         \* of a channel: which request of its session is under way
          answer         \* of a channel: the connection type of its answer

agentVars == <<null_connection, connection_list>>
connectionVars == <<sock, remote_ip, access_count, channel_table, destroyed>>
channelVars == <<connection, removed>>
vars == <<agentVars, connectionVars, channelVars, phase, answer>>

Init ==
    /\ null_connection = FALSE /\ connection_list = {}
    /\ sock = [c \in Connections |-> "none"]
    /\ remote_ip = [c \in Connections |-> NULL]
    /\ access_count = [c \in Connections \cup {Pending} |-> 0]
    /\ channel_table = [c \in Connections \cup {Pending} |-> {}]
    /\ destroyed = {}
    /\ connection = [ch \in Channels |-> NULL] /\ removed = {}
    /\ phase = [ch \in Channels |-> "idle"]
    /\ answer = [ch \in Channels |-> NULL]
-----------------------------------------------------------------------------
(* The requests of the sessions *)

ControlRequest(ch, from, to) ==
    /\ phase[ch] = from
    /\ phase' = [phase EXCEPT ![ch] = to]
    /\ UNCHANGED <<agentVars, connectionVars, channelVars, answer>>

(* mrcp_server_control_channel_destroy, when the session ends: the channel *)
(* that was removed last destroys a connection the client has closed.      *)
ControlChannelDestroy(ch) ==
    /\ phase[ch] = "removed"
    /\ phase' = [phase EXCEPT ![ch] = "destroyed"]
    /\ destroyed' = IF ch \in removed THEN destroyed \cup {connection[ch]} ELSE destroyed
    /\ connection' = IF ch \in removed THEN [connection EXCEPT ![ch] = NULL] ELSE connection
    /\ UNCHANGED <<agentVars, sock, remote_ip, access_count, channel_table, removed, answer>>

Sessions ==
    \E ch \in Channels :
        \/ ControlRequest(ch, "idle", "adding")
        \/ ControlRequest(ch, "added", "modifying")
        \/ ControlRequest(ch, "added", "removing")
        \/ ControlChannelDestroy(ch)
-----------------------------------------------------------------------------
(* The channels, as the agent handles the requests *)

(* mrcp_connection_find *)
ConnectionFind(ip) == {c \in connection_list : remote_ip[c] = ip}

(* mrcp_server_agent_channel_add: a client that asks for an existing       *)
(* connection is told to make a new one when none is found, or always, if  *)
(* the agent is configured so.  answer.open is no part of the answer: it   *)
(* records whether the client had a connection at the time.                *)
ChannelAdd(ch) ==
    /\ phase[ch] = "adding"
    /\ phase' = [phase EXCEPT ![ch] = "added"]
    /\ \E type \in {"NEW", "EXISTING"}, ip \in Ips :
          answer' = [answer EXCEPT ![ch] =
                        [type |-> IF ConnectionFind(ip) = {} THEN "NEW" ELSE type,
                         open |-> \E c \in Connections : remote_ip[c] = ip /\ sock[c] = "open"]]
    /\ null_connection' = TRUE
    /\ channel_table' = [channel_table EXCEPT ![Pending] = @ \cup {ch}]
    /\ access_count' = [access_count EXCEPT ![Pending] = @ + 1]
    /\ connection' = [connection EXCEPT ![ch] = Pending]
    /\ UNCHANGED <<connection_list, sock, remote_ip, destroyed, removed>>

(* mrcp_server_agent_channel_modify only answers. *)
ChannelModify(ch) ==
    /\ phase[ch] = "modifying"
    /\ phase' = [phase EXCEPT ![ch] = "added"]
    /\ UNCHANGED <<agentVars, connectionVars, channelVars, answer>>

(* mrcp_connection_remove, for a connection the list may hold: the         *)
(* container goes with the last connection unless channels are pending.    *)
ConnectionRemove(c) ==
    /\ connection_list' = connection_list \ {c}
    /\ null_connection' = (null_connection /\ (connection_list' # {} \/ channel_table[Pending] # {}))

(* The channel is the last one of a connection its client has closed. *)
LastOfClosedNever(ch) == FALSE
LastOfClosed(ch) ==
    /\ connection[ch] # Pending /\ sock[connection[ch]] = NULL
    /\ access_count[connection[ch]] = 1

(* mrcp_server_agent_channel_remove *)
ChannelRemove(ch) ==
    LET c == connection[ch]
        last == access_count[c] = 1
        marked == LastOfClosed(ch)
    IN  /\ phase[ch] = "removing"
        /\ phase' = [phase EXCEPT ![ch] = "removed"]
        /\ channel_table' = [channel_table EXCEPT ![c] = @ \ {ch}]
        /\ access_count' = [access_count EXCEPT ![c] = @ - 1]
        /\ connection' = [connection EXCEPT ![ch] = IF marked THEN c ELSE NULL]
        /\ removed' = IF marked THEN removed \cup {ch} ELSE removed
        /\ \/ /\ last /\ c = Pending
              /\ null_connection' = (connection_list # {})
              /\ UNCHANGED connection_list
           \/ /\ marked
              /\ ConnectionRemove(c)
           \/ /\ ~marked /\ ~(last /\ c = Pending)
              /\ UNCHANGED agentVars
        /\ UNCHANGED <<sock, remote_ip, destroyed, answer>>
-----------------------------------------------------------------------------
(* The connections, as the poller signals their sockets *)

(* mrcp_server_agent_connection_accept; without a container the connection *)
(* is rejected.  The agent may fail to set up a connection it accepted.    *)
ConnectionAccept(c) ==
    /\ sock[c] = "none" /\ null_connection
    /\ \/ /\ sock' = [sock EXCEPT ![c] = "open"]
          /\ \E ip \in Ips : remote_ip' = [remote_ip EXCEPT ![c] = ip]
          /\ connection_list' = connection_list \cup {c}
          /\ UNCHANGED destroyed
       \/ /\ sock' = [sock EXCEPT ![c] = NULL]
          /\ destroyed' = destroyed \cup {c}
          /\ UNCHANGED <<remote_ip, connection_list>>
    /\ UNCHANGED <<null_connection, access_count, channel_table, channelVars, phase, answer>>

(* mrcp_server_agent_connection_close *)
ConnectionClose(c) ==
    /\ sock[c] = "open"
    /\ sock' = [sock EXCEPT ![c] = NULL]
    /\ IF access_count[c] = 0
       THEN ConnectionRemove(c) /\ destroyed' = destroyed \cup {c}
       ELSE UNCHANGED <<agentVars, destroyed>>
    /\ UNCHANGED <<remote_ip, access_count, channel_table, channelVars, phase, answer>>

(* mrcp_server_message_handler and mrcp_connection_channel_associate: the  *)
(* first message to a pending channel attaches it to the connection.  A    *)
(* message to a channel of this connection goes to its session and changes *)
(* nothing here; to any other channel, it is dropped.                      *)
ChannelAssociateUncounted(c, ch) ==
    /\ sock[c] = "open" /\ ch \in channel_table[Pending]
    /\ channel_table' = [channel_table EXCEPT ![Pending] = @ \ {ch}, ![c] = @ \cup {ch}]
    /\ access_count' = [access_count EXCEPT ![Pending] = @ - 1]
    /\ connection' = [connection EXCEPT ![ch] = c]
    /\ UNCHANGED <<agentVars, sock, remote_ip, destroyed, removed, phase, answer>>

ChannelAssociate(c, ch) ==
    /\ sock[c] = "open" /\ ch \in channel_table[Pending]
    /\ channel_table' = [channel_table EXCEPT ![Pending] = @ \ {ch}, ![c] = @ \cup {ch}]
    /\ access_count' = [access_count EXCEPT ![Pending] = @ - 1, ![c] = @ + 1]
    /\ connection' = [connection EXCEPT ![ch] = c]
    /\ UNCHANGED <<agentVars, sock, remote_ip, destroyed, removed, phase, answer>>

Agent ==
    \/ \E ch \in Channels : ChannelAdd(ch) \/ ChannelModify(ch) \/ ChannelRemove(ch)
    \/ \E c \in Connections : ConnectionAccept(c) \/ ConnectionClose(c)
    \/ \E c \in Connections, ch \in Channels : ChannelAssociate(c, ch)

Next == Sessions \/ Agent

Spec == Init /\ [][Next]_vars

(* The agent handles every request, and a session whose channels are       *)
(* removed destroys them.  Clients and sessions may last for ever.         *)
FairSpec ==
    /\ Spec
    /\ \A ch \in Channels :
          /\ WF_vars(ChannelAdd(ch) \/ ChannelModify(ch) \/ ChannelRemove(ch))
          /\ WF_vars(ControlChannelDestroy(ch))
-----------------------------------------------------------------------------
Phases == {"idle", "adding", "added", "modifying", "removing", "removed", "destroyed"}

(* The state of the agent, of its connections and of its channels has the  *)
(* types its declarations give.                                            *)
TypeOK ==
    /\ null_connection \in BOOLEAN
    /\ connection_list \subseteq Connections
    /\ sock \in [Connections -> {"none", "open", NULL}]
    /\ remote_ip \in [Connections -> Ips \cup {NULL}]
    /\ access_count \in [Connections \cup {Pending} -> Nat]
    /\ channel_table \in [Connections \cup {Pending} -> SUBSET Channels]
    /\ destroyed \subseteq Connections /\ removed \subseteq Channels
    /\ connection \in [Channels -> Connections \cup {Pending, NULL}]
    /\ phase \in [Channels -> Phases]

(* A channel that its session has added and not yet seen removed is in the *)
(* table of its connection and in no other; a channel the session may      *)
(* destroy is in none, so no message is passed to a session that is gone.  *)
InItsTableOnly ==
    \A ch \in Channels, c \in Connections \cup {Pending} :
        ch \in channel_table[c] <=>
            connection[ch] = c /\ phase[ch] \in {"added", "modifying", "removing"}

(* The reference count of a connection is the number of its channels: the  *)
(* two tests for "the last channel", one on access_count and one on the    *)
(* size of the table, agree.                                               *)
AccessCountMatches ==
    \A c \in Connections \cup {Pending} : access_count[c] = Cardinality(channel_table[c])

(* The container exists exactly as long as it is needed: some channel is   *)
(* pending or some connection is listed.  Its pool holds the list and all  *)
(* sockets, so it must outlive them; and were it kept without need, the    *)
(* agent would accept connections for which it has no channel.             *)
ContainerKept ==
    /\ null_connection <=> (connection_list # {} \/ channel_table[Pending] # {})
    /\ \A c \in Connections : sock[c] = "open" => c \in connection_list

(* Types, InItsTableOnly, AccessCountMatches and ContainerKept: whatever   *)
(* the order in which clients, sessions and the agent act, the tables, the *)
(* counts and the container of mrcp_connection_agent_t agree.              *)
TablesAgree == TypeOK /\ InItsTableOnly /\ AccessCountMatches /\ ContainerKept

(* A connection is freed only when nothing refers to it: the list, a       *)
(* channel, and an open socket whose descriptor the poller holds.  A       *)
(* channel that has to destroy its connection is the only one that does.   *)
NothingRefersToFreed ==
    /\ connection_list \cap destroyed = {}
    /\ \A ch \in Channels : connection[ch] \notin destroyed
    /\ \A c \in destroyed : sock[c] = NULL
    /\ \A ch, other \in removed :
          connection[ch] # NULL /\ connection[ch] = connection[other] => ch = other

(* A connection that its client has closed is freed, or some channel still *)
(* refers to it, and will when it is removed and destroyed.                *)
ClosedIsFreed ==
    \A c \in Connections :
        sock[c] = NULL => c \in destroyed \/ \E ch \in Channels : connection[ch] = c

(* NothingRefersToFreed and ClosedIsFreed: mrcp_connection_destroy is      *)
(* called for a closed connection neither too early nor never.             *)
FreedExactlyUnused == NothingRefersToFreed /\ ClosedIsFreed

(* TablesAgree and FreedExactlyUnused of mrcp_server_connection.c: the     *)
(* tables, counts and list of the agent agree, and mrcp_connection_destroy *)
(* is called for a connection neither too early nor never                  *)
ConnectionsSound == TablesAgree /\ FreedExactlyUnused

(* A connection that its client has closed is freed in the end, once the   *)
(* sessions that used it ask for the removal of their channels.            *)
Unneeded(c) ==
    /\ sock[c] = NULL
    /\ \A ch \in Channels :
          connection[ch] = c => phase[ch] \in {"removing", "removed", "destroyed"}

(* A client is told to use an existing connection only when it has one.    *)
FoundIsOpen ==
    \A ch \in Channels : answer[ch] # NULL /\ answer[ch].type = "EXISTING" => answer[ch].open
=============================================================================
