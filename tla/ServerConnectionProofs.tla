----------------------- MODULE ServerConnectionProofs -----------------------
(***************************************************************************)
(* The tables, the counts and the container of the connection agent agree, *)
(* and connections are freed exactly when nothing refers to them, for any  *)
(* number of channels and connections.                                     *)
(***************************************************************************)
EXTENDS ServerConnection, FiniteSetTheorems, TLAPS

Holders == Connections \cup {Pending}

Held == {"added", "modifying", "removing"}

(* What the properties need of the channels: a channel refers to a         *)
(* connection while its session holds it, or while it has to destroy it;   *)
(* then the connection is closed and the channel the last one.             *)
ChannelsPlaced ==
    \A ch \in Channels :
       /\ phase[ch] \in {"idle", "adding", "destroyed"} => connection[ch] = NULL
       /\ phase[ch] \in {"idle", "adding"} \cup Held => ch \notin removed
       /\ phase[ch] \in Held => connection[ch] \in Holders
       /\ connection[ch] = Pending => phase[ch] \in Held
       /\ phase[ch] = "removed" => (connection[ch] # NULL <=> ch \in removed)

LastOnes ==
    /\ \A ch \in removed : connection[ch] # NULL =>
          /\ connection[ch] \in Connections \ destroyed
          /\ sock[connection[ch]] = NULL /\ channel_table[connection[ch]] = {}
    /\ \A ch, other \in removed :
          connection[ch] # NULL /\ connection[ch] = connection[other] => ch = other

(* What they need of the connections: listed from the accept until the     *)
(* client has closed it and no channel is left, and freed only then.       *)
ConnectionsPlaced ==
    \A c \in Connections :
       /\ c \in connection_list <=> sock[c] = "open" \/ (sock[c] = NULL /\ channel_table[c] # {})
       /\ sock[c] = "none" => channel_table[c] = {}
       /\ c \in destroyed => sock[c] = NULL /\ channel_table[c] = {}

ContainerNeeded == null_connection <=> (connection_list # {} \/ channel_table[Pending] # {})

Counted ==
    \A c \in Holders : IsFiniteSet(channel_table[c]) /\ access_count[c] = Cardinality(channel_table[c])

Inv ==
    /\ TypeOK /\ InItsTableOnly /\ Counted /\ ContainerNeeded
    /\ ChannelsPlaced /\ LastOnes /\ ConnectionsPlaced /\ ClosedIsFreed
-----------------------------------------------------------------------------
(* A channel more in a table, and one less.                                *)
LEMMA OneMore ==
    ASSUME NEW S, NEW x, IsFiniteSet(S), x \notin S
    PROVE  IsFiniteSet(S \cup {x}) /\ Cardinality(S \cup {x}) = Cardinality(S) + 1
  BY Zenon, FS_AddElement

(* A set without one of its members is smaller by one. *)
LEMMA OneLess ==
    ASSUME NEW S, NEW x \in S, IsFiniteSet(S)
    PROVE  /\ IsFiniteSet(S \ {x}) /\ Cardinality(S \ {x}) = Cardinality(S) - 1
           /\ Cardinality(S) \in Nat /\ Cardinality(S) - 1 \in Nat
           /\ Cardinality(S) = 1 <=> S \ {x} = {}
<1>1. IsFiniteSet(S \ {x}) /\ Cardinality(S \ {x}) = Cardinality(S) - 1
  BY Zenon, FS_RemoveElement
<1>2. Cardinality(S) \in Nat /\ Cardinality(S \ {x}) \in Nat
  BY Zenon, <1>1, FS_CardinalityType
<1>3. Cardinality(S \ {x}) = 0 <=> S \ {x} = {}
  BY Zenon, <1>1, FS_EmptySet
<1> QED BY <1>1, <1>2, <1>3

(* The sessions' requests and the agent's answers leave the tables alone   *)
(* (mrcp_server_agent_channel_modify).                                     *)
LEMMA PhaseInv ==
    ASSUME Inv, NEW ch \in Channels, NEW to,
           \/ phase[ch] = "idle" /\ to = "adding"
           \/ phase[ch] \in Held /\ to \in Held,
           phase' = [phase EXCEPT ![ch] = to],
           UNCHANGED <<agentVars, connectionVars, channelVars>>
    PROVE  Inv'
<1> USE DEF agentVars, connectionVars, channelVars
<1>1. TypeOK'
  BY Zenon DEF Inv, TypeOK, Phases, Held
<1>2. InItsTableOnly'
  BY DEF Inv, TypeOK, InItsTableOnly, Held
<1>3. ChannelsPlaced'
  BY Zenon DEF Inv, TypeOK, ChannelsPlaced, Held
<1>4. Counted' /\ ContainerNeeded' /\ LastOnes' /\ ConnectionsPlaced' /\ ClosedIsFreed'
  BY Zenon DEF Inv, Counted, ContainerNeeded, LastOnes, ConnectionsPlaced, ClosedIsFreed
<1> QED BY Zenon, <1>1, <1>2, <1>3, <1>4 DEF Inv

(* mrcp_server_control_channel_destroy                                     *)
LEMMA ControlChannelDestroyInv ==
    ASSUME Inv, NEW ch \in Channels, ControlChannelDestroy(ch)
    PROVE  Inv'
<1> USE ConstantsApart DEF agentVars, connectionVars, channelVars, ControlChannelDestroy
<1>1. ch \in removed => connection[ch] \in Connections \ destroyed
  BY Zenon DEF Inv, TypeOK, ChannelsPlaced, LastOnes
<1>2. TypeOK'
  BY Zenon, <1>1 DEF Inv, TypeOK, Phases
<1>3. InItsTableOnly'
  BY DEF Inv, TypeOK, InItsTableOnly, ChannelsPlaced, Held
<1>4. ChannelsPlaced'
  BY Zenon DEF Inv, TypeOK, ChannelsPlaced, Held, Holders
<1>5. LastOnes'
  BY Zenon, <1>1 DEF Inv, TypeOK, LastOnes
<1>6. ConnectionsPlaced'
  BY <1>1 DEF Inv, TypeOK, ConnectionsPlaced, LastOnes
<1>7. ClosedIsFreed'
  BY Zenon, <1>1 DEF Inv, TypeOK, ClosedIsFreed, ChannelsPlaced
<1>8. Counted' /\ ContainerNeeded'
  BY Zenon DEF Inv, Counted, ContainerNeeded
<1> QED BY Zenon, <1>2, <1>3, <1>4, <1>5, <1>6, <1>7, <1>8 DEF Inv

(* mrcp_server_agent_channel_add                                           *)
LEMMA ChannelAddInv ==
    ASSUME Inv, NEW ch \in Channels, ChannelAdd(ch)
    PROVE  Inv'
<1> USE ConstantsApart DEF agentVars, connectionVars, channelVars, ChannelAdd
<1>1. /\ connection[ch] = NULL /\ ch \notin removed
      /\ ch \notin channel_table[Pending]
  BY Zenon DEF Inv, TypeOK, ChannelsPlaced, InItsTableOnly
<1>2. TypeOK'
  BY DEF Inv, TypeOK, Phases
<1>3. InItsTableOnly'
  BY <1>1 DEF Inv, TypeOK, InItsTableOnly, Held
<1>4. Counted'
  BY Zenon, <1>1, OneMore DEF Inv, TypeOK, Counted, Holders
<1>5. ContainerNeeded'
  BY Zenon DEF Inv, TypeOK, ContainerNeeded
<1>6. ChannelsPlaced'
  BY Zenon, <1>1 DEF Inv, TypeOK, ChannelsPlaced, Held, Holders
<1>7. LastOnes'
  BY <1>1 DEF Inv, TypeOK, LastOnes
<1>8. ConnectionsPlaced'
  BY Zenon DEF Inv, TypeOK, ConnectionsPlaced
<1>9. ClosedIsFreed'
  BY Zenon, <1>1 DEF Inv, TypeOK, ClosedIsFreed
<1> QED BY Zenon, <1>2, <1>3, <1>4, <1>5, <1>6, <1>7, <1>8, <1>9 DEF Inv

(* mrcp_connection_channel_associate                                       *)
LEMMA ChannelAssociateInv ==
    ASSUME Inv, NEW c \in Connections, NEW ch \in Channels, ChannelAssociate(c, ch)
    PROVE  Inv'
<1> USE ConstantsApart DEF agentVars, connectionVars, channelVars, ChannelAssociate
<1>1. /\ connection[ch] = Pending /\ phase[ch] \in Held /\ ch \notin removed
      /\ ch \notin channel_table[c]
  BY DEF Inv, TypeOK, ChannelsPlaced, InItsTableOnly, Held
<1>c. /\ IsFiniteSet(channel_table[c]) /\ access_count[c] = Cardinality(channel_table[c])
      /\ IsFiniteSet(channel_table[Pending])
      /\ access_count[Pending] = Cardinality(channel_table[Pending])
      /\ access_count[c] \in Nat /\ ch \in channel_table[Pending]
  BY Zenon DEF Inv, TypeOK, Counted, Holders
<1>2. /\ access_count[c] \in Nat /\ access_count[Pending] - 1 \in Nat
      /\ IsFiniteSet(channel_table[Pending] \ {ch})
      /\ Cardinality(channel_table[Pending] \ {ch}) = access_count[Pending] - 1
      /\ IsFiniteSet(channel_table[c] \cup {ch})
      /\ Cardinality(channel_table[c] \cup {ch}) = access_count[c] + 1
  <2> HIDE DEF ChannelAssociate
  <2>1. /\ IsFiniteSet(channel_table[c] \cup {ch})
        /\ Cardinality(channel_table[c] \cup {ch}) = Cardinality(channel_table[c]) + 1
    BY Zenon, <1>1, <1>c, OneMore
  <2>2. /\ IsFiniteSet(channel_table[Pending] \ {ch})
        /\ Cardinality(channel_table[Pending] \ {ch}) = Cardinality(channel_table[Pending]) - 1
        /\ Cardinality(channel_table[Pending]) - 1 \in Nat
    BY Zenon, <1>c, OneLess
  <2> QED BY Zenon, <1>c, <2>1, <2>2
<1>a. \A d \in Holders :
         /\ channel_table'[d] = IF d = c THEN channel_table[c] \cup {ch}
                                ELSE IF d = Pending THEN channel_table[d] \ {ch} ELSE channel_table[d]
         /\ access_count'[d] = IF d = c THEN access_count[c] + 1
                               ELSE IF d = Pending THEN access_count[d] - 1 ELSE access_count[d]
  BY Zenon DEF Inv, TypeOK, Holders
<1>b. Counted'
  BY ZenonT(40), <1>2, <1>a DEF Inv, Counted
<1>3. TypeOK'
  BY <1>2 DEF Inv, TypeOK
<1>4. InItsTableOnly'
  BY <1>1 DEF Inv, TypeOK, InItsTableOnly, Held
<1>5. ContainerNeeded'
  BY Zenon DEF Inv, TypeOK, ContainerNeeded, ConnectionsPlaced
<1>6. ChannelsPlaced'
  BY Zenon, <1>1 DEF Inv, TypeOK, ChannelsPlaced, Held, Holders
<1>7. LastOnes'
  BY <1>1 DEF Inv, TypeOK, LastOnes
<1>8. ConnectionsPlaced'
  BY Zenon DEF Inv, TypeOK, ConnectionsPlaced
<1>9. ClosedIsFreed'
  BY Zenon, <1>1 DEF Inv, TypeOK, ClosedIsFreed
<1> QED BY Zenon, <1>b, <1>3, <1>4, <1>5, <1>6, <1>7, <1>8, <1>9 DEF Inv

(* mrcp_server_agent_channel_remove                                        *)
LEMMA ChannelRemoveInv ==
    ASSUME Inv, NEW ch \in Channels, ChannelRemove(ch)
    PROVE  Inv'
<1> DEFINE c == connection[ch]
           marked == LastOfClosed(ch)
           rest == channel_table[c] \ {ch}
<1>1. /\ c \in Holders /\ ch \notin removed /\ phase[ch] = "removing"
      /\ ch \in channel_table[c]
      /\ \A d \in Holders \ {c} : ch \notin channel_table[d]
  BY Zenon DEF ChannelRemove, Inv, TypeOK, ChannelsPlaced, InItsTableOnly, Held, Holders
<1>c. IsFiniteSet(channel_table[c]) /\ access_count[c] = Cardinality(channel_table[c])
  BY Zenon, <1>1 DEF Inv, Counted
<1>2. /\ IsFiniteSet(rest) /\ Cardinality(rest) = access_count[c] - 1 /\ access_count[c] - 1 \in Nat
      /\ access_count[c] = 1 <=> rest = {}
  BY SMTT(40), <1>1, <1>c, OneLess
<1>3. marked <=> c \in Connections /\ sock[c] = NULL /\ rest = {}
  BY Zenon, <1>1, <1>2, ConstantsApart DEF LastOfClosed, Holders
<1>4. /\ phase' = [phase EXCEPT ![ch] = "removed"]
      /\ channel_table' = [channel_table EXCEPT ![c] = rest]
      /\ access_count' = [access_count EXCEPT ![c] = @ - 1]
      /\ connection' = [connection EXCEPT ![ch] = IF marked THEN c ELSE NULL]
      /\ removed' = IF marked THEN removed \cup {ch} ELSE removed
      /\ UNCHANGED <<sock, remote_ip, destroyed>>
  BY Zenon DEF ChannelRemove
<1>5. \/ /\ c = Pending /\ rest = {} /\ ~marked
         /\ null_connection' = (connection_list # {}) /\ connection_list' = connection_list
      \/ /\ marked /\ connection_list' = connection_list \ {c}
         /\ null_connection' = (null_connection /\ (connection_list' # {} \/ channel_table[Pending] # {}))
      \/ /\ ~marked /\ ~(c = Pending /\ rest = {})
         /\ null_connection' = null_connection /\ connection_list' = connection_list
  BY Zenon, <1>2, <1>3, ConstantsApart DEF ChannelRemove, ConnectionRemove, agentVars
<1> HIDE DEF c, marked, rest
<1>6. TypeOK'
  <2>1. null_connection' \in BOOLEAN /\ connection_list' \subseteq Connections
    BY Zenon, <1>5 DEF Inv, TypeOK
  <2>2. rest \subseteq Channels
    BY Zenon, <1>1 DEF Inv, TypeOK, rest, Holders
  <2> QED BY Zenon, <1>1, <1>2, <1>4, <2>1, <2>2 DEF Inv, TypeOK, Phases, Holders
<1>7. InItsTableOnly'
  BY <1>1, <1>4 DEF Inv, TypeOK, InItsTableOnly, Held, Holders, rest, c
<1>8. Counted'
  BY Zenon, <1>1, <1>2, <1>4 DEF Inv, TypeOK, Counted, Holders
<1>9. ContainerNeeded'
  BY Zenon, <1>1, <1>3, <1>4, <1>5, ConstantsApart
  DEF Inv, TypeOK, ContainerNeeded, ConnectionsPlaced, Holders, rest
<1>10. ChannelsPlaced'
  BY Zenon, <1>1, <1>3, <1>4, ConstantsApart DEF Inv, TypeOK, ChannelsPlaced, Held, Holders
<1>11. LastOnes'
  BY <1>1, <1>3, <1>4, ConstantsApart DEF Inv, TypeOK, LastOnes, ConnectionsPlaced, Holders
<1>12. ConnectionsPlaced'
  BY Zenon, <1>1, <1>3, <1>4, <1>5, ConstantsApart DEF Inv, TypeOK, ConnectionsPlaced, Holders, rest
<1>13. ClosedIsFreed'
  <2>1. SUFFICES ASSUME NEW d \in Connections, sock[d] = NULL, d \notin destroyed
                 PROVE  \E x \in Channels : connection'[x] = d
    BY Zenon, <1>4 DEF ClosedIsFreed
  <2>2. PICK x \in Channels : connection[x] = d
    BY Zenon, <2>1 DEF Inv, ClosedIsFreed
  <2>3. CASE x # ch
    BY Zenon, <1>4, <2>2, <2>3 DEF Inv, TypeOK
  <2>4. CASE x = ch /\ marked
    BY Zenon, <1>4, <2>2, <2>4 DEF Inv, TypeOK, c
  <2>5. CASE x = ch /\ ~marked
    <3>1. PICK y \in rest : TRUE
      BY Zenon, <1>3, <2>1, <2>2, <2>5 DEF c
    <3>2. y \in Channels /\ connection[y] = d /\ y # ch
      BY Zenon, <1>1, <2>2, <2>5, <3>1 DEF Inv, TypeOK, InItsTableOnly, Holders, rest, c
    <3> QED BY Zenon, <1>4, <3>2 DEF Inv, TypeOK
  <2> QED BY Zenon, <2>3, <2>4, <2>5
<1> QED BY Zenon, <1>6, <1>7, <1>8, <1>9, <1>10, <1>11, <1>12, <1>13 DEF Inv

(* mrcp_server_agent_connection_accept                                     *)
LEMMA ConnectionAcceptInv ==
    ASSUME Inv, NEW c \in Connections, ConnectionAccept(c)
    PROVE  Inv'
<1> USE ConstantsApart DEF agentVars, connectionVars, channelVars, ConnectionAccept
<1>1. channel_table[c] = {} /\ c \notin connection_list /\ c \notin destroyed
  BY Zenon DEF Inv, ConnectionsPlaced
<1>2. TypeOK'
  BY DEF Inv, TypeOK
<1>3. ContainerNeeded'
  BY Zenon DEF Inv, TypeOK, ContainerNeeded
<1>4. ConnectionsPlaced'
  BY SMTT(40), <1>1 DEF Inv, TypeOK, ConnectionsPlaced
<1>5. LastOnes'
  BY Zenon DEF Inv, TypeOK, LastOnes
<1>6. ClosedIsFreed'
  BY SMTT(40) DEF Inv, TypeOK, ClosedIsFreed
<1>7. InItsTableOnly' /\ Counted' /\ ChannelsPlaced'
  BY Zenon DEF Inv, InItsTableOnly, Counted, ChannelsPlaced
<1> QED BY Zenon, <1>2, <1>3, <1>4, <1>5, <1>6, <1>7 DEF Inv

(* mrcp_server_agent_connection_close                                      *)
LEMMA ConnectionCloseInv ==
    ASSUME Inv, NEW c \in Connections, ConnectionClose(c)
    PROVE  Inv'
<1> USE ConstantsApart DEF agentVars, connectionVars, channelVars
<1>1. access_count[c] = 0 <=> channel_table[c] = {}
  BY Zenon, FS_EmptySet DEF Inv, Counted, Holders
<1>2. /\ sock[c] = "open" /\ sock' = [sock EXCEPT ![c] = NULL]
      /\ UNCHANGED <<remote_ip, access_count, channel_table, channelVars, phase>>
  BY Zenon DEF ConnectionClose
<1>3. \/ /\ channel_table[c] = {} /\ destroyed' = destroyed \cup {c}
         /\ connection_list' = connection_list \ {c}
         /\ null_connection' = (null_connection /\ (connection_list' # {} \/ channel_table[Pending] # {}))
      \/ channel_table[c] # {} /\ UNCHANGED <<agentVars, destroyed>>
  BY Zenon, <1>1 DEF ConnectionClose, ConnectionRemove
<1>4. TypeOK'
  BY Zenon, <1>2, <1>3 DEF Inv, TypeOK
<1>5. ContainerNeeded'
  <2>1. null_connection
    BY Zenon, <1>2 DEF Inv, ConnectionsPlaced, ContainerNeeded
  <2> QED BY Zenon, <1>2, <1>3, <2>1 DEF Inv, ContainerNeeded
<1>6. ConnectionsPlaced'
  BY Zenon, <1>2, <1>3 DEF Inv, TypeOK, ConnectionsPlaced
<1>7. LastOnes'
  BY Zenon, <1>2, <1>3 DEF Inv, TypeOK, LastOnes
<1>8. ClosedIsFreed'
  <2>1. channel_table[c] # {} => \E ch \in Channels : connection[ch] = c
    BY SMTT(40) DEF Inv, TypeOK, InItsTableOnly
  <2> QED BY Zenon, <1>2, <1>3, <2>1 DEF Inv, TypeOK, ClosedIsFreed
<1>9. InItsTableOnly' /\ Counted' /\ ChannelsPlaced'
  BY Zenon, <1>2 DEF Inv, InItsTableOnly, Counted, ChannelsPlaced
<1> QED BY Zenon, <1>4, <1>5, <1>6, <1>7, <1>8, <1>9 DEF Inv
-----------------------------------------------------------------------------
(* The agent starts with no connection and no channel.                     *)
LEMMA InvInit == Init => Inv
<1> SUFFICES ASSUME Init PROVE Inv
  OBVIOUS
<1> USE DEF Init
<1>1. TypeOK /\ InItsTableOnly
  BY Zenon DEF TypeOK, Phases, InItsTableOnly
<1>2. Counted
  BY Zenon, FS_EmptySet DEF Counted, Holders
<1>3. ContainerNeeded /\ ChannelsPlaced /\ LastOnes
  BY Zenon, ConstantsApart DEF ContainerNeeded, ChannelsPlaced, LastOnes, Held
<1>4. ConnectionsPlaced /\ ClosedIsFreed
  BY Zenon, ConstantsApart DEF ConnectionsPlaced, ClosedIsFreed
<1> QED BY Zenon, <1>1, <1>2, <1>3, <1>4 DEF Inv

(* Every step of the sessions and of the agent keeps the invariant.        *)
LEMMA InvNext == Inv /\ [Next]_vars => Inv'
<1> SUFFICES ASSUME Inv, [Next]_vars PROVE Inv'
  OBVIOUS
<1>1. ASSUME NEW ch \in Channels, NEW from, NEW to, ControlRequest(ch, from, to),
             \/ from = "idle" /\ to = "adding"
             \/ from = "added" /\ to \in {"modifying", "removing"}
      PROVE  Inv'
  BY Zenon, <1>1, PhaseInv DEF ControlRequest, Held
<1>2. ASSUME NEW ch \in Channels, ChannelModify(ch) PROVE Inv'
  BY Zenon, <1>2, PhaseInv DEF ChannelModify, Held
<1>3. CASE Sessions
  BY Zenon, <1>1, <1>3, ControlChannelDestroyInv DEF Sessions
<1>4. CASE Agent
  BY Zenon, <1>2, <1>4, ChannelAddInv, ChannelRemoveInv, ConnectionAcceptInv, ConnectionCloseInv,
     ChannelAssociateInv DEF Agent
<1>5. CASE UNCHANGED vars
  BY <1>5 DEF vars, agentVars, connectionVars, channelVars, Inv, TypeOK, InItsTableOnly, Counted,
     ContainerNeeded, ChannelsPlaced, LastOnes, ConnectionsPlaced, ClosedIsFreed
<1> QED BY Zenon, <1>3, <1>4, <1>5 DEF Next

(* For any number of channels and connections: a channel is in the table   *)
(* of its connection and in no other, access_count is the number of        *)
(* channels in the table, and null_connection exists exactly as long as it *)
(* is needed.                                                              *)
THEOREM TablesAgreeAlways == Spec => []TablesAgree
<1>1. Inv => TablesAgree
  BY Zenon DEF Inv, TablesAgree, Counted, Holders, AccessCountMatches, ContainerKept, ContainerNeeded,
     ConnectionsPlaced
<1> QED BY InvInit, InvNext, <1>1, PTL DEF Spec

(* For any number of channels and connections: mrcp_connection_destroy is  *)
(* called for a connection that nothing refers to any more, and a          *)
(* connection its client has closed is freed or has a channel that will.   *)
THEOREM FreedExactlyUnusedAlways == Spec => []FreedExactlyUnused
<1>1. ASSUME Inv PROVE NothingRefersToFreed
  <2>1. connection_list \cap destroyed = {}
    BY Zenon, <1>1, ConstantsApart DEF Inv, TypeOK, ConnectionsPlaced
  <2>2. ASSUME NEW ch \in Channels PROVE connection[ch] \notin destroyed
    <3>1. CASE phase[ch] \in Held
      BY Zenon, <1>1, <3>1 DEF Inv, TypeOK, InItsTableOnly, ConnectionsPlaced, ChannelsPlaced, Held, Holders
    <3>2. CASE phase[ch] \notin Held
      BY Zenon, <1>1, <3>2, ConstantsApart DEF Inv, TypeOK, Phases, ChannelsPlaced, LastOnes, Held
    <3> QED BY Zenon, <3>1, <3>2
  <2>3. \A c \in destroyed : sock[c] = NULL
    BY Zenon, <1>1 DEF Inv, TypeOK, ConnectionsPlaced
  <2> QED BY Zenon, <1>1, <2>1, <2>2, <2>3 DEF NothingRefersToFreed, Inv, LastOnes
<1>2. Inv => FreedExactlyUnused
  BY Zenon, <1>1 DEF FreedExactlyUnused, Inv
<1> QED BY InvInit, InvNext, <1>2, PTL DEF Spec

(* ConnectionsSound of mrcp_server_connection.c, for any number of         *)
(* channels and connections: both of the above.                            *)
THEOREM ConnectionsSoundAlways == Spec => []ConnectionsSound
<1>1. TablesAgree /\ FreedExactlyUnused => ConnectionsSound
  BY Zenon DEF ConnectionsSound
<1> QED BY <1>1, TablesAgreeAlways, FreedExactlyUnusedAlways, PTL
=============================================================================
