-------------------------- MODULE IBCChannel_proofs --------------------------
(***************************************************************************)
(* Channels stand on connections: every existing channel end is over an    *)
(* existing connection, every OPEN one over an OPEN connection.  They      *)
(* belong to the application that owns their port.  Between chains whose   *)
(* clients track each other, ends that are OPEN agree, as the connection   *)
(* ends under them do, and a packet that its sender may treat as lost is   *)
(* received no more.                                                       *)
(***************************************************************************)
EXTENDS IBCConnection_proofs

\* Identifiers still to be generated are unused.
IdentifiersUnused ==
    \A c \in Chain :
      /\ \A id \in ConnectionId : id >= nextConnectionSequence[c] =>
           connections[c][id].state = "UNINITIALIZED_UNSPECIFIED"
      /\ \A portId \in Port, id \in ChannelId : id >= nextChannelSequence[c] =>
           channels[c][<<portId, id>>].state = "UNINITIALIZED_UNSPECIFIED"

\* A channel end has one hop, over a connection as far along as it needs.
Supports(channelState, connectionState) ==
    \/ channelState = "UNINITIALIZED_UNSPECIFIED"
    \/ /\ channelState \in {"INIT", "TRYOPEN"}
       /\ connectionState # "UNINITIALIZED_UNSPECIFIED"
    \/ connectionState = "OPEN"

ChannelsSupported ==
    \A c \in Chain, end \in End :
      channels[c][end].state # "UNINITIALIZED_UNSPECIFIED" =>
        /\ Len(channels[c][end].connection_hops) = 1
        /\ channels[c][end].connection_hops[1] \in ConnectionId
        /\ Supports(channels[c][end].state, channelConnection(c, end).state)

ChannelInv == TypeOK /\ IdentifiersUnused /\ ChannelsSupported

-----------------------------------------------------------------------------
(* Connections never fall back                                             *)

ConnectionsKept ==
    \A c \in Chain, id \in ConnectionId :
      \/ connections[c][id].state = "UNINITIALIZED_UNSPECIFIED"
      \/ connections'[c][id].state = connections[c][id].state
      \/ connections'[c][id].state = "OPEN"

LEMMA KeptSupports ==
    ASSUME ChannelInv, ConnectionsKept, UNCHANGED channels
    PROVE  ChannelsSupported'
<1> SUFFICES ASSUME NEW c \in Chain, NEW end \in End,
                    channels[c][end].state # "UNINITIALIZED_UNSPECIFIED"
             PROVE  /\ Len(channels[c][end].connection_hops) = 1
                    /\ channels[c][end].connection_hops[1] \in ConnectionId
                    /\ Supports(channels[c][end].state,
                                channelConnection(c, end)'.state)
  BY DEF ChannelsSupported
<1> DEFINE id == channels[c][end].connection_hops[1]
<1>1. /\ Len(channels[c][end].connection_hops) = 1
      /\ id \in ConnectionId
      /\ Supports(channels[c][end].state, connections[c][id].state)
  BY DEF ChannelInv, ChannelsSupported, channelConnection
<1>2. channelConnection(c, end)' = connections'[c][id]
  BY DEF channelConnection
<1> QED
  BY <1>1, <1>2 DEF ConnectionsKept, Supports

\* A step of the connection handshake fills an unused end or opens one.
LEMMA NewConnectionKept ==
    ASSUME TypeOK, IdentifiersUnused, NEW c \in Chain, NEW f,
           UNCHANGED channelVars,
           \E id \in ConnectionId :
             generateConnectionIdentifier(c, id) /\ setConnection(c, id, f)
    PROVE  IdentifiersUnused' /\ ConnectionsKept
<1>1. PICK id \in ConnectionId :
        /\ id = nextConnectionSequence[c]
        /\ nextConnectionSequence' = [nextConnectionSequence EXCEPT ![c] = id + 1]
        /\ connections' = [connections EXCEPT ![c][id] = f]
  BY DEF generateConnectionIdentifier, setConnection
<1>2. /\ connections \in [Chain -> [ConnectionId -> ConnectionEnd]]
      /\ nextConnectionSequence \in [Chain -> 0 .. MaxConnections]
  BY DEF TypeOK, HostTypeOK, ConnectionTypeOK
<1>3. connections[c][id].state = "UNINITIALIZED_UNSPECIFIED"
  BY <1>1, <1>2, NumberAssumption DEF IdentifiersUnused, ConnectionId
<1>4. \A d \in Chain, k \in ConnectionId :
        /\ k \in Nat
        /\ connections'[d][k] = IF d = c /\ k = id THEN f ELSE connections[d][k]
        /\ nextConnectionSequence'[d] =
              IF d = c THEN id + 1 ELSE nextConnectionSequence[d]
  BY <1>1, <1>2, NumberAssumption DEF ConnectionId
<1>5. ASSUME NEW d \in Chain, NEW k \in ConnectionId,
             k >= nextConnectionSequence'[d]
      PROVE  connections'[d][k].state = "UNINITIALIZED_UNSPECIFIED"
  <2>1. k \in Nat /\ id \in Nat /\ nextConnectionSequence[d] \in Nat
    BY <1>2, <1>4, NumberAssumption
  <2>2. k >= nextConnectionSequence[d] /\ ~ (d = c /\ k = id)
    BY <1>1, <1>4, <1>5, <2>1
  <2> QED
    BY <1>4, <2>2 DEF IdentifiersUnused
<1>6. UNCHANGED <<channels, nextChannelSequence>>
  BY DEF channelVars
<1> QED
  BY <1>3, <1>4, <1>5, <1>6 DEF IdentifiersUnused, ConnectionsKept

LEMMA OpenedConnectionKept ==
    ASSUME TypeOK, IdentifiersUnused, NEW c \in Chain, NEW f,
           NEW id \in ConnectionId, connectionFound(c, id), f.state = "OPEN",
           setConnection(c, id, f), UNCHANGED <<nextConnectionSequence, channelVars>>
    PROVE  IdentifiersUnused' /\ ConnectionsKept
<1>1. connections \in [Chain -> [ConnectionId -> ConnectionEnd]]
  BY DEF TypeOK, HostTypeOK, ConnectionTypeOK
<1>2. \A d \in Chain, k \in ConnectionId :
        connections'[d][k] = IF d = c /\ k = id THEN f ELSE connections[d][k]
  BY <1>1 DEF setConnection
<1>3. UNCHANGED <<channels, nextChannelSequence>>
  BY DEF channelVars
<1> QED
  BY <1>2, <1>3 DEF IdentifiersUnused, ConnectionsKept, connectionFound

LEMMA ConnectionNextInv ==
    ASSUME ChannelInv, NEW c \in Chain, ConnectionNext(c) PROVE ChannelInv'
<1>1. TypeOK'
  BY ConnectionStepType DEF ChannelInv
<1>2. IdentifiersUnused' /\ ConnectionsKept /\ UNCHANGED channels
  <2>1. CASE ConnectionOpenInit(c)
    BY <2>1, NewConnectionKept
    DEF ChannelInv, ConnectionOpenInit, connectionOpenInit, channelVars
  <2>2. CASE ConnectionOpenTry(c)
    BY <2>2, NewConnectionKept
    DEF ChannelInv, ConnectionOpenTry, connectionOpenTry, channelVars
  <2>3. CASE ConnectionOpenAck(c)
    <3>1. PICK id \in ConnectionId, connectionId \in ConnectionId,
               chain \in Chain, version \in Version,
               proofHeight \in 1 .. MaxHeight :
            connectionOpenAck(c, id, chain, version, connectionId, proofHeight)
      BY <2>3 DEF ConnectionOpenAck
    <3> DEFINE f == [connections[c][id] EXCEPT
                       !.state = "OPEN", !.versions = makeVersionArray(version),
                       !.counterparty.connection_id = connectionId]
    <3>2. f.state = "OPEN"
      BY DEF ChannelInv, TypeOK, HostTypeOK, ConnectionTypeOK, ConnectionEnd
    <3>3. /\ connectionFound(c, id) /\ setConnection(c, id, f)
          /\ UNCHANGED <<nextConnectionSequence, channelVars>>
      BY <3>1 DEF connectionOpenAck
    <3> HIDE DEF f
    <3> QED
      BY <3>2, <3>3, OpenedConnectionKept DEF ChannelInv, channelVars
  <2>4. CASE ConnectionOpenConfirm(c)
    <3>1. PICK id \in ConnectionId, proofHeight \in 1 .. MaxHeight :
            connectionOpenConfirm(c, id, proofHeight)
      BY <2>4 DEF ConnectionOpenConfirm
    <3> DEFINE f == [connections[c][id] EXCEPT !.state = "OPEN"]
    <3>2. f.state = "OPEN"
      BY DEF ChannelInv, TypeOK, HostTypeOK, ConnectionTypeOK, ConnectionEnd
    <3>3. /\ connectionFound(c, id) /\ setConnection(c, id, f)
          /\ UNCHANGED <<nextConnectionSequence, channelVars>>
      BY <3>1 DEF connectionOpenConfirm
    <3> HIDE DEF f
    <3> QED
      BY <3>2, <3>3, OpenedConnectionKept DEF ChannelInv, channelVars
  <2> QED
    BY <2>1, <2>2, <2>3, <2>4 DEF ConnectionNext
<1> QED
  BY <1>1, <1>2, KeptSupports DEF ChannelInv

-----------------------------------------------------------------------------
(* Steps of the channel handshake                                          *)

\* A new end was unused, and is over a connection that exists.
LEMMA NewChannel ==
    ASSUME ChannelInv, NEW c \in Chain, NEW portId \in Port,
           NEW id \in ChannelId, NEW channel,
           channel.state \in {"INIT", "TRYOPEN"}, openable(c, channel),
           generateChannelIdentifier(c, id),
           setChannel(c, <<portId, id>>, channel), UNCHANGED connectionVars
    PROVE  /\ channels[c][<<portId, id>>].state = "UNINITIALIZED_UNSPECIFIED"
           /\ IdentifiersUnused'
           /\ ChannelsSupported'
<1> DEFINE end == <<portId, id>>
<1>1. /\ id = nextChannelSequence[c]
      /\ nextChannelSequence' = [nextChannelSequence EXCEPT ![c] = id + 1]
      /\ channels' = [channels EXCEPT ![c][end] = channel]
      /\ UNCHANGED <<connections, nextConnectionSequence>>
  BY DEF generateChannelIdentifier, setChannel, connectionVars
<1>2. /\ channels \in [Chain -> [End -> ChannelEnd]]
      /\ nextChannelSequence \in [Chain -> 0 .. MaxChannels]
      /\ end \in End
  BY DEF ChannelInv, TypeOK, HostTypeOK, ChannelTypeOK, End
<1>3. \A n \in ChannelId : n \in Nat
  BY NumberAssumption DEF ChannelId
<1>4. channels[c][end].state = "UNINITIALIZED_UNSPECIFIED"
  BY <1>1, <1>3 DEF ChannelInv, IdentifiersUnused
<1>5. \A d \in Chain, e \in End :
        channels'[d][e] = IF d = c /\ e = end THEN channel ELSE channels[d][e]
  BY <1>1, <1>2
<1>6. ASSUME NEW d \in Chain, NEW p \in Port, NEW n \in ChannelId,
             n >= nextChannelSequence'[d]
      PROVE  channels'[d][<<p, n>>].state = "UNINITIALIZED_UNSPECIFIED"
  <2>1. /\ nextChannelSequence[d] \in Nat /\ n \in Nat /\ id \in Nat
        /\ <<p, n>> \in End
    BY <1>2, <1>3, NumberAssumption DEF End
  <2>2. n >= nextChannelSequence[d] /\ ~ (d = c /\ n = id)
    BY <1>1, <1>2, <1>6, <2>1
  <2>3. channels'[d][<<p, n>>] = channels[d][<<p, n>>]
    BY <1>5, <2>1, <2>2
  <2> QED
    BY <2>2, <2>3 DEF ChannelInv, IdentifiersUnused
<1>7. IdentifiersUnused'
  BY <1>1, <1>6 DEF ChannelInv, IdentifiersUnused
<1>8. ChannelsSupported'
  <2> SUFFICES ASSUME NEW d \in Chain, NEW e \in End,
                      channels'[d][e].state # "UNINITIALIZED_UNSPECIFIED"
               PROVE  /\ Len(channels'[d][e].connection_hops) = 1
                      /\ channels'[d][e].connection_hops[1] \in ConnectionId
                      /\ Supports(channels'[d][e].state,
                           connections'[d][channels'[d][e].connection_hops[1]].state)
    BY DEF ChannelsSupported, channelConnection
  <2>1. CASE d = c /\ e = end
    BY <1>1, <1>5, <2>1 DEF openable, connectionFound, Supports
  <2>2. CASE ~ (d = c /\ e = end)
    BY <1>1, <1>5, <2>2 DEF ChannelInv, ChannelsSupported, channelConnection
  <2> QED
    BY <2>1, <2>2
<1> QED
  BY <1>4, <1>7, <1>8

\* An end is opened over its own hop, once the connection there is OPEN.
LEMMA OpenedChannel ==
    ASSUME ChannelInv, NEW c \in Chain, NEW end \in End, NEW f,
           channelFound(c, end), connectionIsOpen(c, end),
           f.state = "OPEN", f.connection_hops = channels[c][end].connection_hops,
           setChannel(c, end, f), UNCHANGED <<connectionVars, nextChannelSequence>>
    PROVE  IdentifiersUnused' /\ ChannelsSupported'
<1>1. channels \in [Chain -> [End -> ChannelEnd]]
  BY DEF ChannelInv, TypeOK, HostTypeOK, ChannelTypeOK
<1>2. \A d \in Chain, e \in End :
        channels'[d][e] = IF d = c /\ e = end THEN f ELSE channels[d][e]
  BY <1>1 DEF setChannel
<1>3. UNCHANGED <<connections, nextConnectionSequence>>
  BY DEF connectionVars
<1>4. \A p \in Port, n \in ChannelId : <<p, n>> \in End
  BY DEF End
<1>5. IdentifiersUnused'
  BY <1>2, <1>3, <1>4 DEF ChannelInv, IdentifiersUnused, channelFound
<1>6. ChannelsSupported'
  <2> SUFFICES ASSUME NEW d \in Chain, NEW e \in End,
                      channels'[d][e].state # "UNINITIALIZED_UNSPECIFIED"
               PROVE  /\ Len(channels'[d][e].connection_hops) = 1
                      /\ channels'[d][e].connection_hops[1] \in ConnectionId
                      /\ Supports(channels'[d][e].state,
                           connections'[d][channels'[d][e].connection_hops[1]].state)
    BY DEF ChannelsSupported, channelConnection
  <2>1. CASE d = c /\ e = end
    <3>1. /\ Len(channels[c][end].connection_hops) = 1
          /\ channels[c][end].connection_hops[1] \in ConnectionId
      BY DEF ChannelInv, ChannelsSupported, channelFound
    <3>2. connections[c][channels[c][end].connection_hops[1]].state = "OPEN"
      BY DEF connectionIsOpen, channelConnection
    <3>3. channels'[d][e] = f
      BY <1>2, <2>1
    <3> QED
      BY <1>3, <2>1, <3>1, <3>2, <3>3 DEF Supports
  <2>2. CASE ~ (d = c /\ e = end)
    BY <1>2, <1>3, <2>2 DEF ChannelInv, ChannelsSupported, channelConnection
  <2> QED
    BY <2>1, <2>2
<1> QED
  BY <1>5, <1>6

LEMMA ChannelNextInv ==
    ASSUME ChannelInv, NEW c \in Chain, ChannelNext(c) PROVE ChannelInv'
<1>1. TypeOK'
  BY ChannelStepType DEF ChannelInv
<1>2. IdentifiersUnused' /\ ChannelsSupported'
  <2>1. CASE BindPort(c)
    <3>1. UNCHANGED <<connections, channels, nextConnectionSequence,
                      nextChannelSequence>>
      BY <2>1 DEF BindPort, bindPort, connectionVars, channelVars
    <3> QED
      BY <3>1 DEF ChannelInv, IdentifiersUnused, ChannelsSupported,
                  channelConnection
  <2>2. CASE ChannelOpenInit(c)
    <3>1. PICK portId \in Port, id \in ChannelId :
            \E channel \in ChannelInput("INIT") :
              channelOpenInit(c, portId, id, channel)
      BY <2>2 DEF ChannelOpenInit
    <3>2. PICK channel \in ChannelInput("INIT") :
            channelOpenInit(c, portId, id, channel)
      BY <3>1
    <3> QED
      BY <3>2, NewChannel DEF channelOpenInit
  <2>3. CASE ChannelOpenTry(c)
    <3>1. PICK portId \in Port, id \in ChannelId :
            \E channel \in ChannelInput("TRYOPEN"), version \in ChannelVersion,
               proofHeight \in 1 .. MaxHeight :
              channelOpenTry(c, portId, id, channel, version, proofHeight)
      BY <2>3 DEF ChannelOpenTry
    <3>2. PICK channel \in ChannelInput("TRYOPEN"), version \in ChannelVersion,
               proofHeight \in 1 .. MaxHeight :
            channelOpenTry(c, portId, id, channel, version, proofHeight)
      BY <3>1
    <3> QED
      BY <3>2, NewChannel DEF channelOpenTry
  <2>4. CASE ChannelOpenAck(c)
    <3>1. PICK portId \in Port, id \in ChannelId,
               counterpartyId \in ChannelId, version \in ChannelVersion,
               proofHeight \in 1 .. MaxHeight :
            channelOpenAck(c, portId, id, version, counterpartyId, proofHeight)
      BY <2>4 DEF ChannelOpenAck
    <3> DEFINE end == <<portId, id>>
               f == [channels[c][end] EXCEPT
                       !.state = "OPEN", !.version = version,
                       !.counterparty.channel_id = counterpartyId]
    <3>2. end \in End
      BY DEF End
    <3>3. f.state = "OPEN" /\ f.connection_hops = channels[c][end].connection_hops
      BY <3>2 DEF ChannelInv, TypeOK, HostTypeOK, ChannelTypeOK, ChannelEnd
    <3>4. /\ channelFound(c, end) /\ connectionIsOpen(c, end)
          /\ setChannel(c, end, f)
          /\ UNCHANGED <<connectionVars, nextChannelSequence>>
      BY <3>1 DEF channelOpenAck
    <3> HIDE DEF end, f
    <3> QED
      BY <3>2, <3>3, <3>4, OpenedChannel
  <2>5. CASE ChannelOpenConfirm(c)
    <3>1. PICK portId \in Port, id \in ChannelId,
               proofHeight \in 1 .. MaxHeight :
            channelOpenConfirm(c, portId, id, proofHeight)
      BY <2>5 DEF ChannelOpenConfirm
    <3> DEFINE end == <<portId, id>>
               f == [channels[c][end] EXCEPT !.state = "OPEN"]
    <3>2. end \in End
      BY DEF End
    <3>3. f.state = "OPEN" /\ f.connection_hops = channels[c][end].connection_hops
      BY <3>2 DEF ChannelInv, TypeOK, HostTypeOK, ChannelTypeOK, ChannelEnd
    <3>4. /\ channelFound(c, end) /\ connectionIsOpen(c, end)
          /\ setChannel(c, end, f)
          /\ UNCHANGED <<connectionVars, nextChannelSequence>>
      BY <3>1 DEF channelOpenConfirm
    <3> HIDE DEF end, f
    <3> QED
      BY <3>2, <3>3, <3>4, OpenedChannel
  <2> QED
    BY <2>1, <2>2, <2>3, <2>4, <2>5 DEF ChannelNext
<1> QED
  BY <1>1, <1>2 DEF ChannelInv

-----------------------------------------------------------------------------
(* The specification                                                       *)

LEMMA ChannelInit == Init => ChannelInv
<1> SUFFICES ASSUME Init PROVE ChannelInv
  OBVIOUS
<1>1. /\ \A c \in Chain, id \in ConnectionId : connections[c][id] = NoConnection
      /\ \A c \in Chain, end \in End : channels[c][end] = NoChannel
  BY DEF Init, HostInit
<1>2. \A portId \in Port, id \in ChannelId : <<portId, id>> \in End
  BY DEF End
<1>3. IdentifiersUnused
  BY <1>1, <1>2 DEF IdentifiersUnused, NoConnection, NoChannel
<1>4. ChannelsSupported
  BY <1>1 DEF ChannelsSupported, NoChannel
<1> QED
  BY <1>3, <1>4, InitType DEF ChannelInv

LEMMA ChannelsUntouched ==
    ASSUME ChannelInv, TypeOK', UNCHANGED <<connectionVars, channelVars>>
    PROVE  ChannelInv'
<1>1. UNCHANGED <<connections, nextConnectionSequence, channels,
                  nextChannelSequence>>
  BY DEF connectionVars, channelVars
<1> QED
  BY <1>1 DEF ChannelInv, IdentifiersUnused, ChannelsSupported, channelConnection

LEMMA ChannelStep == ChannelInv /\ [Next]_vars => ChannelInv'
<1> SUFFICES ASSUME ChannelInv, [Next]_vars PROVE ChannelInv'
  OBVIOUS
<1>1. TypeOK'
  BY TypeStep DEF ChannelInv
<1>2. CASE UNCHANGED vars
  BY <1>1, <1>2, ChannelsUntouched DEF vars, hostVars
<1>3. ASSUME NEW c \in Chain, ClientNext(c) PROVE ChannelInv'
  <2>1. UNCHANGED <<connectionVars, channelVars>>
    BY <1>3 DEF ClientNext, RegisterClient, registerClient, CreateClient,
                createClient, UpdateClient, updateClient
  <2> QED
    BY <1>1, <2>1, ChannelsUntouched
<1>4. ASSUME NEW c \in Chain, PacketNext(c) PROVE ChannelInv'
  <2>1. UNCHANGED <<connectionVars, channelVars>>
    BY <1>4, PacketFrame
  <2> QED
    BY <1>1, <2>1, ChannelsUntouched
<1>5. ASSUME NEW c \in Chain, SealBlock(c) PROVE ChannelInv'
  BY <1>1, <1>5, ChannelsUntouched DEF SealBlock
<1> QED
  BY <1>2, <1>3, <1>4, <1>5, ConnectionNextInv, ChannelNextInv DEF Next

\* generateConnectionIdentifier and generateChannelIdentifier never hand out an
\* identifier in use, and the checks of the four channel steps keep every end
\* over a connection that is as far along as the end needs.
THEOREM ChannelInvariant == Spec => []ChannelInv
<1>1. Init => ChannelInv
  BY ChannelInit
<1>2. ChannelInv /\ [Next]_vars => ChannelInv'
  BY ChannelStep
<1> QED
  BY <1>1, <1>2, PTL DEF Spec

\* Whatever steps the handshakes of channels and connections are interleaved
\* in, a channel is OPEN only over an OPEN connection: sendPacket, which does
\* not look at the state of the connection, never uses an unfinished one.
THEOREM OpenChannelsConnected == Spec => []OpenChannelHasOpenConnection
<1>1. Spec => []ChannelInv
  BY ChannelInvariant
<1>2. ChannelInv => OpenChannelHasOpenConnection
  BY DEF ChannelInv, ChannelsSupported, Supports, OpenChannelHasOpenConnection
<1> QED
  BY <1>1, <1>2, PTL
-----------------------------------------------------------------------------
(* Who owns a channel                                                      *)

\* An existing end belongs to the application first bound to its port, and to
\* no other; one that does not exist belongs to nobody.
Owned(caps, portId, id, state) ==
    IF state # "UNINITIALIZED_UNSPECIFIED"
    THEN /\ caps[<<portId>>] # <<>>
         /\ caps[<<portId, id>>] = <<caps[<<portId>>][1]>>
    ELSE caps[<<portId, id>>] = <<>>

ChannelsOwned ==
    \A c \in Chain, portId \in Port, id \in ChannelId :
      Owned(capabilities[c], portId, id, channels[c][<<portId, id>>].state)

OwnerInv == ChannelInv /\ ChannelsOwned

\* A name is that of a port or of an end, never of both.
LEMMA NamesDiffer ==
    ASSUME NEW p \in Port, NEW q \in Port, NEW id \in ChannelId
    PROVE  /\ <<p>> \in CapabilityName
           /\ <<p, id>> \in CapabilityName
           /\ <<p, id>> \in End
           /\ <<q>> # <<p, id>>
<1>1. Len(<<q>>) # Len(<<p, id>>)
  OBVIOUS
<1> QED
  BY <1>1 DEF CapabilityName, End

LEMMA Claimed ==
    ASSUME TypeOK, NEW c \in Chain, NEW name \in CapabilityName,
           NEW module \in Module, claimCapability(c, name, module)
    PROVE  \A d \in Chain, n \in CapabilityName :
             capabilities'[d][n] = IF d = c /\ n = name
                                   THEN Append(capabilities[c][name], module)
                                   ELSE capabilities[d][n]
BY DEF TypeOK, HostTypeOK, CapabilityTypeOK, claimCapability

LEMMA FirstStays ==
    ASSUME NEW S, NEW s \in Seq(S), NEW v \in S
    PROVE  /\ s # <<>> => Append(s, v) # <<>> /\ Append(s, v)[1] = s[1]
           /\ s = <<>> => Append(s, v) = <<v>>
<1>1. ASSUME s # <<>> PROVE Append(s, v) # <<>> /\ Append(s, v)[1] = s[1]
  <2>1. Len(s) \in Nat /\ Len(s) >= 1
    BY <1>1
  <2>2. Append(s, v) \in Seq(S) /\ Len(Append(s, v)) = Len(s) + 1
    OBVIOUS
  <2>3. Append(s, v)[1] = s[1]
    BY <2>1
  <2> QED
    BY <2>1, <2>2, <2>3
<1>2. ASSUME s = <<>> PROVE Append(s, v) = <<v>>
  BY <1>2
<1> QED
  BY <1>1, <1>2

LEMMA BindPortOwned ==
    ASSUME OwnerInv, NEW c \in Chain, BindPort(c) PROVE ChannelsOwned'
<1>1. PICK q \in Port, module \in Module : bindPort(c, q, module)
  BY DEF BindPort
<1>2. claimCapability(c, <<q>>, module) /\ UNCHANGED channels
  BY <1>1 DEF bindPort, channelVars
<1> SUFFICES ASSUME NEW d \in Chain, NEW portId \in Port, NEW id \in ChannelId
             PROVE  Owned(capabilities'[d], portId, id,
                          channels[d][<<portId, id>>].state)
  BY <1>2 DEF ChannelsOwned
<1>3. /\ <<q>> \in CapabilityName /\ <<portId>> \in CapabilityName
      /\ <<portId, id>> \in CapabilityName /\ <<q>> # <<portId, id>>
  BY NamesDiffer
<1>4. capabilities'[d][<<portId, id>>] = capabilities[d][<<portId, id>>]
  BY <1>2, <1>3, Claimed DEF OwnerInv, ChannelInv
<1>5. capabilities'[d][<<portId>>] =
        IF d = c /\ <<portId>> = <<q>>
        THEN Append(capabilities[c][<<q>>], module)
        ELSE capabilities[d][<<portId>>]
  BY <1>2, <1>3, Claimed DEF OwnerInv, ChannelInv
<1>6. capabilities[d][<<portId>>] \in Seq(Module)
  BY <1>3 DEF OwnerInv, ChannelInv, TypeOK, HostTypeOK, CapabilityTypeOK
<1>7. capabilities[d][<<portId>>] # <<>> =>
        /\ capabilities'[d][<<portId>>] # <<>>
        /\ capabilities'[d][<<portId>>][1] = capabilities[d][<<portId>>][1]
  BY <1>5, <1>6, FirstStays
<1>8. Owned(capabilities[d], portId, id, channels[d][<<portId, id>>].state)
  BY DEF OwnerInv, ChannelsOwned
<1> QED
  BY <1>4, <1>7, <1>8 DEF Owned

\* A new end was nobody's and is claimed for the owner of its port.
LEMMA NewChannelOwned ==
    ASSUME OwnerInv, NEW c \in Chain, NEW p \in Port, NEW k \in ChannelId,
           NEW channel, channel.state # "UNINITIALIZED_UNSPECIFIED",
           channels[c][<<p, k>>].state = "UNINITIALIZED_UNSPECIFIED",
           setChannel(c, <<p, k>>, channel), claimChannel(c, p, k)
    PROVE  ChannelsOwned'
<1> DEFINE owner == capabilities[c][<<p>>][1]
<1>1. /\ <<p>> \in CapabilityName /\ <<p, k>> \in CapabilityName
      /\ <<p, k>> \in End
  BY NamesDiffer
<1>2. capabilities[c][<<p>>] \in Seq(Module) /\ capabilities[c][<<p>>] # <<>>
  BY <1>1 DEF OwnerInv, ChannelInv, TypeOK, HostTypeOK, CapabilityTypeOK,
              claimChannel, moduleOwnerFound
<1>3. owner \in Module
  BY <1>2
<1>4. claimCapability(c, <<p, k>>, owner)
  BY DEF claimChannel, getModuleOwner
<1> HIDE DEF owner
<1>5. \A d \in Chain, n \in CapabilityName :
        capabilities'[d][n] = IF d = c /\ n = <<p, k>>
                              THEN Append(capabilities[c][<<p, k>>], owner)
                              ELSE capabilities[d][n]
  BY <1>1, <1>3, <1>4, Claimed DEF OwnerInv, ChannelInv
<1>6. capabilities[c][<<p, k>>] = <<>>
  BY DEF OwnerInv, ChannelsOwned, Owned
<1>7. Append(capabilities[c][<<p, k>>], owner) = <<owner>>
  BY <1>6
<1>8. \A d \in Chain, end \in End :
        channels'[d][end] = IF d = c /\ end = <<p, k>> THEN channel
                            ELSE channels[d][end]
  BY DEF OwnerInv, ChannelInv, TypeOK, HostTypeOK, ChannelTypeOK, setChannel
<1> SUFFICES ASSUME NEW d \in Chain, NEW portId \in Port, NEW id \in ChannelId
             PROVE  Owned(capabilities'[d], portId, id,
                          channels'[d][<<portId, id>>].state)
  BY DEF ChannelsOwned
<1>9. /\ <<portId>> \in CapabilityName /\ <<portId, id>> \in CapabilityName
      /\ <<portId, id>> \in End /\ <<portId>> # <<p, k>>
  BY NamesDiffer
<1>10. capabilities'[d][<<portId>>] = capabilities[d][<<portId>>]
  BY <1>5, <1>9
<1>11. CASE d = c /\ <<portId, id>> = <<p, k>>
  <2>1. portId = p
    BY <1>11
  <2>2. capabilities'[d][<<portId, id>>] = <<owner>>
    BY <1>5, <1>7, <1>9, <1>11
  <2>3. channels'[d][<<portId, id>>].state # "UNINITIALIZED_UNSPECIFIED"
    BY <1>8, <1>9, <1>11
  <2>4. /\ capabilities'[d][<<portId>>] # <<>>
        /\ owner = capabilities'[d][<<portId>>][1]
    BY <1>2, <1>10, <1>11, <2>1 DEF owner
  <2> QED
    BY <2>2, <2>3, <2>4 DEF Owned
<1>12. CASE ~ (d = c /\ <<portId, id>> = <<p, k>>)
  <2>1. /\ capabilities'[d][<<portId, id>>] = capabilities[d][<<portId, id>>]
        /\ channels'[d][<<portId, id>>] = channels[d][<<portId, id>>]
    BY <1>5, <1>8, <1>9, <1>12
  <2>2. Owned(capabilities[d], portId, id, channels[d][<<portId, id>>].state)
    BY DEF OwnerInv, ChannelsOwned
  <2> QED
    BY <1>10, <2>1, <2>2 DEF Owned
<1> QED
  BY <1>11, <1>12

LEMMA OpenedChannelOwned ==
    ASSUME OwnerInv, NEW c \in Chain, NEW end \in End, NEW channel,
           channelFound(c, end), channel.state = "OPEN",
           setChannel(c, end, channel), UNCHANGED capabilities
    PROVE  ChannelsOwned'
<1>1. ASSUME NEW d \in Chain, NEW portId \in Port, NEW id \in ChannelId
      PROVE  channels'[d][<<portId, id>>].state = "UNINITIALIZED_UNSPECIFIED" <=>
               channels[d][<<portId, id>>].state = "UNINITIALIZED_UNSPECIFIED"
  <2>1. <<portId, id>> \in End
    BY NamesDiffer
  <2>2. channels \in [Chain -> [End -> ChannelEnd]]
    BY DEF OwnerInv, ChannelInv, TypeOK, HostTypeOK, ChannelTypeOK
  <2> QED
    BY <2>1, <2>2 DEF setChannel, channelFound
<1> QED
  BY <1>1 DEF OwnerInv, ChannelsOwned, Owned


LEMMA ChannelNextOwned ==
    ASSUME OwnerInv, NEW c \in Chain, ChannelNext(c) PROVE ChannelsOwned'
<1>1. CASE BindPort(c)
  BY <1>1, BindPortOwned
<1>2. CASE ChannelOpenInit(c)
  <2>1. PICK portId \in Port, id \in ChannelId :
          /\ \E channel \in ChannelInput("INIT") :
               channelOpenInit(c, portId, id, channel)
          /\ claimChannel(c, portId, id)
    BY <1>2 DEF ChannelOpenInit
  <2>2. PICK channel \in ChannelInput("INIT") :
          channelOpenInit(c, portId, id, channel)
    BY <2>1
  <2>3. /\ channel.state = "INIT" /\ openable(c, channel)
        /\ generateChannelIdentifier(c, id)
        /\ setChannel(c, <<portId, id>>, channel) /\ UNCHANGED connectionVars
    BY <2>2 DEF channelOpenInit
  <2>4. channels[c][<<portId, id>>].state = "UNINITIALIZED_UNSPECIFIED"
    BY <2>3, NewChannel DEF OwnerInv
  <2> QED
    BY <2>1, <2>3, <2>4, NewChannelOwned
<1>3. CASE ChannelOpenTry(c)
  <2>1. PICK portId \in Port, id \in ChannelId :
          /\ \E channel \in ChannelInput("TRYOPEN"), version \in ChannelVersion,
                proofHeight \in 1 .. MaxHeight :
               channelOpenTry(c, portId, id, channel, version, proofHeight)
          /\ claimChannel(c, portId, id)
    BY <1>3 DEF ChannelOpenTry
  <2>2. PICK channel \in ChannelInput("TRYOPEN"), version \in ChannelVersion,
             proofHeight \in 1 .. MaxHeight :
          channelOpenTry(c, portId, id, channel, version, proofHeight)
    BY <2>1
  <2>3. /\ channel.state = "TRYOPEN" /\ openable(c, channel)
        /\ generateChannelIdentifier(c, id)
        /\ setChannel(c, <<portId, id>>, channel) /\ UNCHANGED connectionVars
    BY <2>2 DEF channelOpenTry
  <2>4. channels[c][<<portId, id>>].state = "UNINITIALIZED_UNSPECIFIED"
    BY <2>3, NewChannel DEF OwnerInv
  <2> QED
    BY <2>1, <2>3, <2>4, NewChannelOwned
<1>4. CASE ChannelOpenAck(c)
  <2>1. PICK portId \in Port, id \in ChannelId,
             counterpartyId \in ChannelId, version \in ChannelVersion,
             proofHeight \in 1 .. MaxHeight :
          /\ channelOpenAck(c, portId, id, version, counterpartyId, proofHeight)
          /\ UNCHANGED capabilities
    BY <1>4 DEF ChannelOpenAck
  <2> DEFINE end == <<portId, id>>
             f == [channels[c][end] EXCEPT
                     !.state = "OPEN", !.version = version,
                     !.counterparty.channel_id = counterpartyId]
  <2>2. end \in End
    BY DEF End
  <2>3. f.state = "OPEN"
    BY <2>2 DEF OwnerInv, ChannelInv, TypeOK, HostTypeOK, ChannelTypeOK, ChannelEnd
  <2>4. channelFound(c, end) /\ setChannel(c, end, f)
    BY <2>1 DEF channelOpenAck
  <2>5. UNCHANGED capabilities
    BY <2>1
  <2> HIDE DEF end, f
  <2> QED
    BY <2>2, <2>3, <2>4, <2>5, OpenedChannelOwned
<1>5. CASE ChannelOpenConfirm(c)
  <2>1. PICK portId \in Port, id \in ChannelId, proofHeight \in 1 .. MaxHeight :
          /\ channelOpenConfirm(c, portId, id, proofHeight)
          /\ UNCHANGED capabilities
    BY <1>5 DEF ChannelOpenConfirm
  <2> DEFINE end == <<portId, id>>
             f == [channels[c][end] EXCEPT !.state = "OPEN"]
  <2>2. end \in End
    BY DEF End
  <2>3. f.state = "OPEN"
    BY <2>2 DEF OwnerInv, ChannelInv, TypeOK, HostTypeOK, ChannelTypeOK, ChannelEnd
  <2>4. channelFound(c, end) /\ setChannel(c, end, f)
    BY <2>1 DEF channelOpenConfirm
  <2>5. UNCHANGED capabilities
    BY <2>1
  <2> HIDE DEF end, f
  <2> QED
    BY <2>2, <2>3, <2>4, <2>5, OpenedChannelOwned
<1> QED
  BY <1>1, <1>2, <1>3, <1>4, <1>5 DEF ChannelNext

LEMMA OwnersUntouched ==
    ASSUME OwnerInv, UNCHANGED <<channels, capabilities>> PROVE ChannelsOwned'
BY DEF OwnerInv, ChannelsOwned, Owned

\* Whatever modules are bound to a port, and in whatever order with the opening
\* of channels on it, a channel belongs to the module bound to the port first:
\* the one IBCHandler calls back for the port, and no other, may send on it.
THEOREM ChannelOwnership == Spec => []ChannelOwnedByPortOwner
<1>1. Init => OwnerInv
  <2> SUFFICES ASSUME Init PROVE ChannelsOwned
    BY ChannelInit DEF OwnerInv
  <2>1. \A c \in Chain, end \in End : channels[c][end] = NoChannel
    BY DEF Init, HostInit
  <2>2. \A c \in Chain, name \in CapabilityName : capabilities[c][name] = <<>>
    BY DEF Init, HostInit
  <2> QED
    BY <2>1, <2>2, NamesDiffer DEF ChannelsOwned, Owned, NoChannel
<1>2. OwnerInv /\ [Next]_vars => OwnerInv'
  <2> SUFFICES ASSUME OwnerInv, [Next]_vars PROVE ChannelsOwned'
    BY ChannelStep DEF OwnerInv
  <2>1. CASE UNCHANGED vars
    BY <2>1, OwnersUntouched DEF vars, hostVars, channelVars
  <2>2. ASSUME NEW c \in Chain, ClientNext(c) PROVE ChannelsOwned'
    <3>1. UNCHANGED <<channels, capabilities>>
      BY <2>2 DEF ClientNext, RegisterClient, registerClient, CreateClient,
                  createClient, UpdateClient, updateClient, channelVars
    <3> QED
      BY <3>1, OwnersUntouched
  <2>3. ASSUME NEW c \in Chain, ConnectionNext(c) PROVE ChannelsOwned'
    <3>1. UNCHANGED <<channels, capabilities>>
      BY <2>3, ConnectionFrame DEF channelVars
    <3> QED
      BY <3>1, OwnersUntouched
  <2>4. ASSUME NEW c \in Chain, ChannelNext(c) PROVE ChannelsOwned'
    BY <2>4, ChannelNextOwned
  <2>5. ASSUME NEW c \in Chain, PacketNext(c) PROVE ChannelsOwned'
    <3>1. UNCHANGED <<channels, capabilities>>
      BY <2>5, PacketFrame DEF channelVars
    <3> QED
      BY <3>1, OwnersUntouched
  <2>6. ASSUME NEW c \in Chain, SealBlock(c) PROVE ChannelsOwned'
    BY <2>6, OwnersUntouched DEF SealBlock, channelVars
  <2> QED
    BY <2>1, <2>2, <2>3, <2>4, <2>5, <2>6 DEF Next
<1>3. OwnerInv => ChannelOwnedByPortOwner
  BY DEF OwnerInv, ChannelsOwned, Owned, ChannelOwnedByPortOwner, channelFound
<1> QED
  BY <1>1, <1>2, <1>3, PTL DEF Spec

-----------------------------------------------------------------------------
(* The inductive invariant                                                 *)

\* How a channel end e may have become f.
ChannelForward(e, f) ==
    \/ f = e
    \/ e.state = "UNINITIALIZED_UNSPECIFIED"
    \/ /\ e.state \in {"INIT", "TRYOPEN"} /\ f.state = "OPEN"
       /\ f.ordering = e.ordering
       /\ f.connection_hops = e.connection_hops
       /\ f.counterparty.port_id = e.counterparty.port_id
       /\ e.state = "TRYOPEN" => /\ f.counterparty = e.counterparty
                                 /\ f.version = e.version

\* What a sealed block shows of a channel end is a stage it has passed through.
SealedChannelsForward ==
    \A c \in Chain, end \in End : \A h \in 1 .. Len(blocks[c]) :
      ChannelForward(blocks[c][h].channels[end], channels[c][end])

\* A channel end e on chain c that has verified another one names it, over a
\* connection whose client is known.
hopOf(e) == e.connection_hops[1]
clientOf(c, e) == connections[c][hopOf(e)].client_id

ChannelLinked(c, e) ==
    /\ hopOf(e) \in ConnectionId
    /\ connectionFound(c, hopOf(e))
    /\ clientStates[c][clientOf(c, e)] # None
    /\ counterpartyEnd(e) \in End

peerChainOf(c, e) == trackedChain(c, clientOf(c, e))
peerEndOf(c, e) == channels[peerChainOf(c, e)][counterpartyEnd(e)]

ChannelAnswered(c, e) ==
    ChannelLinked(c, e) /\ peerEndOf(c, e).state \in {"INIT", "OPEN"}

\* A TRYOPEN end, now or in a sealed block, answers an end that is INIT or OPEN.
TryOpenChannelsAnswered ==
    \A c \in Chain, end \in End :
      channels[c][end].state = "TRYOPEN" => ChannelAnswered(c, channels[c][end])

SealedTryOpenChannelsAnswered ==
    \A c \in Chain, end \in End : \A h \in 1 .. Len(blocks[c]) :
      blocks[c][h].channels[end].state = "TRYOPEN" =>
        ChannelAnswered(c, blocks[c][h].channels[end])

\* End e, the value of `end` on chain c, agrees with the end it names.
ChannelAgreed(c, end, e) ==
    /\ ChannelLinked(c, e)
    /\ peerEndOf(c, e).state \in {"TRYOPEN", "OPEN"}
    /\ counterpartyEnd(peerEndOf(c, e)) = end
    /\ peerEndOf(c, e).ordering = e.ordering
    /\ peerEndOf(c, e).version = e.version
    /\ peerEndOf(c, e).connection_hops = getCounterpartyHops(c, e)

OpenChannelsAgreed ==
    \A c \in Chain, end \in End :
      channels[c][end].state = "OPEN" => ChannelAgreed(c, end, channels[c][end])

AgreementInv ==
    /\ ConnectionInv
    /\ ChannelInv
    /\ SealedChannelsForward
    /\ TryOpenChannelsAnswered
    /\ SealedTryOpenChannelsAnswered
    /\ OpenChannelsAgreed
-----------------------------------------------------------------------------
(* Lemmas about the relation between two stages of a channel end           *)

LEMMA ChannelForwardTransitive ==
    ASSUME NEW e, NEW f, NEW g, ChannelForward(e, f), ChannelForward(f, g)
    PROVE  ChannelForward(e, g)
BY DEF ChannelForward

LEMMA ChannelForwardAnswers ==
    ASSUME NEW e, NEW f, ChannelForward(e, f), e.state \in {"INIT", "OPEN"}
    PROVE  f.state \in {"INIT", "OPEN"}
BY DEF ChannelForward

\* What an end agreed to as TRYOPEN or OPEN is what it has later.
LEMMA ChannelForwardKeeps ==
    ASSUME NEW e, NEW f, ChannelForward(e, f), e.state \in {"TRYOPEN", "OPEN"}
    PROVE  /\ f.state \in {"TRYOPEN", "OPEN"}
           /\ f.ordering = e.ordering
           /\ f.connection_hops = e.connection_hops
           /\ f.counterparty = e.counterparty
           /\ f.version = e.version
BY DEF ChannelForward

-----------------------------------------------------------------------------
(* What every step keeps: blocks and links                                 *)

LEMMA BlocksKept ==
    ASSUME TypeOK, [Next]_vars, NEW d \in Chain
    PROVE  /\ Len(blocks[d]) \in Nat
           /\ Len(blocks'[d]) >= Len(blocks[d])
           /\ \A h \in 1 .. Len(blocks'[d]) :
                \/ h \in 1 .. Len(blocks[d]) /\ blocks'[d][h] = blocks[d][h]
                \/ blocks'[d][h] = Store(d)
<1>1. CASE UNCHANGED blocks
  <2>1. blocks[d] \in Seq(StoreType)
    BY DEF TypeOK, HostTypeOK, BlocksTypeOK
  <2> QED
    BY <1>1, <2>1
<1>2. ASSUME NEW c \in Chain, ClientNext(c) PROVE UNCHANGED blocks
  BY <1>2 DEF ClientNext, RegisterClient, registerClient, CreateClient,
              createClient, UpdateClient, updateClient
<1>3. ASSUME NEW c \in Chain, ConnectionNext(c) PROVE UNCHANGED blocks
  BY <1>3, ConnectionFrame
<1>4. ASSUME NEW c \in Chain, ChannelNext(c) PROVE UNCHANGED blocks
  BY <1>4, ChannelFrame
<1>5. ASSUME NEW c \in Chain, PacketNext(c) PROVE UNCHANGED blocks
  BY <1>5, PacketFrame
<1>6. ASSUME NEW c \in Chain, SealBlock(c)
      PROVE  /\ Len(blocks[d]) \in Nat
             /\ Len(blocks'[d]) >= Len(blocks[d])
             /\ \A h \in 1 .. Len(blocks'[d]) :
                  \/ h \in 1 .. Len(blocks[d]) /\ blocks'[d][h] = blocks[d][h]
                  \/ blocks'[d][h] = Store(d)
  BY <1>6, BlockAppended
<1>7. UNCHANGED vars => UNCHANGED blocks
  BY DEF vars, hostVars
<1> QED
  BY <1>1, <1>2, <1>3, <1>4, <1>5, <1>6, <1>7 DEF Next

\* The chain at the other end of a link is the one this chain is paired with.
LEMMA LinkedChain ==
    ASSUME Paired, ConnectionInv, NEW c \in Chain, NEW e, ChannelLinked(c, e)
    PROVE  /\ clientOf(c, e) \in ClientId
           /\ peerChainOf(c, e) \in Remotes[c]
           /\ peerChainOf(c, e) \in Chain
           /\ peerChainOf(c, e) # c
           /\ c \in Remotes[peerChainOf(c, e)]
<1>1. clientOf(c, e) \in ClientId
  BY DEF ChannelLinked, connectionFound, clientOf, ConnectionInv,
         ConnectionsAllocated
<1>2. clientStates[c][clientOf(c, e)] # None /\ ClientTypeOK /\ ClientsKnowBlocks
  BY DEF ChannelLinked, ConnectionInv, TypeOK, HostTypeOK
<1>3. peerChainOf(c, e) \in Remotes[c]
  BY <1>1, <1>2, KnownClient DEF peerChainOf
<1> QED
  BY <1>1, <1>3, RemoteUnique

\* A link lasts: the connection keeps its client, and the client its chain.
LEMMA LinkKept ==
    ASSUME Paired, ConnectionInv, [Next]_vars, NEW c \in Chain, NEW e,
           ChannelLinked(c, e)
    PROVE  /\ ChannelLinked(c, e)'
           /\ peerChainOf(c, e)' = peerChainOf(c, e)
<1>1. hopOf(e) \in ConnectionId /\ connectionFound(c, hopOf(e))
  BY DEF ChannelLinked
<1>2. MovesForward(connections[c][hopOf(e)], connections'[c][hopOf(e)])
  BY <1>1, ConnectionStep DEF EndsForward
<1>3. /\ connectionFound(c, hopOf(e))'
      /\ clientOf(c, e)' = clientOf(c, e)
  BY <1>1, <1>2 DEF MovesForward, connectionFound, clientOf, hopOf
<1>4. clientOf(c, e) \in ClientId
  BY LinkedChain
<1>5. /\ clientStates'[c][clientOf(c, e)] # None
      /\ trackedChain(c, clientOf(c, e))' = trackedChain(c, clientOf(c, e))
  BY <1>3, <1>4, ClientsKept DEF ChannelLinked, trackedChain
<1> QED
  BY <1>3, <1>5 DEF ChannelLinked, peerChainOf, hopOf, counterpartyEnd
-----------------------------------------------------------------------------
(* What a step may do to a channel end                                     *)

\* The value f is safe for `end` of chain c to go on to.
Settled(c, end, f) ==
    /\ ChannelForward(channels[c][end], f)
    /\ f.state = "TRYOPEN" => ChannelAnswered(c, f)
    /\ f.state = "OPEN" => /\ ChannelAgreed(c, end, f)
                           /\ connections[c][hopOf(f)].state = "OPEN"

ChannelsSettled ==
    \A c \in Chain, end \in End : Settled(c, end, channels'[c][end])

ChannelsForward ==
    \A c \in Chain, end \in End :
      ChannelForward(channels[c][end], channels'[c][end])

LEMMA UnchangedSettled ==
    ASSUME AgreementInv, NEW c \in Chain, NEW end \in End
    PROVE  Settled(c, end, channels[c][end])
<1>1. ChannelForward(channels[c][end], channels[c][end])
  BY DEF ChannelForward
<1>2. channels[c][end].state = "OPEN" =>
        connections[c][hopOf(channels[c][end])].state = "OPEN"
  BY DEF AgreementInv, ChannelInv, ChannelsSupported, Supports,
         channelConnection, hopOf
<1> QED
  BY <1>1, <1>2
  DEF Settled, AgreementInv, TryOpenChannelsAnswered, OpenChannelsAgreed

\* The other end of a link only moves forward, so that an answer stays one ...
LEMMA AnswerKept ==
    ASSUME Paired, ConnectionInv, [Next]_vars, ChannelsForward,
           NEW c \in Chain, NEW e, ChannelAnswered(c, e)
    PROVE  ChannelAnswered(c, e)'
<1>1. ChannelLinked(c, e)
  BY DEF ChannelAnswered
<1>2. /\ ChannelLinked(c, e)'
      /\ peerChainOf(c, e)' = peerChainOf(c, e)
  BY <1>1, LinkKept
<1>3. peerChainOf(c, e) \in Chain /\ counterpartyEnd(e) \in End
  BY <1>1, LinkedChain DEF ChannelLinked
<1>4. ChannelForward(peerEndOf(c, e), peerEndOf(c, e)')
  BY <1>2, <1>3 DEF ChannelsForward, peerEndOf, counterpartyEnd
<1> QED
  BY <1>2, <1>4, ChannelForwardAnswers DEF ChannelAnswered

\* ... and an agreement as well, as the connection below it is final.
LEMMA AgreementKept ==
    ASSUME Paired, ConnectionInv, [Next]_vars, ChannelsForward,
           NEW c \in Chain, NEW end, NEW e, ChannelAgreed(c, end, e),
           connections[c][hopOf(e)].state = "OPEN"
    PROVE  /\ ChannelAgreed(c, end, e)'
           /\ connections'[c][hopOf(e)] = connections[c][hopOf(e)]
<1>1. ChannelLinked(c, e)
  BY DEF ChannelAgreed
<1>2. /\ ChannelLinked(c, e)'
      /\ peerChainOf(c, e)' = peerChainOf(c, e)
  BY <1>1, LinkKept
<1>3. peerChainOf(c, e) \in Chain /\ counterpartyEnd(e) \in End
  BY <1>1, LinkedChain DEF ChannelLinked
<1>4. ChannelForward(peerEndOf(c, e), peerEndOf(c, e)')
  BY <1>2, <1>3 DEF ChannelsForward, peerEndOf, counterpartyEnd
<1>5. connections'[c][hopOf(e)] = connections[c][hopOf(e)]
  <2>1. MovesForward(connections[c][hopOf(e)], connections'[c][hopOf(e)])
    BY <1>1, ConnectionStep DEF EndsForward, ChannelLinked
  <2> QED
    BY <2>1 DEF MovesForward
<1>6. getCounterpartyHops(c, e)' = getCounterpartyHops(c, e)
  BY <1>5 DEF getCounterpartyHops, hopOf
<1>7. counterpartyEnd(peerEndOf(c, e))' = counterpartyEnd(peerEndOf(c, e))
  BY <1>4, ChannelForwardKeeps DEF ChannelAgreed, counterpartyEnd
<1> QED
  BY <1>2, <1>4, <1>5, <1>6, <1>7, ChannelForwardKeeps DEF ChannelAgreed

\* A step that only goes on to safe values leaves all channels safe: what
\* sealed blocks show of them included.
LEMMA SettledInv ==
    ASSUME Paired, AgreementInv, [Next]_vars, ChannelsSettled
    PROVE  AgreementInv' /\ ChannelsForward
<1>1. ConnectionInv' /\ ChannelInv'
  BY ConnectionStep, ChannelStep DEF AgreementInv
<1>2. ChannelsForward
  BY DEF ChannelsSettled, Settled, ChannelsForward
<1>3. \A c \in Chain : \A e : ChannelAnswered(c, e) => ChannelAnswered(c, e)'
  BY <1>2, AnswerKept DEF AgreementInv
<1>4. ASSUME NEW c \in Chain, NEW end \in End, NEW h \in 1 .. Len(blocks'[c])
      PROVE  \/ /\ h \in 1 .. Len(blocks[c])
                /\ blocks'[c][h].channels[end] = blocks[c][h].channels[end]
             \/ blocks'[c][h].channels[end] = channels[c][end]
  <2>1. \/ h \in 1 .. Len(blocks[c]) /\ blocks'[c][h] = blocks[c][h]
        \/ blocks'[c][h] = Store(c)
    BY BlocksKept DEF AgreementInv, ConnectionInv
  <2> QED
    BY <2>1 DEF Store
<1>5. SealedChannelsForward'
  <2> SUFFICES ASSUME NEW c \in Chain, NEW end \in End,
                      NEW h \in 1 .. Len(blocks'[c])
               PROVE  ChannelForward(blocks'[c][h].channels[end], channels'[c][end])
    BY DEF SealedChannelsForward
  <2>1. \/ ChannelForward(blocks'[c][h].channels[end], channels[c][end])
        \/ blocks'[c][h].channels[end] = channels[c][end]
    BY <1>4 DEF AgreementInv, SealedChannelsForward
  <2>2. ChannelForward(channels[c][end], channels'[c][end])
    BY <1>2 DEF ChannelsForward
  <2> QED
    BY <2>1, <2>2, ChannelForwardTransitive
<1>6. TryOpenChannelsAnswered'
  BY <1>3 DEF ChannelsSettled, Settled, TryOpenChannelsAnswered
<1>7. SealedTryOpenChannelsAnswered'
  BY <1>3, <1>4
  DEF AgreementInv, TryOpenChannelsAnswered, SealedTryOpenChannelsAnswered
<1>8. OpenChannelsAgreed'
  BY <1>2, AgreementKept
  DEF AgreementInv, ChannelsSettled, Settled, OpenChannelsAgreed
<1> QED
  BY <1>1, <1>2, <1>5, <1>6, <1>7, <1>8 DEF AgreementInv
-----------------------------------------------------------------------------
(* Steps of the channel handshake                                          *)

\* A sealed block of chain d shows the value e of an end.
Shown(d, end, e) ==
    \E h \in 1 .. Len(blocks[d]) : blocks[d][h].channels[end] = e

\* A proof shows an end as it was, and the end has only moved forward since.
LEMMA VerifiedChannel ==
    ASSUME Paired, AgreementInv, NEW c \in Chain, NEW id \in ConnectionId,
           connectionFound(c, id), NEW height, NEW prefix, NEW end, NEW e,
           verifyChannelState(c, connections[c][id].client_id, height, prefix,
                              end, e)
    PROVE  /\ clientStates[c][connections[c][id].client_id] # None
           /\ end \in End
           /\ trackedChain(c, connections[c][id].client_id) \in Chain
           /\ Shown(trackedChain(c, connections[c][id].client_id), end, e)
           /\ ChannelForward(e,
                channels[trackedChain(c, connections[c][id].client_id)][end])
<1> DEFINE clientId == connections[c][id].client_id
           d == trackedChain(c, clientId)
<1>1. clientId \in ClientId
  BY DEF connectionFound, AgreementInv, ConnectionInv, ConnectionsAllocated
<1>2. /\ clientStates[c][clientId] # None
      /\ height \in consensusStates[c][clientId]
      /\ end \in End
      /\ blocks[d][height].channels[end] = e
  BY DEF verifyChannelState, validateArgs, clientStateFound, provenStore,
         trackedChain
<1>3. ClientTypeOK /\ ClientsKnowBlocks
  BY DEF AgreementInv, ConnectionInv, TypeOK, HostTypeOK
<1> HIDE DEF clientId
<1>4. d \in Chain /\ height \in 1 .. Len(blocks[d])
  BY <1>1, <1>2, <1>3, KnownClient
<1>5. ChannelForward(e, channels[d][end])
  BY <1>2, <1>4 DEF AgreementInv, SealedChannelsForward
<1>6. Shown(d, end, e)
  BY <1>2, <1>4 DEF Shown
<1> QED
  BY <1>2, <1>4, <1>5, <1>6 DEF clientId

\* One end is set to a safe value.
LEMMA ChangedChannelSettled ==
    ASSUME AgreementInv, NEW c \in Chain, NEW end \in End, NEW f,
           setChannel(c, end, f), Settled(c, end, f)
    PROVE  ChannelsSettled
<1>1. \A d \in Chain, e \in End :
        channels'[d][e] = IF d = c /\ e = end THEN f ELSE channels[d][e]
  BY DEF AgreementInv, ChannelInv, TypeOK, HostTypeOK, ChannelTypeOK, setChannel
<1> QED
  BY <1>1, UnchangedSettled DEF ChannelsSettled

LEMMA ChannelInitSettled ==
    ASSUME Paired, AgreementInv, NEW c \in Chain, ChannelOpenInit(c)
    PROVE  ChannelsSettled
<1>1. PICK portId \in Port, id \in ChannelId :
        \E channel \in ChannelInput("INIT") :
          channelOpenInit(c, portId, id, channel)
  BY DEF ChannelOpenInit
<1>2. PICK f \in ChannelInput("INIT") : channelOpenInit(c, portId, id, f)
  BY <1>1
<1>3. /\ f.state = "INIT" /\ openable(c, f)
      /\ generateChannelIdentifier(c, id)
      /\ setChannel(c, <<portId, id>>, f) /\ UNCHANGED connectionVars
  BY <1>2 DEF channelOpenInit
<1>4. channels[c][<<portId, id>>].state = "UNINITIALIZED_UNSPECIFIED"
  BY <1>3, NewChannel DEF AgreementInv
<1>5. Settled(c, <<portId, id>>, f)
  BY <1>3, <1>4 DEF Settled, ChannelForward
<1>6. <<portId, id>> \in End
  BY DEF End
<1> QED
  BY <1>3, <1>5, <1>6, ChangedChannelSettled

\* Try has verified an INIT end, which may be OPEN by now, but not TRYOPEN.
LEMMA ChannelTrySettled ==
    ASSUME Paired, AgreementInv, NEW c \in Chain, ChannelOpenTry(c)
    PROVE  ChannelsSettled
<1>1. PICK portId \in Port, id \in ChannelId :
        \E channel \in ChannelInput("TRYOPEN"), version \in ChannelVersion,
           proofHeight \in 1 .. MaxHeight :
          channelOpenTry(c, portId, id, channel, version, proofHeight)
  BY DEF ChannelOpenTry
<1>2. PICK f \in ChannelInput("TRYOPEN"), version \in ChannelVersion,
           proofHeight \in 1 .. MaxHeight :
        channelOpenTry(c, portId, id, f, version, proofHeight)
  BY <1>1
<1> DEFINE end == <<portId, id>>
           hop == f.connection_hops[1]
           p == expectedChannel(c, portId, None, f, "INIT", version)
<1>3. /\ f.state = "TRYOPEN" /\ openable(c, f)
      /\ generateChannelIdentifier(c, id)
      /\ setChannel(c, end, f) /\ UNCHANGED connectionVars
      /\ verifyChannelState(c, connections[c][hop].client_id, proofHeight,
             connections[c][hop].counterparty.prefix, counterpartyEnd(f), p)
  BY <1>2 DEF channelOpenTry, counterpartyEnd
<1>4. p.state = "INIT"
  BY DEF expectedChannel
<1>5. hop \in ConnectionId /\ connectionFound(c, hop)
  BY <1>3 DEF openable
<1>6. channels[c][end].state = "UNINITIALIZED_UNSPECIFIED"
  BY <1>3, NewChannel DEF AgreementInv
<1>7. hop = hopOf(f)
  BY DEF hopOf
<1> HIDE DEF p, hop
<1>8. /\ clientStates[c][connections[c][hop].client_id] # None
      /\ counterpartyEnd(f) \in End
      /\ ChannelForward(p,
           channels[trackedChain(c, connections[c][hop].client_id)][counterpartyEnd(f)])
  BY <1>3, <1>5, VerifiedChannel
<1>9. ChannelAnswered(c, f)
  BY <1>4, <1>5, <1>7, <1>8, ChannelForwardAnswers
  DEF ChannelAnswered, ChannelLinked, peerEndOf, peerChainOf, clientOf
<1>10. Settled(c, end, f)
  BY <1>3, <1>6, <1>9 DEF Settled, ChannelForward
<1>11. end \in End
  BY DEF End
<1> QED
  BY <1>3, <1>10, <1>11, ChangedChannelSettled
\* The end a message opens and the connection it is over.
LEMMA OpeningEnd ==
    ASSUME AgreementInv, NEW c \in Chain, NEW end \in End, channelFound(c, end)
    PROVE  /\ channels[c][end] \in ChannelEnd
           /\ hopOf(channels[c][end]) \in ConnectionId
           /\ channels[c][end].connection_hops = <<hopOf(channels[c][end])>>
           /\ channelConnection(c, end) = connections[c][hopOf(channels[c][end])]
<1>1. channels[c][end] \in ChannelEnd
  BY DEF AgreementInv, ChannelInv, TypeOK, HostTypeOK, ChannelTypeOK
<1>2. /\ hopOf(channels[c][end]) \in ConnectionId
      /\ Len(channels[c][end].connection_hops) = 1
  BY DEF AgreementInv, ChannelInv, ChannelsSupported, channelFound, hopOf
<1>3. channels[c][end].connection_hops = <<hopOf(channels[c][end])>>
  BY <1>1, <1>2 DEF ChannelEnd, hopOf
<1> QED
  BY <1>1, <1>2, <1>3 DEF channelConnection, hopOf

\* Ack has verified a TRYOPEN end that names this one.  So this one is INIT,
\* as crossing hellos never merge, and the other end still stands by its word.
LEMMA ChannelAckSettled ==
    ASSUME Paired, AgreementInv, NEW c \in Chain, ChannelOpenAck(c)
    PROVE  ChannelsSettled
<1>1. PICK portId \in Port, id \in ChannelId, counterpartyId \in ChannelId,
           version \in ChannelVersion, proofHeight \in 1 .. MaxHeight :
        channelOpenAck(c, portId, id, version, counterpartyId, proofHeight)
  BY DEF ChannelOpenAck
<1> DEFINE end == <<portId, id>>
           e == channels[c][end]
           hop == hopOf(e)
           d == trackedChain(c, connections[c][hop].client_id)
           f == [e EXCEPT !.state = "OPEN", !.version = version,
                          !.counterparty.channel_id = counterpartyId]
           p == expectedChannel(c, portId, id, e, "TRYOPEN", version)
           other == <<e.counterparty.port_id, counterpartyId>>
<1>2. end \in End
  BY DEF End
<1>3. channelFound(c, end)
  BY <1>1 DEF channelOpenAck
<1>4. /\ e \in ChannelEnd /\ hop \in ConnectionId
      /\ channelConnection(c, end) = connections[c][hop]
  BY <1>2, <1>3, OpeningEnd
<1>5. /\ f.state = "OPEN" /\ f.ordering = e.ordering
      /\ f.connection_hops = e.connection_hops
      /\ f.counterparty.port_id = e.counterparty.port_id
      /\ f.version = version /\ counterpartyEnd(f) = other
  BY <1>4 DEF ChannelEnd, ChannelCounterparty, counterpartyEnd
<1>6. /\ p.state = "TRYOPEN" /\ p.ordering = e.ordering
      /\ p.connection_hops = getCounterpartyHops(c, e)
      /\ p.version = version /\ counterpartyEnd(p) = end
  BY DEF expectedChannel, counterpartyEnd
<1>7. /\ e.state \in {"INIT", "TRYOPEN"}
      /\ connections[c][hop].state = "OPEN"
      /\ setChannel(c, end, f)
  BY <1>1, <1>4 DEF channelOpenAck, channelAwaitsAck, connectionIsOpen
<1>8. verifyChannelState(c, connections[c][hop].client_id, proofHeight,
          connections[c][hop].counterparty.prefix, other, p)
  BY <1>1, <1>4 DEF channelOpenAck
<1>9. hop = hopOf(f) /\ getCounterpartyHops(c, f) = getCounterpartyHops(c, e)
  BY <1>5 DEF hopOf, getCounterpartyHops
<1>10. connectionFound(c, hop)
  BY <1>7 DEF connectionFound
<1> HIDE DEF end, e, hop, f, p, other
<1>11. /\ clientStates[c][connections[c][hop].client_id] # None
       /\ other \in End /\ d \in Chain
       /\ Shown(d, other, p)
       /\ ChannelForward(p, channels[d][other])
  BY <1>4, <1>8, <1>10, VerifiedChannel
<1>12. /\ ChannelLinked(c, f)
       /\ peerChainOf(c, f) = d
       /\ peerEndOf(c, f) = channels[d][other]
  BY <1>4, <1>5, <1>9, <1>10, <1>11
  DEF ChannelLinked, clientOf, peerEndOf, peerChainOf
<1>13. e.state = "INIT"
  <2>1. ChannelAnswered(d, p)
    BY <1>6, <1>11 DEF AgreementInv, SealedTryOpenChannelsAnswered, Shown
  <2>2. c \in Remotes[d]
    BY <1>12, LinkedChain DEF AgreementInv
  <2>3. peerChainOf(d, p) = c
    BY <1>11, <2>1, <2>2, LinkedChain, RemoteUnique
    DEF ChannelAnswered, AgreementInv
  <2>4. peerEndOf(d, p) = e
    BY <1>6, <2>3 DEF peerEndOf, e
  <2> QED
    BY <1>7, <2>1, <2>4 DEF ChannelAnswered
<1>14. ChannelForward(channels[c][end], f)
  BY <1>5, <1>13 DEF ChannelForward, e
<1>15. ChannelAgreed(c, end, f)
  <2>1. counterpartyEnd(channels[d][other]) = end
    BY <1>6, <1>11, ChannelForwardKeeps DEF counterpartyEnd
  <2> QED
    BY <1>5, <1>6, <1>9, <1>11, <1>12, <2>1, ChannelForwardKeeps
    DEF ChannelAgreed
<1>16. Settled(c, end, f)
  BY <1>5, <1>7, <1>9, <1>14, <1>15 DEF Settled
<1> QED
  BY <1>2, <1>7, <1>16, ChangedChannelSettled

\* Confirm has verified an OPEN end that names this one: it is final.
LEMMA ChannelConfirmSettled ==
    ASSUME Paired, AgreementInv, NEW c \in Chain, ChannelOpenConfirm(c)
    PROVE  ChannelsSettled
<1>1. PICK portId \in Port, id \in ChannelId, proofHeight \in 1 .. MaxHeight :
        channelOpenConfirm(c, portId, id, proofHeight)
  BY DEF ChannelOpenConfirm
<1> DEFINE end == <<portId, id>>
           e == channels[c][end]
           hop == hopOf(e)
           d == trackedChain(c, connections[c][hop].client_id)
           f == [e EXCEPT !.state = "OPEN"]
           p == expectedChannel(c, portId, id, e, "OPEN", e.version)
           other == counterpartyEnd(e)
<1>2. end \in End
  BY DEF End
<1>3. channelFound(c, end)
  BY <1>1 DEF channelOpenConfirm
<1>4. /\ e \in ChannelEnd /\ hop \in ConnectionId
      /\ channelConnection(c, end) = connections[c][hop]
  BY <1>2, <1>3, OpeningEnd
<1>5. /\ f.state = "OPEN" /\ f.ordering = e.ordering
      /\ f.connection_hops = e.connection_hops
      /\ f.counterparty = e.counterparty
      /\ f.version = e.version /\ counterpartyEnd(f) = other
  BY <1>4 DEF ChannelEnd, counterpartyEnd
<1>6. /\ p.state = "OPEN" /\ p.ordering = e.ordering
      /\ p.connection_hops = getCounterpartyHops(c, e)
      /\ p.version = e.version /\ counterpartyEnd(p) = end
  BY DEF expectedChannel, counterpartyEnd
<1>7. /\ e.state = "TRYOPEN"
      /\ connections[c][hop].state = "OPEN"
      /\ setChannel(c, end, f)
  BY <1>1, <1>4 DEF channelOpenConfirm, connectionIsOpen
<1>8. verifyChannelState(c, connections[c][hop].client_id, proofHeight,
          connections[c][hop].counterparty.prefix, other, p)
  BY <1>1, <1>4 DEF channelOpenConfirm, counterpartyEnd
<1>9. hop = hopOf(f) /\ getCounterpartyHops(c, f) = getCounterpartyHops(c, e)
  BY <1>5 DEF hopOf, getCounterpartyHops
<1>10. connectionFound(c, hop)
  BY <1>7 DEF connectionFound
<1> HIDE DEF end, e, hop, f, p, other
<1>11. /\ clientStates[c][connections[c][hop].client_id] # None
       /\ other \in End /\ d \in Chain
       /\ ChannelForward(p, channels[d][other])
  BY <1>4, <1>8, <1>10, VerifiedChannel
<1>12. /\ ChannelLinked(c, f)
       /\ peerEndOf(c, f) = channels[d][other]
  BY <1>4, <1>5, <1>9, <1>10, <1>11
  DEF ChannelLinked, clientOf, peerEndOf, peerChainOf
<1>13. ChannelForward(channels[c][end], f)
  BY <1>5, <1>7 DEF ChannelForward, e
<1>14. ChannelAgreed(c, end, f)
  <2>1. counterpartyEnd(channels[d][other]) = end
    BY <1>6, <1>11, ChannelForwardKeeps DEF counterpartyEnd
  <2> QED
    BY <1>5, <1>6, <1>9, <1>11, <1>12, <2>1, ChannelForwardKeeps
    DEF ChannelAgreed
<1>15. Settled(c, end, f)
  BY <1>5, <1>7, <1>9, <1>13, <1>14 DEF Settled
<1> QED
  BY <1>2, <1>7, <1>15, ChangedChannelSettled
-----------------------------------------------------------------------------
(* The specification                                                       *)

LEMMA AgreementInit == Init => AgreementInv
<1> SUFFICES ASSUME Init PROVE AgreementInv
  OBVIOUS
<1>1. \A c \in Chain, end \in End : channels[c][end] = NoChannel
  BY DEF Init, HostInit
<1>2. \A c \in Chain : /\ Len(blocks[c]) = 1
                       /\ blocks[c][1].channels = channels[c]
  BY DEF Init, HostInit, Store
<1>3. NoChannel.state = "UNINITIALIZED_UNSPECIFIED"
  BY DEF NoChannel
<1>4. TryOpenChannelsAnswered /\ OpenChannelsAgreed
  BY <1>1, <1>3 DEF TryOpenChannelsAnswered, OpenChannelsAgreed
<1>5. SealedChannelsForward /\ SealedTryOpenChannelsAnswered
  BY <1>1, <1>2, <1>3
  DEF SealedChannelsForward, SealedTryOpenChannelsAnswered, ChannelForward
<1> QED
  BY <1>4, <1>5, ConnectionInit, ChannelInit DEF AgreementInv

\* Only the four steps of the handshake change a channel end.
LEMMA ChannelsMoved ==
    ASSUME [Next]_vars
    PROVE  \/ UNCHANGED channels
           \/ \E c \in Chain : \/ ChannelOpenInit(c) \/ ChannelOpenTry(c)
                               \/ ChannelOpenAck(c) \/ ChannelOpenConfirm(c)
<1>1. UNCHANGED vars => UNCHANGED channels
  BY DEF vars, hostVars, channelVars
<1>2. ASSUME NEW c \in Chain, ClientNext(c) PROVE UNCHANGED channels
  BY <1>2 DEF ClientNext, RegisterClient, registerClient, CreateClient,
              createClient, UpdateClient, updateClient, channelVars
<1>3. ASSUME NEW c \in Chain, ConnectionNext(c) PROVE UNCHANGED channels
  BY <1>3, ConnectionFrame DEF channelVars
<1>4. ASSUME NEW c \in Chain, PacketNext(c) PROVE UNCHANGED channels
  BY <1>4, PacketFrame DEF channelVars
<1>5. ASSUME NEW c \in Chain, SealBlock(c) PROVE UNCHANGED channels
  BY <1>5 DEF SealBlock, channelVars
<1>6. ASSUME NEW c \in Chain, BindPort(c) PROVE UNCHANGED channels
  BY <1>6 DEF BindPort, bindPort, channelVars
<1> QED
  BY <1>1, <1>2, <1>3, <1>4, <1>5, <1>6 DEF Next, ChannelNext

LEMMA AgreementStep ==
    ASSUME Paired, AgreementInv, [Next]_vars
    PROVE  AgreementInv' /\ ChannelsForward
<1>1. ASSUME UNCHANGED channels PROVE ChannelsSettled
  BY <1>1, UnchangedSettled DEF ChannelsSettled
<1>2. ChannelsSettled
  BY <1>1, ChannelsMoved, ChannelInitSettled, ChannelTrySettled,
     ChannelAckSettled, ChannelConfirmSettled
<1> QED
  BY <1>2, SettledInv

\* Between paired chains the checks of the four channel steps keep every
\* channel end forward of what sealed blocks show of it, and every OPEN end in
\* agreement with the end it names.
THEOREM AgreementInvariant == Paired => (Spec => []AgreementInv)
<1> SUFFICES ASSUME Paired PROVE Spec => []AgreementInv
  OBVIOUS
<1>1. Init => AgreementInv
  BY AgreementInit
<1>2. AgreementInv /\ [Next]_vars => AgreementInv'
  BY AgreementStep
<1> QED
  BY <1>1, <1>2, PTL DEF Spec

\* An end as the properties name it is the end of the invariant.
LEMMA PeerNames ==
    ASSUME NEW c \in Chain, NEW end \in End
    PROVE  /\ peerChain(c, end) = peerChainOf(c, channels[c][end])
           /\ peerChannel(c, end) = peerEndOf(c, channels[c][end])
BY DEF peerChain, peerChannel, peerChainOf, peerEndOf, channelConnection,
       clientOf, hopOf

\* Between paired chains an OPEN channel end and the end it names always agree,
\* down to the connection ends below them: no interleaving of the eight steps
\* of the two handshakes and no stale proof opens a channel whose ends differ.
THEOREM ChannelsAlwaysAgree == Paired => (Spec => []ChannelsAgree)
<1> SUFFICES ASSUME Paired PROVE Spec => []ChannelsAgree
  OBVIOUS
<1>1. Spec => []AgreementInv
  BY AgreementInvariant
<1>2. AgreementInv => ChannelsAgree
  <2> SUFFICES ASSUME AgreementInv, NEW c \in Chain, NEW end \in End,
                      channels[c][end].state = "OPEN"
               PROVE  LET e == channels[c][end]
                          p == peerChannel(c, end)
                      IN /\ p.state \in {"TRYOPEN", "OPEN"}
                         /\ counterpartyEnd(p) = end
                         /\ p.ordering = e.ordering
                         /\ p.version = e.version
                         /\ p.connection_hops = getCounterpartyHops(c, e)
                         /\ peerConnection(c, e.connection_hops[1])
                              .counterparty.connection_id = e.connection_hops[1]
    BY DEF ChannelsAgree
  <2> DEFINE e == channels[c][end]
  <2>1. ChannelAgreed(c, end, e)
    BY DEF AgreementInv, OpenChannelsAgreed
  <2>2. /\ e.connection_hops[1] \in ConnectionId
        /\ connections[c][e.connection_hops[1]].state = "OPEN"
    BY DEF AgreementInv, ChannelInv, ChannelsSupported, Supports,
           channelConnection
  <2>3. peerConnection(c, e.connection_hops[1]).counterparty.connection_id
          = e.connection_hops[1]
    BY <2>2, InvAgrees DEF AgreementInv, ConnectionsAgree
  <2> QED
    BY <2>1, <2>3, PeerNames DEF ChannelAgreed
<1> QED
  BY <1>1, <1>2, PTL

\* Between paired chains no TRYOPEN channel end answers another TRYOPEN end, so
\* channelOpenAck never opens an end that is itself TRYOPEN.
THEOREM NoCrossingChannelHellos == Paired => (Spec => []TryOpenChannelAnswersInit)
<1> SUFFICES ASSUME Paired PROVE Spec => []TryOpenChannelAnswersInit
  OBVIOUS
<1>1. Spec => []AgreementInv
  BY AgreementInvariant
<1>2. AgreementInv => TryOpenChannelAnswersInit
  BY PeerNames DEF AgreementInv, TryOpenChannelsAnswered, ChannelAnswered,
                   TryOpenChannelAnswersInit
<1> QED
  BY <1>1, <1>2, PTL

\* Between paired chains a channel end only moves forward, keeps its connection,
\* ordering and port, and is final once it is OPEN.
THEOREM ChannelHandshakeForward == Paired => (Spec => ChannelMovesForward)
<1> SUFFICES ASSUME Paired PROVE Spec => ChannelMovesForward
  OBVIOUS
<1>1. Spec => []AgreementInv
  BY AgreementInvariant
<1>2. AgreementInv /\ [Next]_vars =>
        [\A c \in Chain, end \in End :
           LET e == channels[c][end]
               f == channels'[c][end]
           IN \/ f = e
              \/ e.state = "UNINITIALIZED_UNSPECIFIED"
              \/ /\ e.state \in {"INIT", "TRYOPEN"} /\ f.state = "OPEN"
                 /\ f.ordering = e.ordering
                 /\ f.connection_hops = e.connection_hops
                 /\ f.counterparty.port_id = e.counterparty.port_id
                 /\ e.state = "TRYOPEN" => f.counterparty = e.counterparty
        ]_<<channels, blocks>>
  BY AgreementStep DEF ChannelsForward, ChannelForward
<1> QED
  BY <1>1, <1>2, PTL DEF Spec, ChannelMovesForward
-----------------------------------------------------------------------------
(* Timeouts                                                                *)

\* What lies below an OPEN channel end: a connection between the two chains,
\* whose client at the other end tracks this chain.
LEMMA OpenChannelPeer ==
    ASSUME Paired, AgreementInv, NEW c \in Chain, NEW end \in End,
           channels[c][end].state = "OPEN"
    PROVE  /\ peerChain(c, end) \in Chain
           /\ peerChain(c, end) # c
           /\ counterpartyEnd(channels[c][end]) \in End
           /\ peerChannel(c, end).state \in {"TRYOPEN", "OPEN"}
           /\ counterpartyEnd(peerChannel(c, end)) = end
           /\ peerChannel(c, end).ordering = channels[c][end].ordering
           /\ hopOf(peerChannel(c, end)) \in ConnectionId
           /\ clientOf(peerChain(c, end), peerChannel(c, end)) \in ClientId
           /\ clientStates[peerChain(c, end)]
                          [clientOf(peerChain(c, end), peerChannel(c, end))] # None
           /\ peerChainOf(peerChain(c, end), peerChannel(c, end)) = c
<1> DEFINE e == channels[c][end]
           d == peerChain(c, end)
           other == counterpartyEnd(e)
           p == peerChannel(c, end)
<1>1. ChannelAgreed(c, end, e)
  BY DEF AgreementInv, OpenChannelsAgreed
<1>2. d = peerChainOf(c, e) /\ p = peerEndOf(c, e) /\ p = channels[d][other]
  BY PeerNames DEF peerEndOf
<1>3. /\ d \in Chain /\ d # c /\ c \in Remotes[d] /\ other \in End
      /\ p.state \in {"TRYOPEN", "OPEN"}
      /\ counterpartyEnd(p) = end /\ p.ordering = e.ordering
  BY <1>1, <1>2, LinkedChain DEF ChannelAgreed, ChannelLinked, AgreementInv
<1>4. ChannelLinked(d, p)
  BY <1>2, <1>3 DEF AgreementInv, TryOpenChannelsAnswered, ChannelAnswered,
                    OpenChannelsAgreed, ChannelAgreed
<1> HIDE DEF e, d, p, other
<1>5. /\ peerChainOf(d, p) \in Remotes[d]
      /\ clientOf(d, p) \in ClientId
  BY <1>3, <1>4, LinkedChain DEF AgreementInv
<1>6. peerChainOf(d, p) = c
  BY <1>3, <1>5, RemoteUnique
<1>7. hopOf(p) \in ConnectionId /\ clientStates[d][clientOf(d, p)] # None
  BY <1>4 DEF ChannelLinked
<1> QED
  BY <1>3, <1>5, <1>6, <1>7 DEF e, d, p, other

LEMMA BlockTimeGrows ==
    ASSUME NEW m \in Nat, NEW n \in Nat, m <= n
    PROVE  BlockTime(m) \in Nat /\ BlockTime(m) <= BlockTime(n)
<1>1. PICK k \in Nat : n = m + k
  <2>1. n - m \in Nat /\ n = m + (n - m)
    OBVIOUS
  <2> QED
    BY <2>1
<1>2. /\ m * BlockPeriod \in Nat /\ k * BlockPeriod \in Nat
      /\ (m + k) * BlockPeriod = m * BlockPeriod + k * BlockPeriod
  BY NumberAssumption
<1> QED
  BY <1>1, <1>2 DEF BlockTime

\* Between paired chains no interleaving of recvPacket, updateClient and new
\* blocks lets a packet arrive once its sender's client has verified a block at
\* or past its timeout: a refund at that point could not duplicate a transfer.
THEOREM TimeoutsFinal == Paired => (Spec => TimeoutFinal)
<1> SUFFICES ASSUME Paired PROVE Spec => TimeoutFinal
  OBVIOUS
<1>1. Spec => []AgreementInv
  BY AgreementInvariant
<1> DEFINE Final == \A c \in Chain, end \in End :
         recvEvents'[c][end] # recvEvents[c][end] =>
           LET packet == Last(recvEvents'[c][end])
               s == peerChain(c, end)
               id == channelConnection(s, source(packet)).client_id
           IN \A h \in consensusStates[s][id] :
                /\ packet.timeout_height # 0 => h < packet.timeout_height
                /\ packet.timeout_timestamp # 0 =>
                     BlockTime(h) < packet.timeout_timestamp
<1>2. ASSUME AgreementInv, NEW d \in Chain, NEW packet \in Packet,
             RecvPacket(d, packet)
      PROVE  Final
  <2> DEFINE end == destination(packet)
             e == channels[d][end]
             s == peerChain(d, end)
             p == peerChannel(d, end)
             id == clientOf(s, p)
  <2>1. end \in End
    BY PacketFieldTypes
  <2>2. /\ e.state = "OPEN"
        /\ source(packet) = counterpartyEnd(e)
        /\ notExpired(d, packet)
        /\ recvEvents' = emit(recvEvents, d, end, packet)
    BY <1>2 DEF RecvPacket, recvPacket
  <2>3. recvEvents \in [Chain -> [End -> Seq(Packet)]]
    BY <1>2 DEF AgreementInv, ChannelInv, TypeOK, EventTypeOK
  <2>4. \A c \in Chain, k \in End : ~ (c = d /\ k = end) =>
          recvEvents'[c][k] = recvEvents[c][k]
    BY <2>1, <2>2, <2>3 DEF emit
  <2>5. Last(recvEvents'[d][end]) = packet
    <3>1. recvEvents'[d][end] = Append(recvEvents[d][end], packet)
      BY <2>1, <2>2, <2>3 DEF emit
    <3>2. recvEvents[d][end] \in Seq(Packet)
      BY <2>1, <2>3
    <3> QED
      BY <3>1, <3>2 DEF Last
  <2>6. channelConnection(s, source(packet)).client_id = id
    BY <2>2 DEF channelConnection, clientOf, hopOf, peerChannel
  <2>7. /\ s \in Chain /\ id \in ClientId
        /\ clientStates[s][id] # None
        /\ trackedChain(s, id) = d
    BY <1>2, <2>1, <2>2, OpenChannelPeer DEF peerChainOf
  <2>8. consensusStates[s][id] \subseteq 1 .. Len(blocks[d])
    <3> HIDE DEF s, id
    <3>1. ClientTypeOK /\ ClientsKnowBlocks
      BY <1>2 DEF AgreementInv, ConnectionInv, TypeOK, HostTypeOK
    <3> QED
      BY <2>7, <3>1, KnownClient
  <2> HIDE DEF s, id, p, e, end
  <2>9. Len(blocks[d]) \in Nat
    <3>1. blocks[d] \in Seq(StoreType)
      BY <1>2 DEF AgreementInv, ChannelInv, TypeOK, HostTypeOK, BlocksTypeOK
    <3> QED
      BY <3>1
  <2>10. /\ packet.timeout_height \in Nat
         /\ packet.timeout_timestamp \in Nat
    BY InputAssumption DEF Packet
  <2>11. ASSUME NEW h \in consensusStates[s][id]
         PROVE  /\ packet.timeout_height # 0 => h < packet.timeout_height
                /\ packet.timeout_timestamp # 0 =>
                     BlockTime(h) < packet.timeout_timestamp
    <3>1. h \in Nat /\ BlockNumber(d) \in Nat /\ h < BlockNumber(d)
      BY <2>8, <2>9 DEF BlockNumber
    <3>2. /\ BlockTime(h) \in Nat /\ BlockTime(BlockNumber(d)) \in Nat
          /\ BlockTime(h) <= BlockTime(BlockNumber(d))
      BY <3>1, BlockTimeGrows
    <3> QED
      BY <2>2, <2>10, <3>1, <3>2 DEF notExpired, notTimedOut
  <2> QED
    BY <2>4, <2>5, <2>6, <2>11 DEF s, end
<1>3. UNCHANGED recvEvents => Final
  OBVIOUS
<1>4. ASSUME NEW d \in Chain, WriteAcknowledgement(d) PROVE UNCHANGED recvEvents
  BY <1>4 DEF WriteAcknowledgement, eventVars
<1>5. ASSUME NEW d \in Chain, SendPacket(d) PROVE UNCHANGED recvEvents
  BY <1>5 DEF SendPacket
<1>6. ASSUME NEW d \in Chain, NEW packet \in Packet, AcknowledgePacket(d, packet)
      PROVE  UNCHANGED recvEvents
  BY <1>6 DEF AcknowledgePacket
<1>7. ASSUME NEW d \in Chain, ClientNext(d) \/ ConnectionNext(d) \/ ChannelNext(d)
      PROVE  UNCHANGED recvEvents
  BY <1>7 DEF ClientNext, ConnectionNext, ChannelNext, eventVars
<1> HIDE DEF Final
<1>8. ASSUME AgreementInv, NEW d \in Chain, PacketNext(d) PROVE Final
  BY <1>2, <1>3, <1>4, <1>5, <1>6, <1>8 DEF PacketNext
<1>9. AgreementInv /\ Next => Final
  BY <1>3, <1>7, <1>8 DEF Next, eventVars
<1>10. AgreementInv /\ [Next]_vars => [Final]_<<recvEvents, blocks>>
  BY <1>9 DEF vars, hostVars, eventVars
<1>11. TimeoutFinal <=> [][Final]_<<recvEvents, blocks>>
  BY DEF TimeoutFinal, Final
<1> QED
  BY <1>1, <1>10, <1>11, PTL DEF Spec

-----------------------------------------------------------------------------
(* The channel handshake implements the same abstract one                  *)

\* A channel end that exists has a version.
VersionsNamed ==
    \A c \in Chain, end \in End :
      channels[c][end].state # "UNINITIALIZED_UNSPECIFIED" =>
        channels[c][end].version \in ChannelVersion

\* A step changes one channel end at most.
LEMMA OneChannelChanges ==
    ASSUME TypeOK, [Next]_vars, VersionsNamed
    PROVE  /\ VersionsNamed'
           /\ \E n : \A c \in Chain, end \in End :
                <<c, end>> # n => channels'[c][end] = channels[c][end]
<1> DEFINE Goal == /\ VersionsNamed'
                   /\ \E n : \A c \in Chain, end \in End :
                        <<c, end>> # n => channels'[c][end] = channels[c][end]
<1>1. ASSUME UNCHANGED channels PROVE Goal
  BY <1>1 DEF VersionsNamed
<1>2. ASSUME NEW c \in Chain, NEW portId \in Port, NEW id \in ChannelId, NEW f,
             setChannel(c, <<portId, id>>, f), f.version \in ChannelVersion
      PROVE  Goal
  <2> DEFINE end == <<portId, id>>
  <2>1. \A d \in Chain, k \in End :
          channels'[d][k] = IF d = c /\ k = end THEN f ELSE channels[d][k]
    BY <1>2 DEF setChannel, TypeOK, HostTypeOK, ChannelTypeOK
  <2>2. VersionsNamed'
    BY <1>2, <2>1 DEF VersionsNamed
  <2>3. \A d \in Chain, k \in End :
          <<d, k>> # <<c, end>> => channels'[d][k] = channels[d][k]
    BY <2>1
  <2> QED
    BY <2>2, <2>3
<1>3. ASSUME NEW c \in Chain, ChannelOpenInit(c) PROVE Goal
  <2>1. PICK portId \in Port, id \in ChannelId :
          \E f \in ChannelInput("INIT") : channelOpenInit(c, portId, id, f)
    BY <1>3 DEF ChannelOpenInit
  <2>2. PICK f \in ChannelInput("INIT") : channelOpenInit(c, portId, id, f)
    BY <2>1
  <2>3. setChannel(c, <<portId, id>>, f) /\ f.version \in ChannelVersion
    BY <2>2 DEF channelOpenInit, ChannelInput
  <2> QED
    BY <1>2, <2>3
<1>4. ASSUME NEW c \in Chain, ChannelOpenTry(c) PROVE Goal
  <2>1. PICK portId \in Port, id \in ChannelId :
          \E f \in ChannelInput("TRYOPEN"), version \in ChannelVersion,
             proofHeight \in 1 .. MaxHeight :
            channelOpenTry(c, portId, id, f, version, proofHeight)
    BY <1>4 DEF ChannelOpenTry
  <2>2. PICK f \in ChannelInput("TRYOPEN"), version \in ChannelVersion,
             proofHeight \in 1 .. MaxHeight :
          channelOpenTry(c, portId, id, f, version, proofHeight)
    BY <2>1
  <2>3. setChannel(c, <<portId, id>>, f) /\ f.version \in ChannelVersion
    BY <2>2 DEF channelOpenTry, ChannelInput
  <2> QED
    BY <1>2, <2>3
<1>5. ASSUME NEW c \in Chain, ChannelOpenAck(c) PROVE Goal
  <2>1. PICK portId \in Port, id \in ChannelId, counterpartyId \in ChannelId,
             version \in ChannelVersion, proofHeight \in 1 .. MaxHeight :
          channelOpenAck(c, portId, id, version, counterpartyId, proofHeight)
    BY <1>5 DEF ChannelOpenAck
  <2> DEFINE end == <<portId, id>>
             f == [channels[c][end] EXCEPT
                     !.state = "OPEN", !.version = version,
                     !.counterparty.channel_id = counterpartyId]
  <2>2. end \in End
    BY DEF End
  <2>3. f.version = version
    BY <2>2 DEF TypeOK, HostTypeOK, ChannelTypeOK, ChannelEnd
  <2>4. setChannel(c, end, f)
    BY <2>1 DEF channelOpenAck
  <2> HIDE DEF f
  <2> QED
    BY <1>2, <2>3, <2>4
<1>6. ASSUME NEW c \in Chain, ChannelOpenConfirm(c) PROVE Goal
  <2>1. PICK portId \in Port, id \in ChannelId, proofHeight \in 1 .. MaxHeight :
          channelOpenConfirm(c, portId, id, proofHeight)
    BY <1>6 DEF ChannelOpenConfirm
  <2> DEFINE end == <<portId, id>>
             f == [channels[c][end] EXCEPT !.state = "OPEN"]
  <2>2. end \in End
    BY DEF End
  <2>3. f.version = channels[c][end].version
    BY <2>2 DEF TypeOK, HostTypeOK, ChannelTypeOK, ChannelEnd
  <2>4. channelFound(c, end) /\ setChannel(c, end, f)
    BY <2>1 DEF channelOpenConfirm
  <2>5. f.version \in ChannelVersion
    BY <2>2, <2>3, <2>4 DEF VersionsNamed, channelFound
  <2> HIDE DEF f
  <2> QED
    BY <1>2, <2>4, <2>5
<1> HIDE DEF Goal
<1>7. Goal
  BY <1>1, <1>3, <1>4, <1>5, <1>6, ChannelsMoved
<1> QED
  BY <1>7 DEF Goal

ChannelTerms == [ordering : {"NONE_UNSPECIFIED", "UNORDERED", "ORDERED"},
                 version : ChannelVersion]

OpenChannelsPaired ==
    \A e \in openChannels :
      /\ channelPeer(e) \in Chain \X End
      /\ channelPeer(e) # e
      /\ channelPeer(channelPeer(e)) = e
      /\ channelTerms(e) \in ChannelTerms
      /\ channelTerms(channelPeer(e)) = channelTerms(e)

\* The two ends of an OPEN channel name each other, on the same terms.
LEMMA OpenChannelPaired ==
    Paired /\ AgreementInv /\ VersionsNamed => OpenChannelsPaired
<1> SUFFICES ASSUME Paired, AgreementInv, VersionsNamed, NEW e \in openChannels
             PROVE  /\ channelPeer(e) \in Chain \X End
                    /\ channelPeer(e) # e
                    /\ channelPeer(channelPeer(e)) = e
                    /\ channelTerms(e) \in ChannelTerms
                    /\ channelTerms(channelPeer(e)) = channelTerms(e)
  BY DEF OpenChannelsPaired
<1>1. PICK c \in Chain, end \in End :
        e = <<c, end>> /\ channels[c][end].state = "OPEN"
  BY DEF openChannels
<1> DEFINE d == peerChain(c, end)
           other == counterpartyEnd(channels[c][end])
<1>2. /\ d \in Chain /\ d # c /\ other \in End
      /\ counterpartyEnd(channels[d][other]) = end
      /\ channels[d][other].ordering = channels[c][end].ordering
      /\ peerChainOf(d, channels[d][other]) = c
  BY <1>1, OpenChannelPeer DEF peerChannel
<1>3. channels[d][other].version = channels[c][end].version
  <2>1. ChannelAgreed(c, end, channels[c][end])
    BY <1>1 DEF AgreementInv, OpenChannelsAgreed
  <2> QED
    BY <2>1, PeerNames DEF ChannelAgreed, peerEndOf
<1>4. channels[c][end] \in ChannelEnd /\ channels[c][end].version \in ChannelVersion
  BY <1>1 DEF VersionsNamed, AgreementInv, ChannelInv, TypeOK, HostTypeOK,
              ChannelTypeOK
<1>5. channelPeer(e) = <<d, other>> /\ channelTerms(e) \in ChannelTerms
  BY <1>1, <1>4 DEF channelPeer, channelTerms, ChannelTerms, ChannelEnd
<1> HIDE DEF d, other
<1>6. peerChain(d, other) = c
  BY <1>2, PeerNames
<1>7. channelPeer(<<d, other>>) = e /\ channelTerms(<<d, other>>) = channelTerms(e)
  BY <1>1, <1>2, <1>3, <1>6 DEF channelPeer, channelTerms
<1> QED
  BY <1>1, <1>2, <1>5, <1>7

\* A channel end that is OPEN stays what it is, and so does whom it names.
LEMMA OpenChannelsStay ==
    ASSUME Paired, AgreementInv, [Next]_vars, NEW e \in openChannels
    PROVE  /\ e \in openChannels'
           /\ channelPeer(e)' = channelPeer(e)
           /\ channelTerms(e)' = channelTerms(e)
<1>1. PICK c \in Chain, end \in End :
        e = <<c, end>> /\ channels[c][end].state = "OPEN"
  BY DEF openChannels
<1>2. channels'[c][end] = channels[c][end]
  BY <1>1, AgreementStep DEF ChannelsForward, ChannelForward
<1>3. PICK f : f = channels[c][end]
  OBVIOUS
<1>4. ChannelLinked(c, f)
  BY <1>1, <1>3 DEF AgreementInv, OpenChannelsAgreed, ChannelAgreed
<1>5. peerChainOf(c, f)' = peerChainOf(c, f)
  BY <1>4, LinkKept DEF AgreementInv
<1>6. peerChain(c, end)' = peerChain(c, end)
  BY <1>2, <1>3, <1>5
  DEF peerChain, peerChainOf, channelConnection, clientOf, hopOf
<1>7. e \in openChannels'
  BY <1>1, <1>2 DEF openChannels
<1> QED
  BY <1>1, <1>2, <1>6, <1>7 DEF channelPeer, channelTerms, counterpartyEnd

LEMMA ChannelHandshakeStep ==
    ASSUME Paired, AgreementInv, VersionsNamed, OpenChannelsPaired', [Next]_vars
    PROVE  [ChannelHandshake!HandshakeNext]_(ChannelHandshake!handshakeVars)
<1> DEFINE Ends == Chain \X End
           O == openChannels
           N == openChannels'
           p == [e \in Ends |-> channelPeer(e)']
           t == [e \in Ends |-> channelTerms(e)']
<1>1. O \subseteq Ends /\ N \subseteq Ends
  BY DEF openChannels
<1>2. \A e \in O : e \in N /\ channelPeer(e)' = channelPeer(e)
                   /\ channelTerms(e)' = channelTerms(e)
  BY OpenChannelsStay
<1>3. PICK n : \A c \in Chain, end \in End :
                 <<c, end>> # n => channels'[c][end] = channels[c][end]
  BY OneChannelChanges DEF AgreementInv, ChannelInv
<1>4. N \subseteq O \cup {n}
  BY <1>3 DEF openChannels
<1>5. \A x \in N : /\ p[x] \in Ends /\ p[x] # x /\ p[p[x]] = x
                   /\ t[x] \in ChannelTerms /\ t[p[x]] = t[x]
  BY <1>1 DEF OpenChannelsPaired
<1>6. channelAgreements = AgreementsOf(O, p, t)
  BY <1>1, <1>2 DEF channelAgreements, AgreementsOf
<1>7. channelAgreements' = AgreementsOf(N, p, t)
  BY <1>1 DEF channelAgreements, AgreementsOf
<1> HIDE DEF p, t
<1>8. HandshakeMove(Ends, ChannelTerms, O, N, channelAgreements, channelAgreements')
  <2>1. O \subseteq N
    BY <1>2
  <2>2. OneMayOpen(Ends, ChannelTerms, O, N, p, t)
    BY <1>1, <1>4, <1>5, <2>1 DEF OneMayOpen
  <2> QED
    BY <1>6, <1>7, <2>2, OneOpens
<1>9. CASE O = N
  BY <1>6, <1>7, <1>9 DEF ChannelHandshake!handshakeVars
<1>10. CASE O # N
  BY <1>8, <1>10
  DEF HandshakeMove, BoundBy, ChannelTerms,
      ChannelHandshake!HandshakeNext, ChannelHandshake!Opens,
      ChannelHandshake!Agree, ChannelHandshake!Confirm, ChannelHandshake!Settled
<1> QED
  BY <1>9, <1>10

\* Between paired chains the four steps of the channel handshake
\* (IBCChannel.sol:13-148) are an agreement of two ends on ordering and version,
\* whatever the connection handshakes below, other Inits and Trys and old proofs
\* do meanwhile.
THEOREM ChannelsImplementHandshake ==
    Paired => (Spec => ImplementsChannelHandshake)
<1> SUFFICES ASSUME Paired PROVE Spec => ImplementsChannelHandshake
  OBVIOUS
<1> DEFINE Inv == AgreementInv /\ VersionsNamed
<1>1. Init => ChannelHandshake!HandshakeInit /\ VersionsNamed
  <2>1. Init => \A c \in Chain, end \in End :
                  channels[c][end].state = "UNINITIALIZED_UNSPECIFIED"
    BY DEF Init, HostInit, NoChannel
  <2> QED
    BY <2>1 DEF VersionsNamed, openChannels, channelAgreements,
                ChannelHandshake!HandshakeInit
<1>2. Init => Inv
  BY <1>1, AgreementInit
<1>3. Inv /\ [Next]_vars => Inv'
  BY AgreementStep, OneChannelChanges DEF AgreementInv, ChannelInv
<1>4. Inv => OpenChannelsPaired
  BY OpenChannelPaired
<1>5. Inv /\ OpenChannelsPaired' /\ [Next]_vars =>
        [ChannelHandshake!HandshakeNext]_(ChannelHandshake!handshakeVars)
  BY ChannelHandshakeStep
<1> QED
  BY <1>1, <1>2, <1>3, <1>4, <1>5, PTL
  DEF Spec, ImplementsChannelHandshake, ChannelHandshake!HandshakeSpec
=============================================================================
