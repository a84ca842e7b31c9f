------------------------- MODULE IBCRefinement_proofs -------------------------
(***************************************************************************)
(* The contracts implement PacketDelivery: from open channels between two  *)
(* chains, every step of the handlers is a step of reliable delivery or    *)
(* leaves nothing of it to be seen.                                        *)
(***************************************************************************)
EXTENDS MCIBC, IBCDelivery_proofs

\* What InitOpen needs of the constants: two chains that track each other, one
\* port (a channel's ends have the same identifiers on both chains), and
\* something to choose an owner, a client type and a version from.
OpenDeployment ==
    /\ A # B /\ Chain = {A, B} /\ Remotes = MCRemotes
    /\ \E portId : Port = {portId}
    /\ Module # {} /\ ClientType # {} /\ ChannelVersion # {}
    /\ MaxClients > 0 /\ MaxConnections > 0

LEMMA OtherChain ==
    ASSUME OpenDeployment
    PROVE  /\ Paired
           /\ \A c \in Chain : /\ Other(c) \in Chain /\ Other(c) # c
                               /\ Other(Other(c)) = c
                               /\ \A d \in Chain : d # c => d = Other(c)
                               /\ Remotes[c] = {Other(c)}
<1>1. Other(A) = B /\ Other(B) = A
  BY DEF OpenDeployment, Other
<1>2. \A c \in Chain : Remotes[c] = Chain \ {c}
  BY DEF OpenDeployment, MCRemotes
<1>3. \A c \in Chain : /\ Other(c) \in Chain /\ Other(c) # c
                       /\ Other(Other(c)) = c
                       /\ \A d \in Chain : d # c => d = Other(c)
  BY <1>1 DEF OpenDeployment
<1>4. \A c \in Chain : Remotes[c] = {Other(c)}
  BY <1>2, <1>3
<1>5. Paired
  BY <1>3, <1>4 DEF Paired
<1> QED
  BY <1>3, <1>4, <1>5

-----------------------------------------------------------------------------
(* The initial states                                                      *)

\* What InitOpen says of the clients, connections, channels and blocks.
LEMMA FirstIds ==
    ASSUME OpenDeployment PROVE 0 \in ClientId /\ 0 \in ConnectionId
BY NumberAssumption DEF OpenDeployment, ClientId, ConnectionId

LEMMA OpenClients ==
    ASSUME OpenDeployment, InitOpen
    PROVE  \A c \in Chain, id \in ClientId :
             /\ clientStates[c][id] = [chain |-> Other(c), latest_height |-> 2]
             /\ clientStates[c][id] # None
             /\ clientStates[c][id].chain = Other(c)
             /\ consensusStates[c][id] = {2}
<1> SUFFICES ASSUME NEW c \in Chain, NEW id \in ClientId
             PROVE  /\ clientStates[c][id]
                         = [chain |-> Other(c), latest_height |-> 2]
                    /\ clientStates[c][id] # None
                    /\ consensusStates[c][id] = {2}
  OBVIOUS
<1>1. (CHOOSE h \in {2} : \A k \in {2} : k <= h) = 2
  OBVIOUS
<1>2. /\ clientStates[c][id] = [chain |-> Other(c), latest_height |-> 2]
      /\ consensusStates[c][id] = {2}
  BY <1>1 DEF InitOpen, StartClients
<1>3. [chain |-> Other(c), latest_height |-> 2] \in ClientState
  BY OtherChain DEF ClientState, Height
<1> QED
  BY <1>2, <1>3, SlotAssumption

LEMMA OpenConnectionEnds ==
    ASSUME OpenDeployment, InitOpen
    PROVE  \A c \in Chain, id \in ConnectionId :
             connections[c][id] = IF id = 0 THEN Conn("OPEN", 0) ELSE NoConnection
BY DEF InitOpen, StartConnection

LEMMA OpenChannelEnds ==
    ASSUME OpenDeployment, InitOpen
    PROVE  \A c \in Chain, end \in End :
             /\ channels[c][end].state = "OPEN"
             /\ channels[c][end].connection_hops = <<0>>
             /\ counterpartyEnd(channels[c][end]) = end
             /\ channels[c][end] = channels[Other(c)][end]
             /\ channels[c][end] \in ChannelEnd
<1> SUFFICES ASSUME NEW c \in Chain, NEW end \in End
             PROVE  /\ channels[c][end].state = "OPEN"
                    /\ channels[c][end].connection_hops = <<0>>
                    /\ counterpartyEnd(channels[c][end]) = end
                    /\ channels[c][end] = channels[Other(c)][end]
                    /\ channels[c][end] \in ChannelEnd
  OBVIOUS
<1>1. PICK ordering \in [ChannelId -> Ordering] :
        channels = [d \in Chain |-> [x \in End |-> Chan(ordering[x[2]], x[2])]]
  BY DEF InitOpen
<1>2. channels[c][end] = Chan(ordering[end[2]], end[2])
      /\ channels[Other(c)][end] = Chan(ordering[end[2]], end[2])
  BY <1>1, OtherChain
<1>3. /\ end[1] \in Port /\ end[2] \in ChannelId /\ end = <<end[1], end[2]>>
      /\ (CHOOSE p \in Port : TRUE) = end[1]
  BY DEF End, OpenDeployment
<1>4. ordering[end[2]] \in {"NONE_UNSPECIFIED", "UNORDERED", "ORDERED"}
  BY <1>1, <1>3, InputAssumption
<1>5. (CHOOSE v \in ChannelVersion : TRUE) \in ChannelVersion
  BY DEF OpenDeployment
<1> DEFINE e == Chan(ordering[end[2]], end[2])
<1>6. /\ e.state = "OPEN" /\ e.connection_hops = <<0>>
      /\ counterpartyEnd(e) = end
  BY <1>3 DEF Chan, counterpartyEnd
<1>7. e \in ChannelEnd
  BY <1>3, <1>4, <1>5, FirstIds DEF Chan, ChannelEnd, ChannelCounterparty, State
<1> QED
  BY <1>2, <1>6, <1>7

LEMMA OpenBlocks ==
    ASSUME OpenDeployment, InitOpen
    PROVE  \A c \in Chain :
             /\ Len(blocks[c]) = 2
             /\ blocks[c][1] = EmptyStore
             /\ blocks[c][2].connections = connections[c]
             /\ blocks[c][2].channels = channels[c]
             /\ blocks[c][2].packets = packetCommitments[c]
             /\ blocks[c][2].acks = packetAcks[c]
<1> SUFFICES ASSUME NEW c \in Chain
             PROVE  /\ Len(blocks[c]) = 2
                    /\ blocks[c][1] = EmptyStore
                    /\ blocks[c][2].connections = connections[c]
                    /\ blocks[c][2].channels = channels[c]
                    /\ blocks[c][2].packets = packetCommitments[c]
                    /\ blocks[c][2].acks = packetAcks[c]
  OBVIOUS
<1>1. blocks[c] = <<EmptyStore, Store(c)>>
  BY DEF InitOpen, StartClients
<1>2. /\ Store(c).connections = connections[c]
      /\ Store(c).channels = channels[c]
      /\ Store(c).packets = packetCommitments[c]
      /\ Store(c).acks = packetAcks[c]
  BY DEF Store
<1> QED
  BY <1>1, <1>2

LEMMA OpenTypes ==
    ASSUME OpenDeployment, InitOpen
    PROVE  TypeOK
<1>1. 0 \in ClientId /\ 0 \in ConnectionId
  BY FirstIds
<1>2. ClientTypeOK
  <2>1. /\ clientRegistry \in [Chain -> SUBSET ClientType]
        /\ nextClientSequence \in [Chain -> 0 .. MaxClients]
    BY NumberAssumption DEF InitOpen, StartClients
  <2>2. (CHOOSE type \in ClientType : TRUE) \in ClientType
    BY DEF OpenDeployment
  <2>3. clientTypes \in [Chain -> [ClientId -> ClientType \cup {None}]]
    BY <2>2 DEF InitOpen, StartClients
  <2>4. /\ \A c \in Chain : [chain |-> Other(c), latest_height |-> 2] \in ClientState
        /\ {2} \in SUBSET Height
    BY OtherChain DEF ClientState, Height
  <2>5. (CHOOSE h \in {2} : \A k \in {2} : k <= h) = 2
    OBVIOUS
  <2>6. /\ clientStates = [c \in Chain |-> [id \in ClientId |->
                             [chain |-> Other(c), latest_height |-> 2]]]
        /\ consensusStates = [c \in Chain |-> [id \in ClientId |-> {2}]]
    BY <2>5 DEF InitOpen, StartClients
  <2>7. clientStates \in [Chain -> [ClientId -> ClientState \cup {None}]]
    BY <2>4, <2>6
  <2>8. consensusStates \in [Chain -> [ClientId -> SUBSET Height]]
    BY <2>4, <2>6
  <2> QED
    BY <2>1, <2>3, <2>7, <2>8 DEF ClientTypeOK
<1>3. NoConnection \in ConnectionEnd /\ NoChannel \in ChannelEnd
  BY DEF NoConnection, ConnectionEnd, Counterparty, State, NoChannel, ChannelEnd,
         ChannelCounterparty
<1>4. Conn("OPEN", 0) \in ConnectionEnd
  BY <1>1, InputAssumption
  DEF Conn, getVersions, commitmentPrefix, ConnectionEnd, Counterparty, State
<1>5. ConnectionTypeOK
  <2>1. connections = [c \in Chain |-> [id \in ConnectionId |->
          IF id = 0 THEN IF c = A THEN Conn("OPEN", 0) ELSE Conn("OPEN", 0)
          ELSE NoConnection]]
    BY DEF InitOpen, StartConnection
  <2>2. connections \in [Chain -> [ConnectionId -> ConnectionEnd]]
    BY <1>3, <1>4, <2>1
  <2>3. nextConnectionSequence \in [Chain -> 0 .. MaxConnections]
    BY NumberAssumption DEF OpenDeployment, InitOpen, StartConnection
  <2> QED
    BY <2>2, <2>3 DEF ConnectionTypeOK
<1>6. ChannelTypeOK
  <2>1. PICK ordering \in [ChannelId -> Ordering] :
          channels = [c \in Chain |-> [end \in End |-> Chan(ordering[end[2]], end[2])]]
    BY DEF InitOpen
  <2>2. ASSUME NEW c \in Chain, NEW end \in End
        PROVE  Chan(ordering[end[2]], end[2]) \in ChannelEnd
    <3>1. channels[c][end] = Chan(ordering[end[2]], end[2])
      BY <2>1
    <3>2. channels[c][end] \in ChannelEnd
      BY OpenChannelEnds
    <3> QED
      BY <3>1, <3>2
  <2>3. channels \in [Chain -> [End -> ChannelEnd]]
    BY <2>1, <2>2
  <2>4. nextChannelSequence \in [Chain -> 0 .. MaxChannels]
    BY NumberAssumption DEF InitOpen
  <2> QED
    BY <2>3, <2>4 DEF ChannelTypeOK
<1>7. SequenceTypeOK
  <2>1. 1 \in Sequence
    BY NumberAssumption DEF Sequence
  <2> QED
    BY <2>1 DEF InitOpen, SequenceTypeOK
<1>8. PacketTypeOK
  BY DEF InitOpen, StartNoPackets, PacketTypeOK
<1>9. CapabilityTypeOK
  <2>1. (CHOOSE m \in Module : TRUE) \in Module
    BY DEF OpenDeployment
  <2>2. <<CHOOSE m \in Module : TRUE>> \in Seq(Module)
    BY <2>1
  <2>3. capabilities = [c \in Chain |-> [name \in CapabilityName |->
                          <<CHOOSE m \in Module : TRUE>>]]
    BY DEF InitOpen
  <2> DEFINE owner == <<CHOOSE m \in Module : TRUE>>
  <2> HIDE DEF owner
  <2> QED
    BY <2>2, <2>3 DEF CapabilityTypeOK, owner
<1>10. BlocksTypeOK
  <2>1. EmptyStore \in StoreType
    BY <1>3 DEF EmptyStore, StoreType
  <2>2. \A c \in Chain : Store(c) \in StoreType
    BY <1>2, <1>5, <1>6, <1>8
    DEF ClientTypeOK, ConnectionTypeOK, ChannelTypeOK, PacketTypeOK, Store,
        StoreType, ClientState
  <2>3. blocks = [c \in Chain |-> <<EmptyStore, Store(c)>>]
    BY DEF InitOpen, StartClients
  <2>4. \A c \in Chain : /\ <<EmptyStore, Store(c)>> \in Seq(StoreType)
                         /\ Len(<<EmptyStore, Store(c)>>) = 2
    BY <2>1, <2>2
  <2> QED
    BY <2>3, <2>4 DEF BlocksTypeOK
<1>11. EventTypeOK
  BY DEF InitOpen, StartNoPackets, EventTypeOK
<1> QED
  BY <1>2, <1>5, <1>6, <1>7, <1>8, <1>9, <1>10, <1>11 DEF TypeOK, HostTypeOK
LEMMA OpenConnections ==
    ASSUME OpenDeployment, InitOpen
    PROVE  ConnectionInv
<1>1. \A c \in Chain :
        /\ Len(blocks[c]) = 2 /\ blocks[c][1] = EmptyStore
        /\ blocks[c][2].connections = connections[c]
  BY OpenBlocks
<1>2. \A id \in ConnectionId :
        /\ EmptyStore.connections[id] = NoConnection
        /\ NoConnection.state = "UNINITIALIZED_UNSPECIFIED"
  BY DEF EmptyStore, NoConnection
<1>3. /\ Conn("OPEN", 0).state = "OPEN" /\ Conn("OPEN", 0).client_id = 0
      /\ Conn("OPEN", 0).counterparty.client_id = 0
      /\ Conn("OPEN", 0).counterparty.connection_id = 0
  BY DEF Conn
<1>4. ClientsKnowBlocks
  <2> SUFFICES ASSUME NEW c \in Chain, NEW id \in ClientId
               PROVE  /\ clientStates[c][id] # None
                      /\ clientStates[c][id].chain \in Remotes[c]
                      /\ consensusStates[c][id] \subseteq
                           1 .. Len(blocks[clientStates[c][id].chain])
    BY DEF ClientsKnowBlocks
  <2>1. /\ clientStates[c][id] # None /\ clientStates[c][id].chain = Other(c)
        /\ consensusStates[c][id] = {2}
    BY OpenClients
  <2>2. Other(c) \in Remotes[c] /\ Len(blocks[Other(c)]) = 2
    BY <1>1, OtherChain
  <2> QED
    BY <2>1, <2>2
<1>5. ConnectionsAllocated
  <2> SUFFICES ASSUME NEW c \in Chain, NEW id \in ConnectionId
               PROVE  IF id >= nextConnectionSequence[c]
                      THEN connections[c][id].state = "UNINITIALIZED_UNSPECIFIED"
                      ELSE connections[c][id].client_id \in ClientId
    BY DEF ConnectionsAllocated
  <2>1. nextConnectionSequence[c] = 1
    BY DEF InitOpen, StartConnection
  <2>2. id \in Nat /\ 0 \in ClientId
    BY FirstIds DEF ConnectionId
  <2>3. connections[c][id] = IF id = 0 THEN Conn("OPEN", 0) ELSE NoConnection
    BY OpenConnectionEnds
  <2> QED
    BY <1>2, <1>3, <2>1, <2>2, <2>3
<1>6. SealedForward
  <2> SUFFICES ASSUME NEW c \in Chain, NEW id \in ConnectionId, NEW h \in 1 .. 2
               PROVE  MovesForward(blocks[c][h].connections[id], connections[c][id])
    BY <1>1 DEF SealedForward
  <2>1. h = 1 \/ h = 2
    OBVIOUS
  <2> QED
    BY <1>1, <1>2, <2>1 DEF MovesForward
<1>7. \A c \in Chain, id \in ConnectionId : connections[c][id].state # "TRYOPEN"
  BY <1>2, <1>3, OpenConnectionEnds
<1>8. TryOpenAnswered
  BY <1>7 DEF TryOpenAnswered
<1>9. SealedTryOpenAnswered
  <2> SUFFICES ASSUME NEW c \in Chain, NEW id \in ConnectionId, NEW h \in 1 .. 2
               PROVE  blocks[c][h].connections[id].state # "TRYOPEN"
    BY <1>1 DEF SealedTryOpenAnswered
  <2>1. h = 1 \/ h = 2
    OBVIOUS
  <2> QED
    BY <1>1, <1>2, <1>7, <2>1
<1>10. OpenAgreed
  <2> SUFFICES ASSUME NEW c \in Chain, NEW id \in ConnectionId,
                      connections[c][id].state = "OPEN"
               PROVE  Agreed(c, id, connections[c][id])
    BY DEF OpenAgreed
  <2>1. connections[c][id] = IF id = 0 THEN Conn("OPEN", 0) ELSE NoConnection
    BY OpenConnectionEnds
  <2>2. id = 0 /\ connections[c][id] = Conn("OPEN", 0)
    BY <1>2, <2>1
  <2>3. /\ 0 \in ClientId /\ 0 \in ConnectionId
        /\ clientStates[c][0] # None /\ clientStates[c][0].chain = Other(c)
        /\ connections[Other(c)][0] = Conn("OPEN", 0)
    BY FirstIds, OpenClients, OpenConnectionEnds, OtherChain
  <2> DEFINE e == Conn("OPEN", 0)
  <2>4. Linked(c, e) /\ peerOf(c, e) = e
    BY <1>3, <2>3 DEF Linked, peerOf, trackedChain
  <2> HIDE DEF e
  <2>5. Agreed(c, 0, e)
    BY <1>3, <2>4 DEF Agreed, e
  <2> QED
    BY <2>2, <2>5 DEF e
<1> QED
  BY <1>4, <1>5, <1>6, <1>8, <1>9, <1>10, OpenTypes DEF ConnectionInv

LEMMA OpenChannels ==
    ASSUME OpenDeployment, InitOpen
    PROVE  AgreementInv
<1>1. \A c \in Chain :
        /\ Len(blocks[c]) = 2 /\ blocks[c][1] = EmptyStore
        /\ blocks[c][2].channels = channels[c]
  BY OpenBlocks
<1>2. \A end \in End :
        /\ EmptyStore.channels[end] = NoChannel
        /\ NoChannel.state = "UNINITIALIZED_UNSPECIFIED"
  BY DEF EmptyStore, NoChannel
<1>3. ConnectionInv
  BY OpenConnections
<1>4. \A c \in Chain : /\ connections[c][0] = Conn("OPEN", 0)
                       /\ 0 \in ConnectionId /\ 0 \in ClientId
  BY FirstIds, OpenConnectionEnds
<1>5. IdentifiersUnused
  <2>1. \A c \in Chain : nextChannelSequence[c] = MaxChannels
    BY DEF InitOpen
  <2>2. \A id \in ChannelId : ~ (id >= MaxChannels)
    BY NumberAssumption DEF ChannelId
  <2>3. \A c \in Chain, id \in ConnectionId : id >= nextConnectionSequence[c] =>
          connections[c][id].state = "UNINITIALIZED_UNSPECIFIED"
    BY <1>3 DEF ConnectionInv, ConnectionsAllocated
  <2> QED
    BY <2>1, <2>2, <2>3 DEF IdentifiersUnused
<1>6. ChannelsSupported
  <2> SUFFICES ASSUME NEW c \in Chain, NEW end \in End
               PROVE  /\ Len(channels[c][end].connection_hops) = 1
                      /\ channels[c][end].connection_hops[1] \in ConnectionId
                      /\ Supports(channels[c][end].state,
                                  channelConnection(c, end).state)
    BY DEF ChannelsSupported
  <2>1. channels[c][end].connection_hops = <<0>>
    BY OpenChannelEnds
  <2>2. channelConnection(c, end).state = "OPEN"
    BY <1>4, <2>1 DEF channelConnection, Conn
  <2> QED
    BY <1>4, <2>1, <2>2 DEF Supports
<1>7. SealedChannelsForward
  <2> SUFFICES ASSUME NEW c \in Chain, NEW end \in End, NEW h \in 1 .. 2
               PROVE  ChannelForward(blocks[c][h].channels[end], channels[c][end])
    BY <1>1 DEF SealedChannelsForward
  <2>1. h = 1 \/ h = 2
    OBVIOUS
  <2> QED
    BY <1>1, <1>2, <2>1 DEF ChannelForward
<1>8. \A c \in Chain, end \in End : channels[c][end].state = "OPEN"
  BY OpenChannelEnds
<1>9. TryOpenChannelsAnswered
  BY <1>8 DEF TryOpenChannelsAnswered
<1>10. SealedTryOpenChannelsAnswered
  <2> SUFFICES ASSUME NEW c \in Chain, NEW end \in End, NEW h \in 1 .. 2
               PROVE  blocks[c][h].channels[end].state # "TRYOPEN"
    BY <1>1 DEF SealedTryOpenChannelsAnswered
  <2>1. h = 1 \/ h = 2
    OBVIOUS
  <2> QED
    BY <1>1, <1>2, <1>8, <2>1
<1>11. OpenChannelsAgreed
  <2> SUFFICES ASSUME NEW c \in Chain, NEW end \in End
               PROVE  ChannelAgreed(c, end, channels[c][end])
    BY DEF OpenChannelsAgreed
  <2>1. PICK e : e = channels[c][end]
    OBVIOUS
  <2>2. /\ e.state = "OPEN" /\ e.connection_hops = <<0>>
        /\ counterpartyEnd(e) = end /\ channels[Other(c)][end] = e
        /\ clientStates[c][0] # None /\ clientStates[c][0].chain = Other(c)
    BY <1>4, <2>1, OpenChannelEnds, OpenClients
  <2>3. hopOf(e) = 0 /\ clientOf(c, e) = 0
    BY <1>4, <2>2 DEF hopOf, clientOf, Conn
  <2>4. connectionFound(c, 0)
    BY <1>4 DEF connectionFound, Conn
  <2>5. ChannelLinked(c, e)
    BY <1>4, <2>2, <2>3, <2>4 DEF ChannelLinked
  <2>6. peerEndOf(c, e) = e
    BY <2>2, <2>3 DEF peerEndOf, peerChainOf, trackedChain
  <2>7. getCounterpartyHops(c, e) = <<0>>
    BY <1>4, <2>2 DEF getCounterpartyHops, Conn
  <2>8. ChannelAgreed(c, end, e)
    BY <2>2, <2>5, <2>6, <2>7 DEF ChannelAgreed
  <2> QED
    BY <2>1, <2>8
<1> QED
  BY <1>3, <1>5, <1>6, <1>7, <1>9, <1>10, <1>11, OpenTypes
  DEF AgreementInv, ChannelInv

LEMMA OpenDelivery ==
    ASSUME OpenDeployment, InitOpen
    PROVE  DeliveryInv
<1>1. \A c \in Chain, end \in End :
        /\ Sent(c, end) = <<>> /\ Received(c, end) = <<>>
        /\ AckedEvents(c, end) = <<>> /\ ackEvents[c][end] = <<>>
        /\ \A n \in Sequence : /\ packetAcks[c][end][n] = None
                               /\ packetCommitments[c][end][n] = None
        /\ nextSequenceSends[c][end] = 1 /\ nextSequenceRecvs[c][end] = 1
        /\ channels[c][end].state = "OPEN"
  BY OpenChannelEnds DEF InitOpen, StartNoPackets, Sent, Received, AckedEvents
<1>2. Len(<<>>) = 0 /\ DOMAIN <<>> = {} /\ Increment(0) = 1 /\ 0 < UINT64
  BY NumberAssumption DEF Increment
<1>3. \A c \in Chain, end \in End, n \in Sequence : \A h \in 1 .. Len(blocks[c]) :
        /\ blocks[c][h].packets[end][n] = None
        /\ blocks[c][h].acks[end][n] = None
  <2> SUFFICES ASSUME NEW c \in Chain, NEW end \in End, NEW n \in Sequence,
                      NEW h \in 1 .. Len(blocks[c])
               PROVE  /\ blocks[c][h].packets[end][n] = None
                      /\ blocks[c][h].acks[end][n] = None
    OBVIOUS
  <2>1. /\ Len(blocks[c]) = 2 /\ blocks[c][1] = EmptyStore
        /\ blocks[c][2].packets = packetCommitments[c]
        /\ blocks[c][2].acks = packetAcks[c]
    BY OpenBlocks
  <2>2. h = 1 \/ h = 2
    BY <2>1
  <2>3. CASE h = 1
    BY <2>1, <2>3 DEF EmptyStore
  <2>4. CASE h = 2
    BY <1>1, <2>1, <2>4
  <2> QED
    BY <2>2, <2>3, <2>4
<1>4. AgreementInv
  BY OpenChannels
<1>5. SendsCounted
  BY <1>1, <1>2 DEF SendsCounted
<1>6. AcksWereSent /\ CommittedUntilAcknowledged
  BY <1>1, <1>2 DEF AcksWereSent, CommittedUntilAcknowledged, Sent
<1>7. ReceivedCounted
  BY <1>1, <1>2 DEF ReceivedCounted
<1>8. SentAddressed /\ ReceivedWereSent /\ AckedWereAnswered /\ AckedDistinct
  BY <1>1, <1>2 DEF SentAddressed, ReceivedWereSent, AckedWereAnswered, AckedDistinct
<1>9. SealedPacketsSent /\ SealedAnswersFinal /\ AnsweredWereReceived
  BY <1>1, <1>3 DEF SealedPacketsSent, SealedAnswersFinal, AnsweredWereReceived
<1> QED
  BY <1>4, <1>5, <1>6, <1>7, <1>8, <1>9
  DEF DeliveryInv, PacketInv, AgreementInv
-----------------------------------------------------------------------------
(* What the mapping shows of the handler's state                           *)

Endpoints == Chain \X End
PeerOf == [e \in Endpoints |-> <<Other(e[1]), e[2]>>]
Ordered == [e \in Endpoints |-> channels[e[1]][e[2]].ordering = "ORDERED"]
SentFrom == [e \in Endpoints |-> sendEvents[e[1]][e[2]]]
ReceivedAt == [e \in Endpoints |-> [k \in DOMAIN recvEvents[e[1]][e[2]] |->
                                      Numbered(recvEvents[e[1]][e[2]][k])]]
Answers == [e \in Endpoints |-> packetAcks[e[1]][e[2]]]
AckedAt == [e \in Endpoints |-> [k \in DOMAIN ackEvents[e[1]][e[2]] |->
                                   LET event == ackEvents[e[1]][e[2]][k] IN
                                   [number |-> event.packet.sequence,
                                    message |-> event.packet,
                                    answer |-> event.ack]]]

\* The actions of the abstract specification, in these terms.
LEMMA AbstractSend ==
    ASSUME NEW e, NEW message
    PROVE  Delivery!Send(e, message) <=>
             /\ Len(SentFrom[e]) + 1 \in Sequence
             /\ SentFrom' = [SentFrom EXCEPT ![e] = Append(@, message)]
             /\ UNCHANGED <<Ordered, ReceivedAt, Answers, AckedAt>>
BY DEF Delivery!Send, Ordered, SentFrom, ReceivedAt, Answers, AckedAt, Endpoints

LEMMA AbstractDeliver ==
    ASSUME NEW e, NEW n, NEW answer
    PROVE  Delivery!Deliver(e, n, answer) <=>
             /\ n \in DOMAIN SentFrom[PeerOf[e]]
             /\ ~ \E k \in DOMAIN ReceivedAt[e] : ReceivedAt[e][k].number = n
             /\ Ordered[e] => n = Len(ReceivedAt[e]) + 1
             /\ ReceivedAt' = [ReceivedAt EXCEPT ![e] =
                  Append(@, [number |-> n, message |-> SentFrom[PeerOf[e]][n]])]
             /\ Answers' = [Answers EXCEPT ![e][n] = answer]
             /\ UNCHANGED <<Ordered, SentFrom, AckedAt>>
BY DEF Delivery!Deliver, Delivery!Delivered, Ordered, SentFrom, ReceivedAt,
       Answers, AckedAt, Endpoints, PeerOf
LEMMA AbstractAnswerLate ==
    ASSUME NEW e, NEW n, NEW answer
    PROVE  Delivery!AnswerLate(e, n, answer) <=>
             /\ \E k \in DOMAIN ReceivedAt[e] : ReceivedAt[e][k].number = n
             /\ Answers[e][n] = None
             /\ Answers' = [Answers EXCEPT ![e][n] = answer]
             /\ UNCHANGED <<Ordered, SentFrom, ReceivedAt, AckedAt>>
BY DEF Delivery!AnswerLate, Delivery!Delivered, Ordered, SentFrom, ReceivedAt,
       Answers, AckedAt, Endpoints

LEMMA AbstractAcknowledge ==
    ASSUME NEW e, NEW n
    PROVE  Delivery!Acknowledge(e, n) <=>
             /\ n \in DOMAIN SentFrom[e]
             /\ Answers[PeerOf[e]][n] # None
             /\ ~ \E k \in DOMAIN AckedAt[e] : AckedAt[e][k].number = n
             /\ AckedAt' = [AckedAt EXCEPT ![e] =
                  Append(@, [number |-> n, message |-> SentFrom[e][n],
                             answer |-> Answers[PeerOf[e]][n]])]
             /\ UNCHANGED <<Ordered, SentFrom, ReceivedAt, Answers>>
BY DEF Delivery!Acknowledge, Delivery!Acked, Ordered, SentFrom, ReceivedAt,
       Answers, AckedAt, Endpoints, PeerOf

LEMMA AbstractInit ==
    Delivery!DeliveryInit <=>
      /\ Ordered \in [Endpoints -> BOOLEAN]
      /\ SentFrom = [e \in Endpoints |-> <<>>]
      /\ ReceivedAt = [e \in Endpoints |-> <<>>]
      /\ Answers = [e \in Endpoints |-> [n \in Sequence |-> None]]
      /\ AckedAt = [e \in Endpoints |-> <<>>]
BY DEF Delivery!DeliveryInit, Ordered, SentFrom, ReceivedAt, Answers, AckedAt,
       Endpoints

LEMMA AbstractStutter ==
    UNCHANGED Delivery!deliveryVars <=>
      UNCHANGED <<Ordered, SentFrom, ReceivedAt, Answers, AckedAt>>
BY DEF Delivery!deliveryVars, Ordered, SentFrom, ReceivedAt, Answers, AckedAt,
       Endpoints

LEMMA AbstractNext ==
    Delivery!DeliveryNext <=>
      \E e \in Endpoints :
        \/ \E message \in Packet : Delivery!Send(e, message)
        \/ \E n \in Sequence :
             \/ \E answer \in Acknowledgement \cup {None} :
                  Delivery!Deliver(e, n, answer)
             \/ \E answer \in Acknowledgement : Delivery!AnswerLate(e, n, answer)
             \/ Delivery!Acknowledge(e, n)
BY DEF Delivery!DeliveryNext, Endpoints
-----------------------------------------------------------------------------
(* The invariant: the channels stay as they were opened                    *)

OpenInv ==
    /\ DeliveryInv
    /\ \A c \in Chain, end \in End :
         /\ channels[c][end].state = "OPEN"
         /\ counterpartyEnd(channels[c][end]) = end

LEMMA OpenInit ==
    ASSUME OpenDeployment, InitOpen PROVE OpenInv
BY OpenDelivery, OpenChannelEnds DEF OpenInv

\* Nothing changes an OPEN channel.
LEMMA OpenStep ==
    ASSUME OpenDeployment, OpenInv, [Next]_vars
    PROVE  OpenInv' /\ UNCHANGED channels
<1>1. Paired
  BY OtherChain
<1>2. AgreementInv /\ DeliveryInv'
  BY <1>1, DeliveryStep DEF OpenInv, DeliveryInv
<1>3. \A c \in Chain, end \in End : channels'[c][end] = channels[c][end]
  BY <1>1, <1>2, OpenPeerKept DEF OpenInv
<1>4. /\ channels \in [Chain -> [End -> ChannelEnd]]
      /\ channels' \in [Chain -> [End -> ChannelEnd]]
  <2>1. TypeOK /\ TypeOK'
    BY <1>2 DEF AgreementInv, ChannelInv, DeliveryInv
  <2> QED
    BY <2>1 DEF TypeOK, HostTypeOK, ChannelTypeOK
<1>5. channels' = channels
  BY <1>3, <1>4
<1> QED
  BY <1>2, <1>3, <1>5 DEF OpenInv, counterpartyEnd

\* The two ends of a channel have the same identifiers.
LEMMA OpenPeers ==
    ASSUME OpenDeployment, OpenInv, NEW c \in Chain, NEW end \in End
    PROVE  /\ peerChain(c, end) = Other(c)
           /\ sentByPeer(c, end) = Sent(Other(c), end)
<1>1. channels[c][end].state = "OPEN" /\ counterpartyEnd(channels[c][end]) = end
  BY DEF OpenInv
<1>2. peerChain(c, end) \in Chain /\ peerChain(c, end) # c
  BY <1>1, OtherChain, OpenChannelPeer DEF OpenInv, DeliveryInv
<1>3. peerChain(c, end) = Other(c)
  BY <1>2, OtherChain
<1> QED
  BY <1>1, <1>3 DEF sentByPeer, Sent

\* What the mapping shows at one end.
LEMMA EndShown ==
    ASSUME NEW c \in Chain, NEW end \in End
    PROVE  /\ <<c, end>> \in Endpoints /\ PeerOf[<<c, end>>] = <<Other(c), end>>
           /\ Ordered[<<c, end>>] = (channels[c][end].ordering = "ORDERED")
           /\ SentFrom[<<c, end>>] = Sent(c, end)
           /\ ReceivedAt[<<c, end>>] = [k \in DOMAIN Received(c, end) |->
                                          Numbered(Received(c, end)[k])]
           /\ Answers[<<c, end>>] = packetAcks[c][end]
<1>1. PICK e : e = <<c, end>>
  OBVIOUS
<1>2. e \in Endpoints /\ e[1] = c /\ e[2] = end
  BY <1>1 DEF Endpoints
<1>3. PeerOf[e] = <<Other(c), end>>
  BY <1>2 DEF PeerOf
<1>4. Ordered[e] = (channels[c][end].ordering = "ORDERED")
  BY <1>2 DEF Ordered
<1>5. SentFrom[e] = Sent(c, end) /\ Answers[e] = packetAcks[c][end]
  BY <1>2 DEF SentFrom, Sent, Answers
<1>6. ReceivedAt[e] = [k \in DOMAIN Received(c, end) |-> Numbered(Received(c, end)[k])]
  BY <1>2 DEF ReceivedAt, Received
<1> QED
  BY <1>1, <1>2, <1>3, <1>4, <1>5, <1>6

LEMMA OtherShown ==
    ASSUME OpenDeployment, NEW c \in Chain, NEW end \in End
    PROVE  /\ SentFrom[PeerOf[<<c, end>>]] = Sent(Other(c), end)
           /\ Answers[PeerOf[<<c, end>>]] = packetAcks[Other(c)][end]
<1>1. PICK d \in Chain : d = Other(c)
  BY OtherChain
<1>2. PeerOf[<<c, end>>] = <<d, end>>
  BY <1>1, EndShown
<1>3. SentFrom[<<d, end>>] = Sent(d, end) /\ Answers[<<d, end>>] = packetAcks[d][end]
  BY EndShown
<1> QED
  BY <1>1, <1>2, <1>3

\* An event added at one end is added to what the mapping shows of it.
LEMMA AppendNumbered ==
    ASSUME NEW s \in Seq(Packet), NEW packet \in Packet
    PROVE  [k \in DOMAIN Append(s, packet) |-> Numbered(Append(s, packet)[k])]
             = Append([k \in DOMAIN s |-> Numbered(s[k])], Numbered(packet))
OBVIOUS

LEMMA SentShown ==
    ASSUME TypeOK, NEW c \in Chain, NEW end \in End, NEW packet,
           sendEvents' = emit(sendEvents, c, end, packet)
    PROVE  SentFrom' = [SentFrom EXCEPT ![<<c, end>>] = Append(@, packet)]
<1>1. sendEvents \in [Chain -> [End -> Seq(Packet)]]
  BY DEF TypeOK, EventTypeOK
<1>2. ASSUME NEW e \in Endpoints
      PROVE  sendEvents'[e[1]][e[2]] = IF e = <<c, end>>
                                       THEN Append(sendEvents[c][end], packet)
                                       ELSE sendEvents[e[1]][e[2]]
  <2>1. e[1] \in Chain /\ e[2] \in End /\ e = <<e[1], e[2]>>
    BY DEF Endpoints
  <2>2. e = <<c, end>> <=> e[1] = c /\ e[2] = end
    BY <2>1
  <2> QED
    BY <1>1, <2>1, <2>2 DEF emit
<1> QED
  BY <1>2, EndShown DEF SentFrom, Sent
LEMMA ReceivedShown ==
    ASSUME TypeOK, NEW c \in Chain, NEW end \in End, NEW packet \in Packet,
           recvEvents' = emit(recvEvents, c, end, packet)
    PROVE  ReceivedAt' = [ReceivedAt EXCEPT ![<<c, end>>] =
                            Append(@, Numbered(packet))]
<1>1. recvEvents \in [Chain -> [End -> Seq(Packet)]]
  BY DEF TypeOK, EventTypeOK
<1>2. ASSUME NEW e \in Endpoints
      PROVE  recvEvents'[e[1]][e[2]] = IF e = <<c, end>>
                                       THEN Append(recvEvents[c][end], packet)
                                       ELSE recvEvents[e[1]][e[2]]
  <2>1. e[1] \in Chain /\ e[2] \in End /\ e = <<e[1], e[2]>>
    BY DEF Endpoints
  <2>2. e = <<c, end>> <=> e[1] = c /\ e[2] = end
    BY <2>1
  <2> QED
    BY <1>1, <2>1, <2>2 DEF emit
<1>3. recvEvents[c][end] \in Seq(Packet)
  BY <1>1
<1> DEFINE R(s) == [k \in DOMAIN s |-> Numbered(s[k])]
<1>4. R(Append(recvEvents[c][end], packet))
        = Append(R(recvEvents[c][end]), Numbered(packet))
  BY <1>3, AppendNumbered
<1>5. /\ ReceivedAt = [e \in Endpoints |-> R(recvEvents[e[1]][e[2]])]
      /\ ReceivedAt' = [e \in Endpoints |-> R(recvEvents'[e[1]][e[2]])]
  BY DEF ReceivedAt, Endpoints
<1>6. <<c, end>> \in Endpoints /\ ReceivedAt[<<c, end>>] = R(recvEvents[c][end])
  BY EndShown DEF Received
<1> HIDE DEF R
<1> QED
  BY <1>2, <1>4, <1>5, <1>6

\* Likewise for an event of an acknowledgement.
Told(event) == [number |-> event.packet.sequence, message |-> event.packet,
                answer |-> event.ack]

LEMMA AppendTold ==
    ASSUME NEW Event, NEW s \in Seq(Event), NEW event \in Event
    PROVE  [k \in DOMAIN Append(s, event) |-> Told(Append(s, event)[k])]
             = Append([k \in DOMAIN s |-> Told(s[k])], Told(event))
OBVIOUS

LEMMA AckedShown ==
    ASSUME TypeOK, NEW c \in Chain, NEW end \in End, NEW packet \in Packet,
           NEW ack \in Acknowledgement,
           ackEvents' = emit(ackEvents, c, end, [packet |-> packet, ack |-> ack])
    PROVE  /\ AckedAt' = [AckedAt EXCEPT ![<<c, end>>] =
                Append(@, [number |-> packet.sequence, message |-> packet,
                           answer |-> ack])]
           /\ \A k \in DOMAIN AckedAt[<<c, end>>] :
                /\ k \in DOMAIN AckedEvents(c, end)
                /\ AckedAt[<<c, end>>][k].number
                     = AckedEvents(c, end)[k].packet.sequence
<1> DEFINE Event == [packet : Packet, ack : Acknowledgement]
           event == [packet |-> packet, ack |-> ack]
           T(s) == [k \in DOMAIN s |-> Told(s[k])]
<1>1. ackEvents \in [Chain -> [End -> Seq(Event)]] /\ event \in Event
  BY DEF TypeOK, EventTypeOK
<1>2. Told(event) = [number |-> packet.sequence, message |-> packet, answer |-> ack]
  BY DEF Told
<1>3. ackEvents' = emit(ackEvents, c, end, event)
  OBVIOUS
<1>4. /\ AckedAt = [e \in Endpoints |-> T(ackEvents[e[1]][e[2]])]
      /\ AckedAt' = [e \in Endpoints |-> T(ackEvents'[e[1]][e[2]])]
  BY DEF AckedAt, Endpoints, Told
<1>5. \A s : \A k \in DOMAIN T(s) :
        k \in DOMAIN s /\ T(s)[k].number = s[k].packet.sequence
  BY DEF Told
<1> HIDE DEF Event, event
<1>6. ackEvents[c][end] \in Seq(Event)
  BY <1>1
<1>7. T(Append(ackEvents[c][end], event)) = Append(T(ackEvents[c][end]), Told(event))
  BY <1>1, <1>6, AppendTold
<1> HIDE DEF T
<1>8. ASSUME NEW e \in Endpoints
      PROVE  ackEvents'[e[1]][e[2]] = IF e = <<c, end>>
                                      THEN Append(ackEvents[c][end], event)
                                      ELSE ackEvents[e[1]][e[2]]
  <2>1. e[1] \in Chain /\ e[2] \in End /\ e = <<e[1], e[2]>>
    BY DEF Endpoints
  <2>2. e = <<c, end>> <=> e[1] = c /\ e[2] = end
    BY <2>1
  <2> QED
    BY <1>1, <1>3, <2>1, <2>2 DEF emit
<1>9. AckedAt[<<c, end>>] = T(ackEvents[c][end])
  <2>1. PICK e : e = <<c, end>>
    OBVIOUS
  <2>2. e \in Endpoints /\ e[1] = c /\ e[2] = end
    BY <2>1 DEF Endpoints
  <2> QED
    BY <1>4, <2>1, <2>2
<1>10. <<c, end>> \in Endpoints
  BY DEF Endpoints
<1>11. AckedAt' = [AckedAt EXCEPT ![<<c, end>>] = Append(@, Told(event))]
  BY <1>4, <1>7, <1>8, <1>9, <1>10
<1> QED
  BY <1>2, <1>5, <1>9, <1>11 DEF AckedEvents

LEMMA AnswersShown ==
    ASSUME TypeOK, NEW c \in Chain, NEW end \in End, NEW n \in Sequence,
           NEW answer,
           setPacketAcknowledgementCommitment(c, end, n, answer)
    PROVE  Answers' = [Answers EXCEPT ![<<c, end>>][n] = answer]
<1>1. packetAcks \in [Chain -> [End -> [Sequence -> Acknowledgement \cup {None}]]]
  BY DEF TypeOK, HostTypeOK, PacketTypeOK
<1>2. ASSUME NEW e \in Endpoints
      PROVE  packetAcks'[e[1]][e[2]] =
               IF e = <<c, end>> THEN [packetAcks[c][end] EXCEPT ![n] = answer]
               ELSE packetAcks[e[1]][e[2]]
  <2>1. e[1] \in Chain /\ e[2] \in End /\ e = <<e[1], e[2]>>
    BY DEF Endpoints
  <2>2. e = <<c, end>> <=> e[1] = c /\ e[2] = end
    BY <2>1
  <2> QED
    BY <1>1, <2>1, <2>2 DEF setPacketAcknowledgementCommitment
<1>3. /\ Answers = [e \in Endpoints |-> packetAcks[e[1]][e[2]]]
      /\ Answers' = [e \in Endpoints |-> packetAcks'[e[1]][e[2]]]
  BY DEF Answers
<1>4. <<c, end>> \in Endpoints /\ Answers[<<c, end>>] = packetAcks[c][end]
  BY EndShown
<1> QED
  BY <1>2, <1>3, <1>4
\* What a step leaves alone is not seen to change.
LEMMA KeptShown ==
    /\ UNCHANGED channels => UNCHANGED Ordered
    /\ UNCHANGED sendEvents => UNCHANGED SentFrom
    /\ UNCHANGED recvEvents => UNCHANGED ReceivedAt
    /\ UNCHANGED packetAcks => UNCHANGED Answers
    /\ UNCHANGED ackEvents => UNCHANGED AckedAt
BY DEF Ordered, SentFrom, ReceivedAt, Answers, AckedAt

-----------------------------------------------------------------------------
(* Each operation on packets is a step of reliable delivery                *)

LEMMA OpenFacts ==
    ASSUME OpenDeployment, OpenInv
    PROVE  Paired /\ DeliveryInv /\ AgreementInv /\ ChannelInv /\ TypeOK
BY OtherChain DEF OpenInv, DeliveryInv, AgreementInv, ChannelInv

LEMMA SendImplements ==
    ASSUME OpenDeployment, OpenInv, NEW c \in Chain, SendPacket(c)
    PROVE  Delivery!DeliveryNext
<1>1. PICK packet \in [sequence : Sequence \ {0}, source_port : Port,
                       source_channel : ChannelId, destination_port : Port,
                       destination_channel : ChannelId, data : Payload[c],
                       timeout_height : TimeoutHeight,
                       timeout_timestamp : TimeoutTimestamp] :
        /\ sendPacket(c, packet)
        /\ sendEvents' = emit(sendEvents, c, source(packet), packet)
        /\ UNCHANGED <<recvEvents, ackEvents>>
  BY DEF SendPacket
<1>2. packet \in Packet /\ packet.sequence > 0
  BY ApplicationAssumption DEF Packet, Sequence
<1> DEFINE end == source(packet)
           n == Len(Sent(c, end))
<1>3. end \in End /\ packet.sequence \in Sequence
  BY <1>2, PacketFieldTypes
<1>4. UNCHANGED <<channels, packetAcks>>
  BY <1>1 DEF sendPacket, channelVars
<1>5. channels[c][end].state = "OPEN" /\ packet.sequence = nextSequenceSends[c][end]
  BY <1>1 DEF sendPacket
<1>6. nextSequenceSends[c][end] = Increment(n) /\ n < UINT64
  BY <1>3, <1>5 DEF OpenInv, DeliveryInv, PacketInv, SendsCounted
<1>7. TypeOK
  BY OpenFacts
<1>8. n \in Nat
  BY <1>3, <1>7 DEF TypeOK, EventTypeOK, Sent
<1>9. n + 1 \in Sequence
  <2> HIDE DEF n
  <2> QED
    BY <1>2, <1>3, <1>5, <1>6, <1>8, NumberAssumption DEF Increment, Sequence
<1>10. SentFrom' = [SentFrom EXCEPT ![<<c, end>>] = Append(@, packet)]
  BY <1>1, <1>3, <1>7, SentShown
<1>11. UNCHANGED <<Ordered, ReceivedAt, Answers, AckedAt>>
  BY <1>1, <1>4, KeptShown
<1>12. <<c, end>> \in Endpoints /\ SentFrom[<<c, end>>] = Sent(c, end)
  BY <1>3, EndShown
<1>13. Delivery!Send(<<c, end>>, packet)
  BY <1>9, <1>10, <1>11, <1>12, AbstractSend
<1> QED
  BY <1>2, <1>12, <1>13, AbstractNext

\* An application's answer is one step with the delivery.
LEMMA RecvImplements ==
    ASSUME OpenDeployment, OpenInv, NEW c \in Chain, NEW packet \in Packet,
           RecvPacket(c, packet)
    PROVE  Delivery!DeliveryNext
<1> DEFINE end == destination(packet)
           n == packet.sequence
           s == Received(c, end)
           e == <<c, end>>
<1>1. Paired /\ DeliveryInv /\ TypeOK
  BY OpenFacts
<1>2. end \in End /\ n \in Sequence /\ n \in Nat
  BY PacketFieldTypes DEF Sequence
<1>3. /\ UNCHANGED <<channels, sendEvents, ackEvents>>
      /\ recvEvents' = emit(recvEvents, c, end, packet)
      /\ channels[c][end].state = "OPEN"
  BY DEF RecvPacket, recvPacket, channelVars
<1>4. s \in Seq(Packet) /\ Len(s) \in Nat /\ DOMAIN s = 1 .. Len(s)
  BY <1>1, <1>2 DEF TypeOK, EventTypeOK, Received
<1>5. n \in DOMAIN Sent(Other(c), end) /\ Sent(Other(c), end)[n] = packet
  BY <1>1, <1>2, VerifiedPacket, OpenPeers DEF WasSent
<1>6. IF channels[c][end].ordering = "ORDERED"
      THEN /\ \A i \in DOMAIN s : s[i].sequence = i
           /\ nextSequenceRecvs[c][end] = Increment(Len(s))
      ELSE \A i \in DOMAIN s : s[i].sequence \in packetReceipts[c][end]
  BY <1>1, <1>2, <1>3 DEF DeliveryInv, ReceivedCounted
<1>7. \/ /\ channels[c][end].ordering = "ORDERED"
         /\ nextSequenceRecvs[c][end] > 0 /\ nextSequenceRecvs[c][end] = n
      \/ /\ channels[c][end].ordering = "UNORDERED" /\ n \notin packetReceipts[c][end]
  BY <1>1, <1>2, RecvPacketReceipts
<1>8. /\ \A i \in DOMAIN s : s[i].sequence # n
      /\ channels[c][end].ordering = "ORDERED" => n = Len(s) + 1
  <2>1. CASE channels[c][end].ordering = "ORDERED"
    <3>1. PICK m \in Nat : m = Len(s)
      BY <1>4
    <3>2. m < UINT64
      <4>1. CASE m = 0
        BY <4>1, NumberAssumption
      <4>2. CASE m # 0
        <5>1. m \in DOMAIN s /\ s[m] \in Packet
          BY <1>4, <3>1, <4>2
        <5>2. s[m].sequence = m
          BY <1>6, <2>1, <5>1
        <5> QED
          BY <5>1, <5>2, PacketFieldTypes, NumberAssumption DEF Sequence
      <4> QED
        BY <4>1, <4>2
    <3>3. Increment(m) > 0 /\ n = Increment(m)
      BY <1>6, <1>7, <2>1, <3>1
    <3>4. n = m + 1
      BY <3>1, <3>2, <3>3, NumberAssumption DEF Increment
    <3>5. n \notin DOMAIN s
      BY <1>4, <3>1, <3>4
    <3> QED
      BY <1>6, <2>1, <3>1, <3>4, <3>5
  <2>2. CASE channels[c][end].ordering # "ORDERED"
    BY <1>6, <1>7, <2>2
  <2> QED
    BY <2>1, <2>2
<1>9. packetAcks[c][end][n] = None
  BY <1>1, <1>2, <1>8 DEF DeliveryInv, AnsweredWereReceived
<1>10. PICK answer \in Acknowledgement \cup {None} :
         Answers' = [Answers EXCEPT ![e][n] = answer]
  <2>1. PICK ack \in Returned :
          IF ack = None
          THEN UNCHANGED packetAcks
          ELSE writeAcknowledgement(c, end, n, ack)
    BY DEF RecvPacket
  <2>2. ack \in Acknowledgement \cup {None}
    BY ApplicationAssumption
  <2>3. CASE ack = None
    <3>1. Answers' = Answers
      BY <2>1, <2>3, KeptShown
    <3>2. e \in Endpoints /\ Answers[e] = packetAcks[c][end]
      BY <1>2, EndShown
    <3>3. /\ DOMAIN packetAcks[c][end] = Sequence
          /\ packetAcks[c][end] = [m \in Sequence |-> packetAcks[c][end][m]]
      BY <1>1, <1>2 DEF TypeOK, HostTypeOK, PacketTypeOK
    <3>4. [packetAcks[c][end] EXCEPT ![n] = None] = packetAcks[c][end]
      BY <1>2, <1>9, <3>3
    <3>5. [Answers EXCEPT ![e][n] = None] = Answers
      <4>1. Answers = [x \in Endpoints |-> Answers[x]]
        BY DEF Answers
      <4> HIDE DEF e
      <4> QED
        BY <3>2, <3>4, <4>1
    <3> QED
      BY <2>2, <2>3, <3>1, <3>5
  <2>4. CASE ack # None
    BY <1>1, <1>2, <2>1, <2>2, <2>4, AnswersShown DEF writeAcknowledgement
  <2> QED
    BY <2>3, <2>4
<1>11. ReceivedAt' = [ReceivedAt EXCEPT ![e] = Append(@, Numbered(packet))]
  BY <1>1, <1>2, <1>3, ReceivedShown
<1>12. /\ e \in Endpoints
       /\ SentFrom[PeerOf[e]] = Sent(Other(c), end)
       /\ Ordered[e] = (channels[c][end].ordering = "ORDERED")
       /\ ReceivedAt[e] = [k \in DOMAIN s |-> Numbered(s[k])]
  BY <1>2, EndShown, OtherShown
<1>13. UNCHANGED <<Ordered, SentFrom, AckedAt>>
  BY <1>3, KeptShown
<1>14. /\ DOMAIN ReceivedAt[e] = DOMAIN s /\ Len(ReceivedAt[e]) = Len(s)
       /\ \A k \in DOMAIN s : ReceivedAt[e][k].number = s[k].sequence
  BY <1>4, <1>12 DEF Numbered
<1>15. Numbered(packet) = [number |-> n, message |-> SentFrom[PeerOf[e]][n]]
  BY <1>5, <1>12 DEF Numbered
<1> HIDE DEF e, n, s
<1>16. Delivery!Deliver(e, n, answer)
  BY <1>5, <1>8, <1>10, <1>11, <1>12, <1>13, <1>14, <1>15, AbstractDeliver
<1> QED
  BY <1>2, <1>10, <1>12, <1>16, AbstractNext
LEMMA WriteAcknowledgementImplements ==
    ASSUME OpenDeployment, OpenInv, NEW c \in Chain, WriteAcknowledgement(c)
    PROVE  Delivery!DeliveryNext
<1>1. PICK end \in End :
        \E i \in DOMAIN Received(c, end), ack \in Acknowledgement :
          /\ writeAcknowledgement(c, end, Received(c, end)[i].sequence, ack)
          /\ UNCHANGED <<channelVars, eventVars>>
  BY DEF WriteAcknowledgement, Received
<1>2. PICK i \in DOMAIN Received(c, end), ack \in Acknowledgement :
        /\ writeAcknowledgement(c, end, Received(c, end)[i].sequence, ack)
        /\ UNCHANGED <<channelVars, eventVars>>
  BY <1>1
<1> DEFINE n == Received(c, end)[i].sequence
<1>3. TypeOK /\ DeliveryInv
  BY OpenFacts
<1>4. n \in Sequence
  BY <1>3, ReceivedPackets, PacketFieldTypes
<1>5. /\ packetAcks[c][end][n] = None
      /\ setPacketAcknowledgementCommitment(c, end, n, ack)
  BY <1>2 DEF writeAcknowledgement
<1>6. Answers' = [Answers EXCEPT ![<<c, end>>][n] = ack]
  BY <1>3, <1>4, <1>5, AnswersShown
<1>7. UNCHANGED <<Ordered, SentFrom, ReceivedAt, AckedAt>>
  BY <1>2, KeptShown DEF channelVars, eventVars
<1>8. /\ <<c, end>> \in Endpoints
      /\ Answers[<<c, end>>] = packetAcks[c][end]
      /\ ReceivedAt[<<c, end>>] = [k \in DOMAIN Received(c, end) |->
                                     Numbered(Received(c, end)[k])]
  BY EndShown
<1>9. i \in DOMAIN ReceivedAt[<<c, end>>] /\ ReceivedAt[<<c, end>>][i].number = n
  BY <1>8 DEF Numbered
<1> HIDE DEF n
<1>10. Delivery!AnswerLate(<<c, end>>, n, ack)
  BY <1>5, <1>6, <1>7, <1>8, <1>9, AbstractAnswerLate
<1> QED
  BY <1>4, <1>8, <1>10, AbstractNext

\* The answer that the sender hears of is the one of the other end.
LEMMA AcknowledgeImplements ==
    ASSUME OpenDeployment, OpenInv, NEW c \in Chain, NEW packet \in Packet,
           AcknowledgePacket(c, packet)
    PROVE  Delivery!DeliveryNext
<1> DEFINE end == source(packet)
           n == packet.sequence
           e == <<c, end>>
<1>1. PICK ack \in Acknowledgement, height \in 1 .. MaxHeight :
        /\ acknowledgePacket(c, packet, ack, height)
        /\ ackEvents' = emit(ackEvents, c, end, [packet |-> packet, ack |-> ack])
  BY DEF AcknowledgePacket
<1>2. UNCHANGED <<channels, sendEvents, recvEvents, packetAcks>>
  BY <1>1 DEF AcknowledgePacket, acknowledgePacket, channelVars
<1>3. Paired /\ DeliveryInv /\ TypeOK
  BY OpenFacts
<1>4. end \in End /\ n \in Sequence /\ Other(c) \in Chain
  BY PacketFieldTypes, OtherChain
<1>5. /\ destination(packet) = counterpartyEnd(channels[c][end])
      /\ packetCommitments[c][end][n] = makePacketCommitment(packet)
  BY <1>1 DEF acknowledgePacket
<1>6. destination(packet) = end
  BY <1>4, <1>5 DEF OpenInv
<1>7. WasAnswered(c, end, [packet |-> packet, ack |-> ack])
  BY <1>1, <1>3, VerifiedAnswer
<1>8. /\ packet \in Range(Received(Other(c), end))
      /\ ack # None /\ packetAcks[Other(c)][end][n] = ack
  BY <1>4, <1>6, <1>7, OpenPeers DEF WasAnswered
<1>9. PICK i \in DOMAIN Received(Other(c), end) : Received(Other(c), end)[i] = packet
  BY <1>8 DEF Range
<1>10. n \in DOMAIN Sent(c, end) /\ Sent(c, end)[n] = packet
  <2>1. WasSent(Other(c), end, packet)
    BY <1>3, <1>4, <1>9, ReceivedPackets
  <2>2. sentByPeer(Other(c), end) = Sent(c, end)
    BY <1>4, OpenPeers, OtherChain
  <2> QED
    BY <2>1, <2>2 DEF WasSent
<1>11. \A k \in DOMAIN AckedEvents(c, end) :
         AckedEvents(c, end)[k].packet.sequence # n
  <2>1. makePacketCommitment(packet) # None
    BY PacketFieldTypes, SlotAssumption
  <2> QED
    BY <1>3, <1>4, <1>5, <2>1
    DEF DeliveryInv, PacketInv, CommittedUntilAcknowledged, AckedEvents
<1>12. /\ AckedAt' = [AckedAt EXCEPT ![e] =
            Append(@, [number |-> n, message |-> packet, answer |-> ack])]
       /\ \A k \in DOMAIN AckedAt[e] :
            /\ k \in DOMAIN AckedEvents(c, end)
            /\ AckedAt[e][k].number = AckedEvents(c, end)[k].packet.sequence
  BY <1>1, <1>3, <1>4, AckedShown
<1>13. /\ e \in Endpoints /\ SentFrom[e] = Sent(c, end)
       /\ Answers[PeerOf[e]] = packetAcks[Other(c)][end]
  BY <1>4, EndShown, OtherShown
<1>14. UNCHANGED <<Ordered, SentFrom, ReceivedAt, Answers>>
  BY <1>2, KeptShown
<1> HIDE DEF e, n, end
<1>15. Delivery!Acknowledge(e, n)
  BY <1>8, <1>10, <1>11, <1>12, <1>13, <1>14, AbstractAcknowledge
<1> QED
  BY <1>4, <1>13, <1>15, AbstractNext

\* No other step leaves anything to be seen.
LEMMA OthersUnseen ==
    ASSUME OpenDeployment, OpenInv, [Next]_vars
    PROVE  \/ UNCHANGED <<channels, packetAcks, eventVars>>
           \/ \E c \in Chain : \/ SendPacket(c)
                               \/ \E packet \in Packet : RecvPacket(c, packet)
                               \/ WriteAcknowledgement(c)
                               \/ \E packet \in Packet : AcknowledgePacket(c, packet)
<1>1. UNCHANGED channels
  BY OpenStep
<1>2. ASSUME NEW c \in Chain, ClientNext(c) PROVE UNCHANGED <<packetAcks, eventVars>>
  BY <1>2 DEF ClientNext, RegisterClient, registerClient, CreateClient,
              createClient, UpdateClient, updateClient, packetVars
<1>3. ASSUME NEW c \in Chain, ConnectionNext(c)
      PROVE  UNCHANGED <<packetAcks, eventVars>>
  BY <1>3, ConnectionFrame DEF packetVars
<1>4. ASSUME NEW c \in Chain, ChannelNext(c) PROVE UNCHANGED <<packetAcks, eventVars>>
  BY <1>4, ChannelFrame DEF packetVars
<1>5. ASSUME NEW c \in Chain, SealBlock(c) PROVE UNCHANGED packetAcks
  BY <1>5 DEF SealBlock, packetVars
<1>6. UNCHANGED vars => UNCHANGED <<packetAcks, eventVars>>
  BY DEF vars, hostVars, packetVars
<1> QED
  BY <1>1, <1>2, <1>3, <1>4, <1>5, <1>6 DEF Next, PacketNext

LEMMA OpenImplementsStep ==
    ASSUME OpenDeployment, OpenInv, [Next]_vars
    PROVE  [Delivery!DeliveryNext]_(Delivery!deliveryVars)
<1>1. CASE UNCHANGED <<channels, packetAcks, eventVars>>
  <2>1. UNCHANGED <<Ordered, SentFrom, ReceivedAt, Answers, AckedAt>>
    BY <1>1, KeptShown DEF eventVars
  <2> QED
    BY <2>1, AbstractStutter
<1> QED
  BY <1>1, OthersUnseen, SendImplements, RecvImplements,
     WriteAcknowledgementImplements, AcknowledgeImplements

LEMMA OpenImplementsInit ==
    ASSUME OpenDeployment, InitOpen PROVE Delivery!DeliveryInit
<1>1. /\ \A c \in Chain, end \in End :
           /\ sendEvents[c][end] = <<>> /\ recvEvents[c][end] = <<>>
           /\ ackEvents[c][end] = <<>>
           /\ packetAcks[c][end] = [n \in Sequence |-> None]
  BY DEF InitOpen, StartNoPackets
<1>2. \A e \in Endpoints : e[1] \in Chain /\ e[2] \in End
  BY DEF Endpoints
<1>3. SentFrom = [e \in Endpoints |-> <<>>]
  BY <1>1, <1>2 DEF SentFrom
<1>4. ReceivedAt = [e \in Endpoints |-> <<>>]
  <2>1. \A e \in Endpoints : [k \in DOMAIN recvEvents[e[1]][e[2]] |->
                                Numbered(recvEvents[e[1]][e[2]][k])] = <<>>
    BY <1>1, <1>2
  <2> QED
    BY <2>1 DEF ReceivedAt
<1>5. Answers = [e \in Endpoints |-> [n \in Sequence |-> None]]
  BY <1>1, <1>2 DEF Answers
<1>6. AckedAt = [e \in Endpoints |-> <<>>]
  <2>1. \A e \in Endpoints : [k \in DOMAIN ackEvents[e[1]][e[2]] |->
                                Told(ackEvents[e[1]][e[2]][k])] = <<>>
    BY <1>1, <1>2
  <2> QED
    BY <2>1 DEF AckedAt, Told
<1>7. Ordered \in [Endpoints -> BOOLEAN]
  BY DEF Ordered
<1> QED
  BY <1>3, <1>4, <1>5, <1>6, <1>7, AbstractInit

\* The contracts implement reliable delivery: between the two chains of an
\* OpenDeployment whose channels are open, whatever relayers submit, in any
\* order and as often as they like (IBCChannel.sol:150-274,
\* IBCHandler.sol:104-144), what applications see is what PacketDelivery allows.
THEOREM OpenImplementsDelivery ==
    OpenDeployment => (SpecOpen => ImplementsDelivery)
<1> SUFFICES ASSUME OpenDeployment PROVE SpecOpen => ImplementsDelivery
  OBVIOUS
<1>1. InitOpen => OpenInv /\ Delivery!DeliveryInit
  BY OpenInit, OpenImplementsInit
<1>2. OpenInv /\ [Next]_vars => OpenInv' /\ [Delivery!DeliveryNext]_(Delivery!deliveryVars)
  BY OpenStep, OpenImplementsStep
<1> QED
  BY <1>1, <1>2, PTL DEF SpecOpen, ImplementsDelivery, Delivery!DeliverySpec
=============================================================================
