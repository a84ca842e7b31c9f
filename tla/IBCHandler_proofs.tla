-------------------------- MODULE IBCHandler_proofs --------------------------
(***************************************************************************)
(* Type correctness of the handler and of the host below it, for any       *)
(* chains, identifiers, blocks and messages.                               *)
(***************************************************************************)
EXTENDS IBCHandler, TLAPS

-----------------------------------------------------------------------------
(* The groups of variables a step leaves alone keep their types.           *)

LEMMA ClientUnchanged == ClientTypeOK /\ UNCHANGED clientVars => ClientTypeOK'
BY DEF ClientTypeOK, clientVars

LEMMA ConnectionUnchanged ==
    ConnectionTypeOK /\ UNCHANGED connectionVars => ConnectionTypeOK'
BY DEF ConnectionTypeOK, connectionVars

LEMMA ChannelUnchanged ==
    ChannelTypeOK /\ UNCHANGED channelVars => ChannelTypeOK'
BY DEF ChannelTypeOK, channelVars

LEMMA SequenceUnchanged ==
    SequenceTypeOK /\ UNCHANGED sequenceVars => SequenceTypeOK'
BY DEF SequenceTypeOK, sequenceVars

LEMMA PacketUnchanged == PacketTypeOK /\ UNCHANGED packetVars => PacketTypeOK'
BY DEF PacketTypeOK, packetVars

LEMMA CapabilityUnchanged ==
    CapabilityTypeOK /\ UNCHANGED capabilities => CapabilityTypeOK'
BY DEF CapabilityTypeOK

LEMMA BlocksUnchanged == BlocksTypeOK /\ UNCHANGED blocks => BlocksTypeOK'
BY DEF BlocksTypeOK

LEMMA EventUnchanged == EventTypeOK /\ UNCHANGED eventVars => EventTypeOK'
BY DEF EventTypeOK, eventVars

-----------------------------------------------------------------------------
(* Clients                                                                 *)

LEMMA RegisterClientType ==
    ASSUME ClientTypeOK, NEW c \in Chain, RegisterClient(c) PROVE ClientTypeOK'
BY DEF ClientTypeOK, RegisterClient, registerClient, setClientImpl

LEMMA SubmittedHeightType ==
    ASSUME BlocksTypeOK, NEW chain \in Chain
    PROVE  SubmittedHeights(chain) \subseteq Height
BY DEF BlocksTypeOK, SubmittedHeights, Height

LEMMA CreateClientType ==
    ASSUME ClientTypeOK, BlocksTypeOK, NEW c \in Chain, CreateClient(c)
    PROVE  ClientTypeOK'
<1>1. PICK type \in ClientType, chain \in Remotes[c] :
        \E height \in SubmittedHeights(chain) :
          createClient(c, type, chain, height)
  BY DEF CreateClient
<1>2. chain \in Chain
  BY ChainAssumption
<1>3. PICK height \in SubmittedHeights(chain) :
        createClient(c, type, chain, height)
  BY <1>1
<1>4. height \in Height
  BY <1>2, SubmittedHeightType
<1>5. PICK id \in ClientId :
        /\ generateClientIdentifier(c, id)
        /\ setClientType(c, id, type)
        /\ setClientState(c, id, [chain |-> chain, latest_height |-> height])
        /\ setConsensusState(c, id, height)
  BY <1>3 DEF createClient
<1>6. clientRegistry' = clientRegistry
  BY <1>3 DEF createClient
<1>7. [chain |-> chain, latest_height |-> height] \in ClientState
  BY <1>2, <1>4 DEF ClientState
<1>8. id + 1 \in 0 .. MaxClients
  BY NumberAssumption DEF ClientId
<1> QED
  BY <1>4, <1>5, <1>6, <1>7, <1>8
  DEF ClientTypeOK, generateClientIdentifier, setClientType, setClientState,
      setConsensusState

LEMMA UpdateClientType ==
    ASSUME ClientTypeOK, BlocksTypeOK, NEW c \in Chain, NEW id \in ClientId,
           UpdateClient(c, id)
    PROVE  ClientTypeOK'
<1>1. clientStates[c][id] \in ClientState
  BY DEF ClientTypeOK, UpdateClient, clientStateFound
<1>2. PICK height \in SubmittedHeights(clientStates[c][id].chain),
           trustedHeight \in consensusStates[c][id] :
        updateClient(c, id, height, trustedHeight)
  BY DEF UpdateClient
<1>3. height \in Height
  BY <1>1, SubmittedHeightType DEF ClientState
<1> DEFINE new == [clientStates[c][id] EXCEPT
                     !.latest_height = IF height > @ THEN height ELSE @]
<1>4. new \in ClientState
  BY <1>1, <1>3 DEF ClientState
<1>5. /\ UNCHANGED <<clientRegistry, clientTypes, nextClientSequence>>
      /\ clientStates' = [clientStates EXCEPT ![c][id] = new]
      /\ consensusStates' = [consensusStates EXCEPT ![c][id] = @ \cup {height}]
  BY <1>2 DEF updateClient, setClientState, setConsensusState
<1> HIDE DEF new
<1> QED
  BY <1>3, <1>4, <1>5 DEF ClientTypeOK

-----------------------------------------------------------------------------
(* Connections                                                             *)

LEMMA SetConnectionType ==
    ASSUME ConnectionTypeOK, NEW c \in Chain, NEW id \in ConnectionId,
           NEW connection \in ConnectionEnd, setConnection(c, id, connection)
    PROVE  connections' \in [Chain -> [ConnectionId -> ConnectionEnd]]
BY DEF ConnectionTypeOK, setConnection

LEMMA NewConnectionType ==
    ASSUME ConnectionTypeOK, NEW c \in Chain, NEW connection \in ConnectionEnd,
           \E id \in ConnectionId : /\ generateConnectionIdentifier(c, id)
                                   /\ setConnection(c, id, connection)
    PROVE  ConnectionTypeOK'
<1>1. PICK id \in ConnectionId : /\ generateConnectionIdentifier(c, id)
                                /\ setConnection(c, id, connection)
  OBVIOUS
<1>2. id + 1 \in 0 .. MaxConnections
  BY NumberAssumption DEF ConnectionId
<1>3. nextConnectionSequence' \in [Chain -> 0 .. MaxConnections]
  BY <1>1, <1>2 DEF ConnectionTypeOK, generateConnectionIdentifier
<1> QED
  BY <1>1, <1>3, SetConnectionType DEF ConnectionTypeOK

\* What Init and Try store is a connection end.
LEMMA ProposedConnectionType ==
    ASSUME NEW clientId \in ClientId, NEW counterpartyClient \in ClientId,
           NEW connectionId \in ConnectionId \cup {None}, NEW prefix \in Prefix,
           NEW delay \in DelayPeriod, NEW state \in State
    PROVE  [client_id |-> clientId, versions |-> getVersions, state |-> state,
            delay_period |-> delay,
            counterparty |-> [client_id |-> counterpartyClient,
                              connection_id |-> connectionId,
                              prefix |-> prefix]] \in ConnectionEnd
BY InputAssumption DEF ConnectionEnd, Counterparty, getVersions

LEMMA ConnectionOpenInitType ==
    ASSUME ConnectionTypeOK, NEW c \in Chain, ConnectionOpenInit(c)
    PROVE  ConnectionTypeOK'
<1>1. PICK clientId \in ClientId, counterpartyClient \in ClientId,
           delay \in DelayPeriod, connectionId \in InitCounterpartyConnection,
           prefix \in Prefix :
        connectionOpenInit(c, clientId,
          [client_id |-> counterpartyClient, connection_id |-> connectionId,
           prefix |-> prefix], delay)
  BY DEF ConnectionOpenInit
<1>2. connectionId \in ConnectionId \cup {None}
  BY ConnectionInputAssumption
<1>3. "INIT" \in State
  BY DEF State
<1> QED
  BY <1>1, <1>2, <1>3, ProposedConnectionType, NewConnectionType
  DEF connectionOpenInit

LEMMA ConnectionOpenTryType ==
    ASSUME ConnectionTypeOK, NEW c \in Chain, ConnectionOpenTry(c)
    PROVE  ConnectionTypeOK'
<1>1. PICK clientId \in ClientId, counterpartyClient \in ClientId,
           delay \in DelayPeriod, connectionId \in ConnectionId,
           prefix \in Prefix, chain \in Chain, version \in Version,
           proofHeight \in 1 .. MaxHeight :
        connectionOpenTry(c, clientId,
          [client_id |-> counterpartyClient, connection_id |-> connectionId,
           prefix |-> prefix], delay, chain, <<version>>, proofHeight)
  BY DEF ConnectionOpenTry
<1>2. "TRYOPEN" \in State
  BY DEF State
<1> QED
  BY <1>1, <1>2, ProposedConnectionType, NewConnectionType
  DEF connectionOpenTry

LEMMA ConfirmedConnectionType ==
    ASSUME NEW e \in ConnectionEnd PROVE [e EXCEPT !.state = "OPEN"] \in ConnectionEnd
BY DEF ConnectionEnd, State

LEMMA AcknowledgedConnectionType ==
    ASSUME NEW e \in ConnectionEnd, NEW version \in Version,
           NEW id \in ConnectionId
    PROVE  [e EXCEPT !.state = "OPEN", !.versions = makeVersionArray(version),
                     !.counterparty.connection_id = id] \in ConnectionEnd
<1>1. [e.counterparty EXCEPT !.connection_id = id] \in Counterparty
  BY DEF ConnectionEnd, Counterparty
<1> QED
  BY <1>1 DEF ConnectionEnd, State, makeVersionArray

LEMMA ConnectionOpenAckType ==
    ASSUME ConnectionTypeOK, NEW c \in Chain, ConnectionOpenAck(c)
    PROVE  ConnectionTypeOK'
<1>1. PICK id \in ConnectionId, connectionId \in ConnectionId, chain \in Chain,
           version \in Version, proofHeight \in 1 .. MaxHeight :
        connectionOpenAck(c, id, chain, version, connectionId, proofHeight)
  BY DEF ConnectionOpenAck
<1> DEFINE new == [connections[c][id] EXCEPT
                     !.state = "OPEN", !.versions = makeVersionArray(version),
                     !.counterparty.connection_id = connectionId]
<1>2. connections[c][id] \in ConnectionEnd
  BY DEF ConnectionTypeOK
<1>3. new \in ConnectionEnd
  BY <1>2, AcknowledgedConnectionType
<1>4. setConnection(c, id, new) /\ UNCHANGED nextConnectionSequence
  BY <1>1 DEF connectionOpenAck
<1> HIDE DEF new
<1> QED
  BY <1>3, <1>4, SetConnectionType DEF ConnectionTypeOK

LEMMA ConnectionOpenConfirmType ==
    ASSUME ConnectionTypeOK, NEW c \in Chain, ConnectionOpenConfirm(c)
    PROVE  ConnectionTypeOK'
<1>1. PICK id \in ConnectionId, proofHeight \in 1 .. MaxHeight :
        connectionOpenConfirm(c, id, proofHeight)
  BY DEF ConnectionOpenConfirm
<1> DEFINE new == [connections[c][id] EXCEPT !.state = "OPEN"]
<1>2. new \in ConnectionEnd
  BY ConfirmedConnectionType DEF ConnectionTypeOK
<1>3. setConnection(c, id, new) /\ UNCHANGED nextConnectionSequence
  BY <1>1 DEF connectionOpenConfirm
<1> HIDE DEF new
<1> QED
  BY <1>2, <1>3, SetConnectionType DEF ConnectionTypeOK

-----------------------------------------------------------------------------
(* Ports and channels                                                      *)

LEMMA ClaimCapabilityType ==
    ASSUME CapabilityTypeOK, NEW c \in Chain, NEW name \in CapabilityName,
           NEW module \in Module, claimCapability(c, name, module)
    PROVE  CapabilityTypeOK'
<1>1. capabilities[c][name] \in Seq(Module)
  BY DEF CapabilityTypeOK
<1>2. Append(capabilities[c][name], module) \in Seq(Module)
  BY <1>1
<1>3. capabilities' = [capabilities EXCEPT
                         ![c][name] = Append(capabilities[c][name], module)]
  BY DEF claimCapability
<1> QED
  BY <1>2, <1>3 DEF CapabilityTypeOK

LEMMA BindPortType ==
    ASSUME CapabilityTypeOK, NEW c \in Chain, BindPort(c)
    PROVE  CapabilityTypeOK'
<1>1. PICK portId \in Port, module \in Module : bindPort(c, portId, module)
  BY DEF BindPort
<1>2. <<portId>> \in CapabilityName
  BY DEF CapabilityName
<1> QED
  BY <1>1, <1>2, ClaimCapabilityType DEF bindPort

LEMMA ClaimChannelType ==
    ASSUME CapabilityTypeOK, NEW c \in Chain, NEW portId \in Port,
           NEW channelId \in ChannelId, claimChannel(c, portId, channelId)
    PROVE  CapabilityTypeOK'
<1>1. /\ <<portId>> \in CapabilityName
      /\ <<portId, channelId>> \in CapabilityName
  BY DEF CapabilityName, End
<1>2. /\ capabilities[c][<<portId>>] \in Seq(Module)
      /\ capabilities[c][<<portId>>] # <<>>
  BY <1>1 DEF CapabilityTypeOK, claimChannel, moduleOwnerFound
<1>3. getModuleOwner(c, <<portId>>) \in Module
  BY <1>2 DEF getModuleOwner
<1> QED
  BY <1>1, <1>3, ClaimCapabilityType DEF claimChannel

LEMMA NewSequencesType ==
    ASSUME SequenceTypeOK, NEW c \in Chain, NEW end \in End,
           initSequences(c, end)
    PROVE  SequenceTypeOK'
<1>1. 1 \in Sequence
  BY NumberAssumption DEF Sequence
<1> QED
  BY <1>1 DEF SequenceTypeOK, initSequences, setNextSequenceSend,
              setNextSequenceRecv, setNextSequenceAck

LEMMA SetChannelType ==
    ASSUME ChannelTypeOK, NEW c \in Chain, NEW end \in End,
           NEW channel \in ChannelEnd, setChannel(c, end, channel)
    PROVE  channels' \in [Chain -> [End -> ChannelEnd]]
BY DEF ChannelTypeOK, setChannel

\* What Init and Try store is a channel end over one connection.
LEMMA ProposedChannelType ==
    ASSUME NEW c \in Chain, NEW state \in State, NEW channel \in ChannelInput(state),
           openable(c, channel)
    PROVE  channel \in ChannelEnd
<1>1. channel.connection_hops \in Seq(Nat)
  BY InputAssumption DEF ChannelInput
<1>2. channel.connection_hops = <<channel.connection_hops[1]>>
  BY <1>1 DEF openable
<1>3. channel.connection_hops \in {<<k>> : k \in ConnectionId}
  BY <1>2 DEF openable
<1>4. channel.counterparty \in ChannelCounterparty
  BY ChannelInputAssumption DEF ChannelInput, ChannelCounterparty
<1> QED
  BY <1>3, <1>4, InputAssumption DEF ChannelInput, ChannelEnd

LEMMA NewChannelType ==
    ASSUME ChannelTypeOK, NEW c \in Chain, NEW portId \in Port,
           NEW channelId \in ChannelId, NEW channel \in ChannelEnd,
           generateChannelIdentifier(c, channelId),
           setChannel(c, <<portId, channelId>>, channel)
    PROVE  ChannelTypeOK'
<1>1. <<portId, channelId>> \in End
  BY DEF End
<1>2. channelId + 1 \in 0 .. MaxChannels
  BY NumberAssumption DEF ChannelId
<1>3. nextChannelSequence' \in [Chain -> 0 .. MaxChannels]
  BY <1>2 DEF ChannelTypeOK, generateChannelIdentifier
<1> QED
  BY <1>1, <1>3, SetChannelType DEF ChannelTypeOK

LEMMA ChannelOpenInitType ==
    ASSUME ChannelTypeOK, SequenceTypeOK, CapabilityTypeOK,
           NEW c \in Chain, ChannelOpenInit(c)
    PROVE  ChannelTypeOK' /\ SequenceTypeOK' /\ CapabilityTypeOK'
<1>1. PICK portId \in Port, channelId \in ChannelId :
        /\ \E channel \in ChannelInput("INIT") :
             channelOpenInit(c, portId, channelId, channel)
        /\ claimChannel(c, portId, channelId)
  BY DEF ChannelOpenInit
<1>2. PICK channel \in ChannelInput("INIT") :
        channelOpenInit(c, portId, channelId, channel)
  BY <1>1
<1>3. channel \in ChannelEnd
  BY <1>2, ProposedChannelType DEF channelOpenInit, State
<1>4. ChannelTypeOK'
  BY <1>2, <1>3, NewChannelType DEF channelOpenInit
<1>5. SequenceTypeOK'
  BY <1>2, NewSequencesType DEF channelOpenInit, End
<1>6. CapabilityTypeOK'
  BY <1>1, ClaimChannelType
<1> QED
  BY <1>4, <1>5, <1>6

LEMMA ChannelOpenTryType ==
    ASSUME ChannelTypeOK, SequenceTypeOK, CapabilityTypeOK,
           NEW c \in Chain, ChannelOpenTry(c)
    PROVE  ChannelTypeOK' /\ SequenceTypeOK' /\ CapabilityTypeOK'
<1>1. PICK portId \in Port, channelId \in ChannelId :
        /\ \E channel \in ChannelInput("TRYOPEN"), version \in ChannelVersion,
              proofHeight \in 1 .. MaxHeight :
             channelOpenTry(c, portId, channelId, channel, version, proofHeight)
        /\ claimChannel(c, portId, channelId)
  BY DEF ChannelOpenTry
<1>2. PICK channel \in ChannelInput("TRYOPEN"), version \in ChannelVersion,
           proofHeight \in 1 .. MaxHeight :
        channelOpenTry(c, portId, channelId, channel, version, proofHeight)
  BY <1>1
<1>3. channel \in ChannelEnd
  BY <1>2, ProposedChannelType DEF channelOpenTry, State
<1>4. ChannelTypeOK'
  BY <1>2, <1>3, NewChannelType DEF channelOpenTry
<1>5. SequenceTypeOK'
  BY <1>2, NewSequencesType DEF channelOpenTry, End
<1>6. CapabilityTypeOK'
  BY <1>1, ClaimChannelType
<1> QED
  BY <1>4, <1>5, <1>6

LEMMA ConfirmedChannelType ==
    ASSUME NEW e \in ChannelEnd PROVE [e EXCEPT !.state = "OPEN"] \in ChannelEnd
BY DEF ChannelEnd, State

LEMMA AcknowledgedChannelType ==
    ASSUME NEW e \in ChannelEnd, NEW version \in ChannelVersion,
           NEW id \in ChannelId
    PROVE  [e EXCEPT !.state = "OPEN", !.version = version,
                     !.counterparty.channel_id = id] \in ChannelEnd
<1>1. [e.counterparty EXCEPT !.channel_id = id] \in ChannelCounterparty
  BY DEF ChannelEnd, ChannelCounterparty
<1> QED
  BY <1>1 DEF ChannelEnd, State

LEMMA ChannelOpenAckType ==
    ASSUME ChannelTypeOK, NEW c \in Chain, ChannelOpenAck(c)
    PROVE  ChannelTypeOK'
<1>1. PICK portId \in Port, channelId \in ChannelId,
           counterpartyChannelId \in ChannelId, version \in ChannelVersion,
           proofHeight \in 1 .. MaxHeight :
        channelOpenAck(c, portId, channelId, version, counterpartyChannelId,
                       proofHeight)
  BY DEF ChannelOpenAck
<1> DEFINE end == <<portId, channelId>>
           new == [channels[c][end] EXCEPT
                     !.state = "OPEN", !.version = version,
                     !.counterparty.channel_id = counterpartyChannelId]
<1>2. end \in End
  BY DEF End
<1>3. channels[c][end] \in ChannelEnd
  BY <1>2 DEF ChannelTypeOK
<1>4. new \in ChannelEnd
  BY <1>3, AcknowledgedChannelType
<1>5. setChannel(c, end, new) /\ UNCHANGED nextChannelSequence
  BY <1>1 DEF channelOpenAck
<1> HIDE DEF end, new
<1> QED
  BY <1>2, <1>4, <1>5, SetChannelType DEF ChannelTypeOK

LEMMA ChannelOpenConfirmType ==
    ASSUME ChannelTypeOK, NEW c \in Chain, ChannelOpenConfirm(c)
    PROVE  ChannelTypeOK'
<1>1. PICK portId \in Port, channelId \in ChannelId,
           proofHeight \in 1 .. MaxHeight :
        channelOpenConfirm(c, portId, channelId, proofHeight)
  BY DEF ChannelOpenConfirm
<1> DEFINE end == <<portId, channelId>>
           new == [channels[c][end] EXCEPT !.state = "OPEN"]
<1>2. end \in End
  BY DEF End
<1>3. new \in ChannelEnd
  BY <1>2, ConfirmedChannelType DEF ChannelTypeOK
<1>4. setChannel(c, end, new) /\ UNCHANGED nextChannelSequence
  BY <1>1 DEF channelOpenConfirm
<1> HIDE DEF end, new
<1> QED
  BY <1>2, <1>3, <1>4, SetChannelType DEF ChannelTypeOK

-----------------------------------------------------------------------------
(* Packets                                                                 *)

\* The sequence after the largest uint64 is 0, so it is a sequence again.
LEMMA IncrementType == ASSUME NEW n \in Sequence PROVE Increment(n) \in Sequence
BY NumberAssumption DEF Increment, Sequence

LEMMA PacketFieldTypes ==
    ASSUME NEW packet \in Packet
    PROVE  /\ packet.sequence \in Sequence
           /\ source(packet) \in End
           /\ destination(packet) \in End
           /\ makePacketCommitment(packet) \in PacketCommitment
BY DEF Packet, source, destination, End, makePacketCommitment, PacketCommitment

LEMMA EmitType ==
    ASSUME NEW S, NEW events \in [Chain -> [End -> Seq(S)]], NEW c \in Chain,
           NEW end \in End, NEW event \in S
    PROVE  emit(events, c, end, event) \in [Chain -> [End -> Seq(S)]]
<1>1. Append(events[c][end], event) \in Seq(S)
  OBVIOUS
<1>2. emit(events, c, end, event) =
        [events EXCEPT ![c][end] = Append(events[c][end], event)]
  BY DEF emit
<1> QED
  BY <1>1, <1>2

LEMMA SendPacketType ==
    ASSUME SequenceTypeOK, PacketTypeOK, EventTypeOK, NEW c \in Chain,
           SendPacket(c)
    PROVE  SequenceTypeOK' /\ PacketTypeOK' /\ EventTypeOK'
<1>1. PICK packet \in [sequence : Sequence \ {0}, source_port : Port,
                       source_channel : ChannelId, destination_port : Port,
                       destination_channel : ChannelId, data : Payload[c],
                       timeout_height : TimeoutHeight,
                       timeout_timestamp : TimeoutTimestamp] :
        /\ sendPacket(c, packet)
        /\ sendEvents' = emit(sendEvents, c, source(packet), packet)
        /\ UNCHANGED <<recvEvents, ackEvents>>
  BY DEF SendPacket
<1>2. packet \in Packet
  BY ApplicationAssumption DEF Packet
<1>3. SequenceTypeOK'
  BY <1>1, <1>2, PacketFieldTypes, IncrementType
  DEF SequenceTypeOK, sendPacket, setNextSequenceSend
<1>4. PacketTypeOK'
  BY <1>1, <1>2, PacketFieldTypes
  DEF PacketTypeOK, sendPacket, setPacketCommitment
<1>5. EventTypeOK'
  BY <1>1, <1>2, PacketFieldTypes, EmitType DEF EventTypeOK
<1> QED
  BY <1>3, <1>4, <1>5

LEMMA WrittenAcknowledgementType ==
    ASSUME PacketTypeOK, NEW c \in Chain, NEW end \in End,
           NEW sequence \in Sequence, NEW acknowledgement \in Acknowledgement,
           writeAcknowledgement(c, end, sequence, acknowledgement)
    PROVE  packetAcks' \in
             [Chain -> [End -> [Sequence -> Acknowledgement \cup {None}]]]
BY DEF PacketTypeOK, writeAcknowledgement, setPacketAcknowledgementCommitment

LEMMA ReceiptType ==
    ASSUME nextSequenceRecvs \in [Chain -> [End -> Sequence]],
           packetReceipts \in [Chain -> [End -> SUBSET Sequence]],
           NEW c \in Chain, NEW end \in End, NEW sequence \in Sequence,
           receiveUnordered(c, end, sequence) \/ receiveOrdered(c, end, sequence)
    PROVE  /\ nextSequenceRecvs' \in [Chain -> [End -> Sequence]]
           /\ packetReceipts' \in [Chain -> [End -> SUBSET Sequence]]
<1>1. CASE receiveUnordered(c, end, sequence)
  BY <1>1 DEF receiveUnordered, setPacketReceipt
<1>2. CASE receiveOrdered(c, end, sequence)
  BY <1>2, IncrementType DEF receiveOrdered, setNextSequenceRecv
<1> QED
  BY <1>1, <1>2

LEMMA RecvPacketType ==
    ASSUME SequenceTypeOK, PacketTypeOK, EventTypeOK, NEW c \in Chain,
           NEW packet \in Packet, RecvPacket(c, packet)
    PROVE  SequenceTypeOK' /\ PacketTypeOK' /\ EventTypeOK'
<1>1. PICK proofHeight \in 1 .. MaxHeight : recvPacket(c, packet, proofHeight)
  BY DEF RecvPacket
<1>2. PICK acknowledgement \in Returned :
        IF acknowledgement = None
        THEN UNCHANGED packetAcks
        ELSE writeAcknowledgement(c, destination(packet), packet.sequence,
                                  acknowledgement)
  BY DEF RecvPacket
<1> DEFINE end == destination(packet)
           sequence == packet.sequence
<1>3. end \in End /\ sequence \in Sequence
  BY PacketFieldTypes
<1>4. \/ receiveUnordered(c, end, sequence)
      \/ receiveOrdered(c, end, sequence)
  BY <1>1 DEF recvPacket
<1>5. UNCHANGED <<nextSequenceSends, nextSequenceAcks, packetCommitments>>
  BY <1>1 DEF recvPacket
<1>6. SequenceTypeOK'
  BY <1>3, <1>4, <1>5, ReceiptType DEF SequenceTypeOK, PacketTypeOK
<1>7. packetReceipts' \in [Chain -> [End -> SUBSET Sequence]]
  BY <1>3, <1>4, ReceiptType DEF SequenceTypeOK, PacketTypeOK
<1>8. packetAcks' \in
        [Chain -> [End -> [Sequence -> Acknowledgement \cup {None}]]]
  <2>1. CASE acknowledgement = None
    BY <1>2, <2>1 DEF PacketTypeOK
  <2>2. CASE acknowledgement # None
    BY <1>2, <1>3, <2>2, ApplicationAssumption, WrittenAcknowledgementType
  <2> QED
    BY <2>1, <2>2
<1>9. EventTypeOK'
  <2>1. /\ recvEvents' = emit(recvEvents, c, end, packet)
        /\ UNCHANGED <<sendEvents, ackEvents>>
    BY DEF RecvPacket
  <2> QED
    BY <1>3, <2>1, EmitType DEF EventTypeOK
<1> QED
  BY <1>5, <1>6, <1>7, <1>8, <1>9 DEF PacketTypeOK

LEMMA WriteAcknowledgementType ==
    ASSUME PacketTypeOK, EventTypeOK, NEW c \in Chain, WriteAcknowledgement(c)
    PROVE  PacketTypeOK'
<1>1. PICK end \in End : \E i \in DOMAIN recvEvents[c][end],
                            acknowledgement \in Acknowledgement :
        /\ writeAcknowledgement(c, end, recvEvents[c][end][i].sequence,
                                acknowledgement)
        /\ UNCHANGED <<packetReceipts, packetCommitments>>
  BY DEF WriteAcknowledgement
<1>2. PICK i \in DOMAIN recvEvents[c][end],
           acknowledgement \in Acknowledgement :
        /\ writeAcknowledgement(c, end, recvEvents[c][end][i].sequence,
                                acknowledgement)
        /\ UNCHANGED <<packetReceipts, packetCommitments>>
  BY <1>1
<1>3. recvEvents[c][end][i].sequence \in Sequence
  <2>1. recvEvents[c][end] \in Seq(Packet)
    BY DEF EventTypeOK
  <2>2. recvEvents[c][end][i] \in Packet
    BY <2>1
  <2> QED
    BY <2>2 DEF Packet
<1> QED
  BY <1>2, <1>3, WrittenAcknowledgementType DEF PacketTypeOK

LEMMA SetNextSequenceAckType ==
    ASSUME SequenceTypeOK, NEW c \in Chain, NEW end \in End,
           NEW n \in Sequence, setNextSequenceAck(c, end, n)
    PROVE  nextSequenceAcks' \in [Chain -> [End -> Sequence]]
BY DEF SequenceTypeOK, setNextSequenceAck

LEMMA AcknowledgePacketType ==
    ASSUME SequenceTypeOK, PacketTypeOK, EventTypeOK, NEW c \in Chain,
           NEW packet \in Packet, AcknowledgePacket(c, packet)
    PROVE  SequenceTypeOK' /\ PacketTypeOK' /\ EventTypeOK'
<1>1. PICK acknowledgement \in Acknowledgement, proofHeight \in 1 .. MaxHeight :
        /\ acknowledgePacket(c, packet, acknowledgement, proofHeight)
        /\ ackEvents' = emit(ackEvents, c, source(packet),
                             [packet |-> packet, ack |-> acknowledgement])
  BY DEF AcknowledgePacket
<1>2. SequenceTypeOK'
  <2>1. UNCHANGED <<nextSequenceSends, nextSequenceRecvs>>
    BY <1>1 DEF acknowledgePacket
  <2>2. \/ UNCHANGED nextSequenceAcks
        \/ setNextSequenceAck(c, source(packet), Increment(packet.sequence))
    BY <1>1 DEF acknowledgePacket
  <2>3. /\ source(packet) \in End
        /\ Increment(packet.sequence) \in Sequence
    BY PacketFieldTypes, IncrementType
  <2>4. nextSequenceAcks' \in [Chain -> [End -> Sequence]]
    BY <2>2, <2>3, SetNextSequenceAckType DEF SequenceTypeOK
  <2> QED
    BY <2>1, <2>4 DEF SequenceTypeOK
<1>3. PacketTypeOK'
  <2>1. /\ deletePacketCommitment(c, source(packet), packet.sequence)
        /\ UNCHANGED <<packetReceipts, packetAcks>>
    BY <1>1 DEF acknowledgePacket
  <2> QED
    BY <2>1, PacketFieldTypes DEF PacketTypeOK, deletePacketCommitment
<1>4. EventTypeOK'
  <2>1. UNCHANGED <<sendEvents, recvEvents>>
    BY DEF AcknowledgePacket
  <2> QED
    BY <1>1, <2>1, PacketFieldTypes, EmitType DEF EventTypeOK
<1> QED
  BY <1>2, <1>3, <1>4

-----------------------------------------------------------------------------
(* Blocks                                                                  *)

LEMMA StoreTyped ==
    ASSUME HostTypeOK, NEW c \in Chain PROVE Store(c) \in StoreType
BY DEF HostTypeOK, ClientTypeOK, ConnectionTypeOK, ChannelTypeOK, PacketTypeOK,
       Store, StoreType, ClientState

LEMMA SealBlockType ==
    ASSUME HostTypeOK, NEW c \in Chain, SealBlock(c) PROVE BlocksTypeOK'
<1>1. blocks[c] \in Seq(StoreType)
  BY DEF HostTypeOK, BlocksTypeOK
<1>2. /\ Append(blocks[c], Store(c)) \in Seq(StoreType)
      /\ Len(Append(blocks[c], Store(c))) >= 1
  BY <1>1, StoreTyped
<1>3. blocks' = [blocks EXCEPT ![c] = Append(blocks[c], Store(c))]
  BY DEF SealBlock
<1> QED
  BY <1>2, <1>3 DEF HostTypeOK, BlocksTypeOK

-----------------------------------------------------------------------------
(* The specification                                                       *)

LEMMA InitType == Init => TypeOK
<1> SUFFICES ASSUME Init PROVE TypeOK
  OBVIOUS
<1>1. ClientTypeOK
  BY NumberAssumption DEF Init, HostInit, ClientTypeOK
<1>2. ConnectionTypeOK
  BY NumberAssumption
  DEF Init, HostInit, ConnectionTypeOK, NoConnection, ConnectionEnd, State,
      Counterparty
<1>3. ChannelTypeOK
  BY NumberAssumption
  DEF Init, HostInit, ChannelTypeOK, NoChannel, ChannelEnd, State,
      ChannelCounterparty
<1>4. SequenceTypeOK
  BY NumberAssumption DEF Init, HostInit, SequenceTypeOK, Sequence
<1>5. PacketTypeOK
  BY DEF Init, HostInit, PacketTypeOK
<1>6. CapabilityTypeOK
  BY DEF Init, HostInit, CapabilityTypeOK
<1>7. BlocksTypeOK
  <2>1. \A c \in Chain : Store(c) \in StoreType
    BY <1>1, <1>2, <1>3, <1>5
    DEF ClientTypeOK, ConnectionTypeOK, ChannelTypeOK, PacketTypeOK, Store,
        StoreType, ClientState
  <2> QED
    BY <2>1 DEF Init, HostInit, BlocksTypeOK
<1>8. EventTypeOK
  BY DEF Init, EventTypeOK
<1> QED
  BY <1>1, <1>2, <1>3, <1>4, <1>5, <1>6, <1>7, <1>8 DEF TypeOK, HostTypeOK

\* What each group of actions leaves alone.
LEMMA ConnectionFrame ==
    ASSUME NEW c \in Chain, ConnectionNext(c)
    PROVE  UNCHANGED <<clientVars, channelVars, sequenceVars, packetVars, blocks,
                       capabilities, eventVars>>
<1>1. CASE ConnectionOpenInit(c)
  BY <1>1 DEF ConnectionNext, ConnectionOpenInit, connectionOpenInit
<1>2. CASE ConnectionOpenTry(c)
  BY <1>2 DEF ConnectionNext, ConnectionOpenTry, connectionOpenTry
<1>3. CASE ConnectionOpenAck(c)
  BY <1>3 DEF ConnectionNext, ConnectionOpenAck, connectionOpenAck
<1>4. CASE ConnectionOpenConfirm(c)
  BY <1>4 DEF ConnectionNext, ConnectionOpenConfirm, connectionOpenConfirm
<1> QED
  BY <1>1, <1>2, <1>3, <1>4 DEF ConnectionNext

LEMMA ChannelFrame ==
    ASSUME NEW c \in Chain, ChannelNext(c)
    PROVE  UNCHANGED <<clientVars, connectionVars, packetVars, blocks, eventVars>>
<1>1. UNCHANGED eventVars
  BY DEF ChannelNext
<1>2. CASE BindPort(c)
  BY <1>1, <1>2 DEF BindPort, bindPort
<1>3. CASE ChannelOpenInit(c)
  BY <1>1, <1>3 DEF ChannelOpenInit, channelOpenInit
<1>4. CASE ChannelOpenTry(c)
  BY <1>1, <1>4 DEF ChannelOpenTry, channelOpenTry
<1>5. CASE ChannelOpenAck(c)
  BY <1>1, <1>5 DEF ChannelOpenAck, channelOpenAck
<1>6. CASE ChannelOpenConfirm(c)
  BY <1>1, <1>6 DEF ChannelOpenConfirm, channelOpenConfirm
<1> QED
  BY <1>2, <1>3, <1>4, <1>5, <1>6 DEF ChannelNext

LEMMA PacketFrame ==
    ASSUME NEW c \in Chain, PacketNext(c)
    PROVE  UNCHANGED <<clientVars, connectionVars, channelVars, capabilities,
                       blocks>>
<1>1. CASE SendPacket(c)
  BY <1>1 DEF SendPacket, sendPacket
<1>2. CASE \E packet \in Packet : RecvPacket(c, packet)
  BY <1>2 DEF RecvPacket, recvPacket
<1>3. CASE WriteAcknowledgement(c)
  BY <1>3 DEF WriteAcknowledgement
<1>4. CASE \E packet \in Packet : AcknowledgePacket(c, packet)
  BY <1>4 DEF AcknowledgePacket, acknowledgePacket
<1> QED
  BY <1>1, <1>2, <1>3, <1>4 DEF PacketNext

LEMMA ClientStepType ==
    ASSUME TypeOK, NEW c \in Chain, ClientNext(c) PROVE TypeOK'
<1>1. UNCHANGED <<connectionVars, channelVars, sequenceVars, packetVars, blocks,
                  capabilities, eventVars>>
  BY DEF ClientNext, RegisterClient, registerClient, CreateClient, createClient,
         UpdateClient, updateClient
<1>2. ClientTypeOK'
  BY RegisterClientType, CreateClientType, UpdateClientType
  DEF ClientNext, TypeOK, HostTypeOK
<1> QED
  BY <1>1, <1>2, ConnectionUnchanged, ChannelUnchanged, SequenceUnchanged,
     PacketUnchanged, CapabilityUnchanged, BlocksUnchanged, EventUnchanged
  DEF TypeOK, HostTypeOK

LEMMA ConnectionStepType ==
    ASSUME TypeOK, NEW c \in Chain, ConnectionNext(c) PROVE TypeOK'
<1>1. UNCHANGED <<clientVars, channelVars, sequenceVars, packetVars, blocks,
                  capabilities, eventVars>>
  BY ConnectionFrame
<1>2. ConnectionTypeOK'
  BY ConnectionOpenInitType, ConnectionOpenTryType, ConnectionOpenAckType,
     ConnectionOpenConfirmType
  DEF ConnectionNext, TypeOK, HostTypeOK
<1> QED
  BY <1>1, <1>2, ClientUnchanged, ChannelUnchanged, SequenceUnchanged,
     PacketUnchanged, CapabilityUnchanged, BlocksUnchanged, EventUnchanged
  DEF TypeOK, HostTypeOK

LEMMA ChannelStepType ==
    ASSUME TypeOK, NEW c \in Chain, ChannelNext(c) PROVE TypeOK'
<1>1. UNCHANGED <<clientVars, connectionVars, packetVars, blocks, eventVars>>
  BY ChannelFrame
<1>2. ChannelTypeOK' /\ SequenceTypeOK' /\ CapabilityTypeOK'
  <2> USE DEF TypeOK, HostTypeOK
  <2>1. CASE BindPort(c)
    <3>1. UNCHANGED <<channelVars, sequenceVars>>
      BY <2>1 DEF BindPort, bindPort
    <3> QED
      BY <2>1, <3>1, BindPortType, ChannelUnchanged, SequenceUnchanged
  <2>2. CASE ChannelOpenInit(c)
    BY <2>2, ChannelOpenInitType
  <2>3. CASE ChannelOpenTry(c)
    BY <2>3, ChannelOpenTryType
  <2>4. CASE ChannelOpenAck(c)
    <3>1. UNCHANGED <<sequenceVars, capabilities>>
      BY <2>4 DEF ChannelOpenAck, channelOpenAck
    <3> QED
      BY <2>4, <3>1, ChannelOpenAckType, SequenceUnchanged, CapabilityUnchanged
  <2>5. CASE ChannelOpenConfirm(c)
    <3>1. UNCHANGED <<sequenceVars, capabilities>>
      BY <2>5 DEF ChannelOpenConfirm, channelOpenConfirm
    <3> QED
      BY <2>5, <3>1, ChannelOpenConfirmType, SequenceUnchanged,
         CapabilityUnchanged
  <2> QED
    BY <2>1, <2>2, <2>3, <2>4, <2>5 DEF ChannelNext
<1> QED
  BY <1>1, <1>2, ClientUnchanged, ConnectionUnchanged, PacketUnchanged,
     BlocksUnchanged, EventUnchanged
  DEF TypeOK, HostTypeOK

LEMMA PacketStepType ==
    ASSUME TypeOK, NEW c \in Chain, PacketNext(c) PROVE TypeOK'
<1>1. UNCHANGED <<clientVars, connectionVars, channelVars, capabilities, blocks>>
  BY PacketFrame
<1>2. SequenceTypeOK' /\ PacketTypeOK' /\ EventTypeOK'
  <2> USE DEF TypeOK, HostTypeOK
  <2>1. CASE SendPacket(c)
    BY <2>1, SendPacketType
  <2>2. CASE \E packet \in Packet : RecvPacket(c, packet)
    BY <2>2, RecvPacketType
  <2>3. CASE WriteAcknowledgement(c)
    <3>1. UNCHANGED <<sequenceVars, eventVars>>
      BY <2>3 DEF WriteAcknowledgement
    <3> QED
      BY <2>3, <3>1, WriteAcknowledgementType, SequenceUnchanged, EventUnchanged
  <2>4. CASE \E packet \in Packet : AcknowledgePacket(c, packet)
    BY <2>4, AcknowledgePacketType
  <2> QED
    BY <2>1, <2>2, <2>3, <2>4 DEF PacketNext
<1> QED
  BY <1>1, <1>2, ClientUnchanged, ConnectionUnchanged, ChannelUnchanged,
     CapabilityUnchanged, BlocksUnchanged
  DEF TypeOK, HostTypeOK

LEMMA SealStepType ==
    ASSUME TypeOK, NEW c \in Chain, SealBlock(c), UNCHANGED eventVars
    PROVE  TypeOK'
<1>1. UNCHANGED <<clientVars, connectionVars, channelVars, sequenceVars,
                  packetVars, capabilities>>
  BY DEF SealBlock
<1> QED
  BY <1>1, SealBlockType, ClientUnchanged, ConnectionUnchanged,
     ChannelUnchanged, SequenceUnchanged, PacketUnchanged, CapabilityUnchanged,
     EventUnchanged
  DEF TypeOK, HostTypeOK

LEMMA StutterType == TypeOK /\ UNCHANGED vars => TypeOK'
BY ClientUnchanged, ConnectionUnchanged, ChannelUnchanged, SequenceUnchanged,
   PacketUnchanged, CapabilityUnchanged, BlocksUnchanged, EventUnchanged
DEF TypeOK, HostTypeOK, vars, hostVars

LEMMA TypeStep == TypeOK /\ [Next]_vars => TypeOK'
BY ClientStepType, ConnectionStepType, ChannelStepType, PacketStepType,
   SealStepType, StutterType
DEF Next

\* Every variable of the host keeps the type its accessors declare, whatever
\* messages IBCHandler is called with: in particular identifiers stay below
\* their counters and sequences within uint64.
THEOREM TypeCorrect == Spec => []TypeOK
<1>1. Init => TypeOK
  BY InitType
<1>2. TypeOK /\ [Next]_vars => TypeOK'
  BY TypeStep
<1> QED
  BY <1>1, <1>2, PTL DEF Spec
=============================================================================
