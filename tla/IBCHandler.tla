----------------------------- MODULE IBCHandler ------------------------------
(***************************************************************************)
(* contracts/core/IBCHandler.sol: the contract users, relayers and         *)
(* applications call.  It routes each message to the library that handles  *)
(* it, calls the application that owns the port or the channel, and emits  *)
(* the packet events.  An operation is one transaction: the application's  *)
(* callback, the checks and the writes succeed together or not at all.     *)
(***************************************************************************)
EXTENDS IBCChannel, SequencesExt

CONSTANTS
    Payload,      \* Payload[c]: what applications on c send
    Returned      \* what onRecvPacket may return; None is an empty answer

ASSUME ApplicationAssumption ==
    /\ Payload \in [Chain -> SUBSET Data]
    /\ Returned \subseteq Acknowledgement \cup {None}

VARIABLES
    sendEvents, recvEvents,   \* per end, the packets of SendPacket, RecvPacket
    ackEvents                 \* per end, those of AcknowledgePacket

eventVars == <<sendEvents, recvEvents, ackEvents>>
vars == <<hostVars, eventVars>>

emit(events, c, end, event) ==
    [events EXCEPT ![c][end] = Append(@, event)]

-----------------------------------------------------------------------------
(* Client and connection messages are passed on.                           *)

RegisterClient(c) ==
    \E type \in ClientType : registerClient(c, type)

CreateClient(c) ==
    \E type \in ClientType, chain \in Remotes[c] :
      \E height \in SubmittedHeights(chain) :
        createClient(c, type, chain, height)

UpdateClient(c, id) ==
    /\ clientStateFound(c, id)
    /\ \E height \in SubmittedHeights(clientStates[c][id].chain),
          trustedHeight \in consensusStates[c][id] :
         updateClient(c, id, height, trustedHeight)

ConnectionOpenInit(c) ==
    \E clientId, counterpartyClient \in ClientId, delay \in DelayPeriod,
       connectionId \in InitCounterpartyConnection, prefix \in Prefix :
      connectionOpenInit(c, clientId,
         [client_id |-> counterpartyClient, connection_id |-> connectionId,
          prefix |-> prefix], delay)

ConnectionOpenTry(c) ==
    \E clientId, counterpartyClient \in ClientId, delay \in DelayPeriod,
       connectionId \in ConnectionId, prefix \in Prefix, chain \in Chain,
       version \in Version, proofHeight \in 1 .. MaxHeight :
      connectionOpenTry(c, clientId,
         [client_id |-> counterpartyClient, connection_id |-> connectionId,
          prefix |-> prefix], delay, chain, <<version>>, proofHeight)

ConnectionOpenAck(c) ==
    \E id, connectionId \in ConnectionId, chain \in Chain, version \in Version,
       proofHeight \in 1 .. MaxHeight :
      connectionOpenAck(c, id, chain, version, connectionId, proofHeight)

ConnectionOpenConfirm(c) ==
    \E id \in ConnectionId, proofHeight \in 1 .. MaxHeight :
      connectionOpenConfirm(c, id, proofHeight)

-----------------------------------------------------------------------------
(* Ports and channels.  The application first bound to a port owns the     *)
(* channels opened on it.                                                  *)

bindPort(c, portId, module) ==
    /\ claimCapability(c, <<portId>>, module)
    /\ UNCHANGED <<clientVars, connectionVars, channelVars, sequenceVars,
                   packetVars, blocks>>

\* Reached only when the transaction succeeded so far: the port must be bound.
claimChannel(c, portId, channelId) ==
    /\ moduleOwnerFound(c, <<portId>>)
    /\ claimCapability(c, <<portId, channelId>>, getModuleOwner(c, <<portId>>))

\* The channel a message proposes; a state other than these two is refused.
ChannelInput(state) ==
    [state : {state},
     ordering : Ordering,
     counterparty : [port_id : Port,
                     channel_id : IF state = "INIT" THEN InitCounterpartyChannel
                                                       ELSE ChannelId],
     connection_hops : ConnectionHops,
     version : ChannelVersion]

BindPort(c) ==
    \E portId \in Port, module \in Module : bindPort(c, portId, module)

ChannelOpenInit(c) ==
    \E portId \in Port, channelId \in ChannelId :
      /\ \E channel \in ChannelInput("INIT") :
           channelOpenInit(c, portId, channelId, channel)
      /\ claimChannel(c, portId, channelId)

ChannelOpenTry(c) ==
    \E portId \in Port, channelId \in ChannelId :
      /\ \E channel \in ChannelInput("TRYOPEN"), version \in ChannelVersion,
            proofHeight \in 1 .. MaxHeight :
           channelOpenTry(c, portId, channelId, channel, version, proofHeight)
      /\ claimChannel(c, portId, channelId)

ChannelOpenAck(c) ==
    \E portId \in Port, channelId, counterpartyChannelId \in ChannelId,
       version \in ChannelVersion, proofHeight \in 1 .. MaxHeight :
      /\ channelOpenAck(c, portId, channelId, version, counterpartyChannelId,
                        proofHeight)
      /\ moduleOwnerFound(c, <<portId>>)
      /\ UNCHANGED capabilities

ChannelOpenConfirm(c) ==
    \E portId \in Port, channelId \in ChannelId, proofHeight \in 1 .. MaxHeight :
      /\ channelOpenConfirm(c, portId, channelId, proofHeight)
      /\ moduleOwnerFound(c, <<portId>>)
      /\ UNCHANGED capabilities

-----------------------------------------------------------------------------
(* Packets                                                                 *)

\* An application that holds the channel sends; the packet's addresses are
\* those its caller wrote.
SendPacket(c) ==
    \E packet \in [sequence : Sequence \ {0}, source_port : Port,
                   source_channel : ChannelId, destination_port : Port,
                   destination_channel : ChannelId, data : Payload[c],
                   timeout_height : TimeoutHeight,
                   timeout_timestamp : TimeoutTimestamp] :
      /\ \E module \in Module :
           authenticateCapability(c, source(packet), module)
      /\ sendPacket(c, packet)
      /\ sendEvents' = emit(sendEvents, c, source(packet), packet)
      /\ UNCHANGED <<capabilities, recvEvents, ackEvents>>

\* One transaction: the callback's answer, the checks and the receipt, and the
\* acknowledgement if the answer is not empty.
RecvPacket(c, packet) ==
    /\ moduleOwnerFound(c, destination(packet))
    /\ \E proofHeight \in 1 .. MaxHeight : recvPacket(c, packet, proofHeight)
    /\ \E acknowledgement \in Returned :
         IF acknowledgement = None
         THEN UNCHANGED packetAcks
         ELSE writeAcknowledgement(c, destination(packet), packet.sequence,
                                   acknowledgement)
    /\ recvEvents' = emit(recvEvents, c, destination(packet), packet)
    /\ UNCHANGED <<capabilities, sendEvents, ackEvents>>

\* An application that answered with nothing acknowledges later.  The handler
\* does not check that the packet was received: the application does.
WriteAcknowledgement(c) ==
    \E end \in End :
      \E i \in DOMAIN recvEvents[c][end], acknowledgement \in Acknowledgement :
        /\ \E module \in Module : authenticateCapability(c, end, module)
        /\ writeAcknowledgement(c, end, recvEvents[c][end][i].sequence,
                                acknowledgement)
        /\ UNCHANGED <<clientVars, connectionVars, channelVars, sequenceVars,
                       packetReceipts, packetCommitments, capabilities, blocks,
                       eventVars>>

AcknowledgePacket(c, packet) ==
    /\ moduleOwnerFound(c, source(packet))
    /\ \E acknowledgement \in Acknowledgement, proofHeight \in 1 .. MaxHeight :
         /\ acknowledgePacket(c, packet, acknowledgement, proofHeight)
         /\ ackEvents' = emit(ackEvents, c, source(packet),
                              [packet |-> packet, ack |-> acknowledgement])
    /\ UNCHANGED <<capabilities, sendEvents, recvEvents>>

-----------------------------------------------------------------------------
Init == /\ HostInit
        /\ sendEvents = [c \in Chain |-> [end \in End |-> <<>>]]
        /\ recvEvents = [c \in Chain |-> [end \in End |-> <<>>]]
        /\ ackEvents = [c \in Chain |-> [end \in End |-> <<>>]]

ClientNext(c) ==
    /\ \/ RegisterClient(c)
       \/ CreateClient(c)
       \/ \E id \in ClientId : UpdateClient(c, id)
    /\ UNCHANGED <<capabilities, eventVars>>

ConnectionNext(c) ==
    /\ \/ ConnectionOpenInit(c)
       \/ ConnectionOpenTry(c)
       \/ ConnectionOpenAck(c)
       \/ ConnectionOpenConfirm(c)
    /\ UNCHANGED <<capabilities, eventVars>>

ChannelNext(c) ==
    /\ \/ BindPort(c)
       \/ ChannelOpenInit(c)
       \/ ChannelOpenTry(c)
       \/ ChannelOpenAck(c)
       \/ ChannelOpenConfirm(c)
    /\ UNCHANGED eventVars

\* A relayer may submit any packet with any proof height, at any time and as
\* often as it likes: what the handlers accept is for their checks to decide.
PacketNext(c) ==
    \/ SendPacket(c)
    \/ \E packet \in Packet : RecvPacket(c, packet)
    \/ WriteAcknowledgement(c)
    \/ \E packet \in Packet : AcknowledgePacket(c, packet)

Next == \E c \in Chain : \/ ClientNext(c)
                         \/ ConnectionNext(c)
                         \/ ChannelNext(c)
                         \/ PacketNext(c)
                         \/ SealBlock(c) /\ UNCHANGED eventVars

Spec == Init /\ [][Next]_vars

-----------------------------------------------------------------------------
(* Properties                                                              *)

EventTypeOK ==
    /\ sendEvents \in [Chain -> [End -> Seq(Packet)]]
    /\ recvEvents \in [Chain -> [End -> Seq(Packet)]]
    /\ ackEvents \in
         [Chain -> [End -> Seq([packet : Packet, ack : Acknowledgement])]]

\* Every variable has the type its accessors and its event declare.
TypeOK == HostTypeOK /\ EventTypeOK

\* A channel end belongs to one application, the one bound first to its port,
\* whatever is bound to the port later; an end that does not exist to none.
ChannelOwnedByPortOwner ==
    \A c \in Chain, portId \in Port, channelId \in ChannelId :
      capabilities[c][<<portId, channelId>>] =
        IF channelFound(c, <<portId, channelId>>)
        THEN <<capabilities[c][<<portId>>][1]>>
        ELSE <<>>

\* What was sent over the other end of the channel.
sentByPeer(c, end) ==
    sendEvents[peerChain(c, end)][counterpartyEnd(channels[c][end])]

\* Sequences on a channel count 1, 2, 3, ... and none is used twice: when
\* uint64 wraps around, nextSequenceSend becomes 0 and the channel stops
\* (IBCChannel.sol:175) instead of starting again.
SequencesNeverReused ==
    \A c \in Chain, end \in End :
      \A i \in DOMAIN sendEvents[c][end] : sendEvents[c][end][i].sequence = i

\* Whatever relayers submit, and however often, each packet received on an
\* open channel was sent as it is over the channel's other end, and none is
\* received twice.
ReceivedOnce ==
    \A c \in Chain, end \in End :
      LET received == recvEvents[c][end] IN
      /\ received # <<>> => Range(received) \subseteq Range(sentByPeer(c, end))
      /\ \A i, j \in DOMAIN received :
           received[i].sequence = received[j].sequence => i = j

\* On an ordered channel what was received is a prefix of what was sent.
OrderedDelivery ==
    \A c \in Chain, end \in End :
      (channels[c][end].ordering = "ORDERED" /\ recvEvents[c][end] # <<>>) =>
        IsPrefix(recvEvents[c][end], sentByPeer(c, end))

\* An application is told of an acknowledgement at most once per packet, only
\* of one the receiving application gave, and only for a packet it received.
AcknowledgedOnce ==
    \A c \in Chain, end \in End :
      LET acked == ackEvents[c][end] IN
      /\ \A i, j \in DOMAIN acked :
           acked[i].packet.sequence = acked[j].packet.sequence => i = j
      /\ \A i \in DOMAIN acked :
           LET packet == acked[i].packet
               d == peerChain(c, end)
           IN /\ packet \in Range(recvEvents[d][destination(packet)])
              /\ acked[i].ack = packetAcks[d][destination(packet)][packet.sequence]

\* A commitment is there from the sending of its packet to its acknowledgement
\* and says what was sent: the record a sender has of what is outstanding.
CommittedUntilAcknowledged ==
    \A c \in Chain, end \in End, n \in Sequence :
      packetCommitments[c][end][n] =
        IF /\ n \in DOMAIN sendEvents[c][end]
           /\ \A i \in DOMAIN ackEvents[c][end] :
                ackEvents[c][end][i].packet.sequence # n
        THEN makePacketCommitment(sendEvents[c][end][n])
        ELSE None

\* An acknowledgement, once written, is final: neither a second delivery nor a
\* late answer of the application replaces what the sender may have seen.
AcknowledgementFinal ==
    [][\A c \in Chain, end \in End, n \in Sequence :
         packetAcks[c][end][n] # None =>
           packetAcks'[c][end][n] = packetAcks[c][end][n]]_<<packetAcks, blocks>>

\* Once the sender's client has verified a block at or past a packet's timeout,
\* the packet is received no more: the sender may then treat it as lost.
TimeoutFinal ==
    [][\A c \in Chain, end \in End :
         recvEvents'[c][end] # recvEvents[c][end] =>
           LET packet == Last(recvEvents'[c][end])
               s == peerChain(c, end)
               id == channelConnection(s, source(packet)).client_id
           IN \A h \in consensusStates[s][id] :
                /\ packet.timeout_height # 0 => h < packet.timeout_height
                /\ packet.timeout_timestamp # 0 =>
                     BlockTime(h) < packet.timeout_timestamp
      ]_<<recvEvents, blocks>>

-----------------------------------------------------------------------------
(* Fairness: chains go on sealing blocks, and the relayer keeps its clients *)
(* up to date and submits every packet and acknowledgement again and again  *)
(* until it is accepted; applications answer what they left open.           *)

Fairness ==
    \A c \in Chain :
      /\ WF_vars(SealBlock(c) /\ UNCHANGED eventVars)
      /\ \A id \in ClientId :
           WF_vars(UpdateClient(c, id) /\ UNCHANGED <<capabilities, eventVars>>)
      /\ WF_vars(WriteAcknowledgement(c))
      /\ \A packet \in Packet : /\ WF_vars(RecvPacket(c, packet))
                                /\ WF_vars(AcknowledgePacket(c, packet))

FairSpec == Spec /\ Fairness

\* Every packet sent is acknowledged in the end.
EveryPacketAcknowledged ==
    \A c \in Chain, end \in End, n \in Sequence :
      packetCommitments[c][end][n] # None ~> packetCommitments[c][end][n] = None

\* Every packet sent on an unordered channel is acknowledged in the end.
UnorderedPacketsAcknowledged ==
    \A c \in Chain, end \in End, n \in Sequence :
      (packetCommitments[c][end][n] # None /\ channels[c][end].ordering = "UNORDERED")
        ~> packetCommitments[c][end][n] = None

\* Every packet sent is received in the end.
EveryPacketReceived ==
    \A c \in Chain, end \in End, n \in Sequence :
      n \in DOMAIN sendEvents[c][end] ~>
        /\ n \in DOMAIN sendEvents[c][end]
        /\ sendEvents[c][end][n] \in
             Range(recvEvents[peerChain(c, end)][counterpartyEnd(channels[c][end])])
=============================================================================
