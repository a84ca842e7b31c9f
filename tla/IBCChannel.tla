----------------------------- MODULE IBCChannel ------------------------------
(***************************************************************************)
(* contracts/core/IBCChannel.sol: the four steps of the channel handshake, *)
(* and sending, receiving and acknowledging packets.                       *)
(***************************************************************************)
EXTENDS IBCConnection

CONSTANT InitCounterpartyChannel      \* counterparty channel ids given to Init

ASSUME ChannelInputAssumption ==
    InitCounterpartyChannel \subseteq ChannelId \cup {None}

\* The hops of the other chain's end of a channel over this connection.
getCounterpartyHops(c, channel) ==
    <<connections[c][channel.connection_hops[1]].counterparty.connection_id>>

initSequences(c, end) ==
    /\ setNextSequenceSend(c, end, 1)
    /\ setNextSequenceRecv(c, end, 1)
    /\ setNextSequenceAck(c, end, 1)

\* The requirements Init and Try share: one hop, an existing connection
\* (of any state), one version on it.
openable(c, channel) ==
    /\ Len(channel.connection_hops) = 1
    /\ channel.connection_hops[1] \in ConnectionId
    /\ connectionFound(c, channel.connection_hops[1])
    /\ Len(connections[c][channel.connection_hops[1]].versions) = 1

channelOpenInit(c, portId, channelId, channel) ==
    /\ openable(c, channel)
    /\ channel.state = "INIT"
    /\ generateChannelIdentifier(c, channelId)
    /\ setChannel(c, <<portId, channelId>>, channel)
    /\ initSequences(c, <<portId, channelId>>)
    /\ UNCHANGED <<clientVars, connectionVars, packetVars, blocks>>

\* Faulty variant: this end's own version is expected.
expectedOwnVersion(c, portId, channelId, channel, state, version) ==
    [state |-> state, ordering |-> channel.ordering,
     counterparty |-> [port_id |-> portId, channel_id |-> channelId],
     connection_hops |-> getCounterpartyHops(c, channel),
     version |-> channel.version]

\* What the other chain's end must look like for this end to go on.
expectedChannel(c, portId, channelId, channel, state, version) ==
    [state |-> state,
     ordering |-> channel.ordering,
     counterparty |-> [port_id |-> portId, channel_id |-> channelId],
     connection_hops |-> getCounterpartyHops(c, channel),
     version |-> version]

channelOpenTry(c, portId, channelId, channel, counterpartyVersion, proofHeight) ==
    /\ openable(c, channel)
    /\ channel.state = "TRYOPEN"
    /\ LET connection == connections[c][channel.connection_hops[1]] IN
       verifyChannelState(c, connection.client_id, proofHeight,
            connection.counterparty.prefix,
            <<channel.counterparty.port_id, channel.counterparty.channel_id>>,
            expectedChannel(c, portId, None, channel, "INIT", counterpartyVersion))
    /\ generateChannelIdentifier(c, channelId)
    /\ setChannel(c, <<portId, channelId>>, channel)
    /\ initSequences(c, <<portId, channelId>>)
    /\ UNCHANGED <<clientVars, connectionVars, packetVars, blocks>>

\* The connection under an existing channel end.
channelConnection(c, end) == connections[c][channels[c][end].connection_hops[1]]

\* Faulty variants: any connection will do; an OPEN end is acknowledged again.
connectionExists(c, end) ==
    channelConnection(c, end).state # "UNINITIALIZED_UNSPECIFIED"
channelAcksAgain(channel) == channel.state # "UNINITIALIZED_UNSPECIFIED"

connectionIsOpen(c, end) == channelConnection(c, end).state = "OPEN"
channelAwaitsAck(channel) == channel.state \in {"INIT", "TRYOPEN"}

channelOpenAck(c, portId, channelId, version, counterpartyId, proofHeight) ==
    LET end == <<portId, channelId>>
        channel == channels[c][end]
        connection == channelConnection(c, end)
    IN
    /\ channelFound(c, end)
    /\ channelAwaitsAck(channel)
    /\ connectionIsOpen(c, end)
    /\ verifyChannelState(c, connection.client_id, proofHeight,
            connection.counterparty.prefix,
            <<channel.counterparty.port_id, counterpartyId>>,
            expectedChannel(c, portId, channelId, channel, "TRYOPEN",
                            version))
    /\ setChannel(c, end, [channel EXCEPT
                             !.state = "OPEN",
                             !.version = version,
                             !.counterparty.channel_id = counterpartyId])
    /\ UNCHANGED <<clientVars, connectionVars, nextChannelSequence,
                   sequenceVars, packetVars, blocks>>

channelOpenConfirm(c, portId, channelId, proofHeight) ==
    LET end == <<portId, channelId>>
        channel == channels[c][end]
        connection == channelConnection(c, end)
    IN
    /\ channelFound(c, end)
    /\ channel.state = "TRYOPEN"
    /\ connectionIsOpen(c, end)
    /\ verifyChannelState(c, connection.client_id, proofHeight,
            connection.counterparty.prefix,
            <<channel.counterparty.port_id, channel.counterparty.channel_id>>,
            expectedChannel(c, portId, channelId, channel, "OPEN",
                            channel.version))
    /\ setChannel(c, end, [channel EXCEPT !.state = "OPEN"])
    /\ UNCHANGED <<clientVars, connectionVars, nextChannelSequence,
                   sequenceVars, packetVars, blocks>>

-----------------------------------------------------------------------------
(* Packets                                                                 *)

source(packet) == <<packet.source_port, packet.source_channel>>
destination(packet) == <<packet.destination_port, packet.destination_channel>>
counterpartyEnd(channel) ==
    <<channel.counterparty.port_id, channel.counterparty.channel_id>>

\* A timeout of 0 is none.
notTimedOut(timeout, now) == timeout = 0 \/ now < timeout

sendPacket(c, packet) ==
    LET end == source(packet)
        connection == channelConnection(c, end)
        latestHeight == getLatestHeight(c, connection.client_id)
    IN
    /\ channels[c][end].state = "OPEN"
    /\ destination(packet) = counterpartyEnd(channels[c][end])
    /\ connection.state # "UNINITIALIZED_UNSPECIFIED"
    /\ getClientFound(c, connection.client_id)
    /\ notTimedOut(packet.timeout_height, latestHeight)
    /\ timestampFound(c, connection.client_id, latestHeight)
    /\ notTimedOut(packet.timeout_timestamp,
                   getTimestampAtHeight(c, connection.client_id, latestHeight))
    /\ nextSequenceSends[c][end] > 0
    /\ packet.sequence = nextSequenceSends[c][end]
    /\ setNextSequenceSend(c, end, Increment(packet.sequence))
    /\ setPacketCommitment(c, end, packet.sequence, packet)
    /\ UNCHANGED <<clientVars, connectionVars, channelVars, nextSequenceRecvs,
                   nextSequenceAcks, packetReceipts, packetAcks, blocks>>

receiveUnordered(c, end, sequence) ==
    /\ sequence \notin packetReceipts[c][end]
    /\ setPacketReceipt(c, end, sequence)
    /\ UNCHANGED nextSequenceRecvs

\* Faulty variants: gaps are accepted; the next sequence advances by two.
receiveAscending(c, end, sequence) ==
    /\ nextSequenceRecvs[c][end] > 0
    /\ nextSequenceRecvs[c][end] <= sequence
    /\ setNextSequenceRecv(c, end, Increment(sequence))
    /\ UNCHANGED packetReceipts
receiveEverySecond(c, end, sequence) ==
    /\ nextSequenceRecvs[c][end] > 0
    /\ nextSequenceRecvs[c][end] = sequence
    /\ setNextSequenceRecv(c, end, Increment(Increment(sequence)))
    /\ UNCHANGED packetReceipts

receiveOrdered(c, end, sequence) ==
    /\ nextSequenceRecvs[c][end] > 0
    /\ nextSequenceRecvs[c][end] = sequence
    /\ setNextSequenceRecv(c, end, Increment(sequence))
    /\ UNCHANGED packetReceipts

\* Faulty variant: only the timestamp is looked at.
notExpiredByTime(c, packet) ==
    notTimedOut(packet.timeout_timestamp, BlockTime(BlockNumber(c)))

notExpired(c, packet) ==
    /\ notTimedOut(packet.timeout_height, BlockNumber(c))
    /\ notTimedOut(packet.timeout_timestamp, BlockTime(BlockNumber(c)))

\* Leaves packetAcks to the caller: IBCHandler writes the acknowledgement in
\* the same transaction when the application returns one.
recvPacket(c, packet, proofHeight) ==
    LET end == destination(packet)
        channel == channels[c][end]
        connection == channelConnection(c, end)
    IN
    /\ channel.state = "OPEN"
    /\ source(packet) = counterpartyEnd(channel)
    /\ connectionIsOpen(c, end)
    /\ notExpired(c, packet)
    /\ verifyPacketCommitment(c, connection.client_id, proofHeight,
            connection.counterparty.prefix, source(packet), packet.sequence,
            makePacketCommitment(packet))
    /\ \/ /\ channel.ordering = "UNORDERED"
          /\ receiveUnordered(c, end, packet.sequence)
       \/ /\ channel.ordering = "ORDERED"
          /\ receiveOrdered(c, end, packet.sequence)
    /\ UNCHANGED <<clientVars, connectionVars, channelVars, nextSequenceSends,
                   nextSequenceAcks, packetCommitments, blocks>>

\* Faulty variant: an acknowledgement may be written over.
overwriteAcknowledgement(c, end, sequence, acknowledgement) ==
    /\ channels[c][end].state = "OPEN"
    /\ setPacketAcknowledgementCommitment(c, end, sequence, acknowledgement)

\* Only the effect on packetAcks: a receiving transaction has other effects.
writeAcknowledgement(c, end, sequence, acknowledgement) ==
    /\ channels[c][end].state = "OPEN"
    /\ packetAcks[c][end][sequence] = None
    /\ setPacketAcknowledgementCommitment(c, end, sequence, acknowledgement)

acknowledgePacket(c, packet, acknowledgement, proofHeight) ==
    LET end == source(packet)
        channel == channels[c][end]
        connection == channelConnection(c, end)
    IN
    /\ channel.state = "OPEN"
    /\ destination(packet) = counterpartyEnd(channel)
    /\ connectionIsOpen(c, end)
    /\ packetCommitments[c][end][packet.sequence] = makePacketCommitment(packet)
    /\ verifyPacketAcknowledgement(c, connection.client_id, proofHeight,
            connection.counterparty.prefix, destination(packet),
            packet.sequence, acknowledgement)
    /\ IF channel.ordering = "ORDERED"
       THEN /\ nextSequenceAcks[c][end] = 0
            /\ packet.sequence = nextSequenceAcks[c][end]
            /\ setNextSequenceAck(c, end, Increment(packet.sequence))
       ELSE UNCHANGED nextSequenceAcks
    /\ deletePacketCommitment(c, end, packet.sequence)
    /\ UNCHANGED <<clientVars, connectionVars, channelVars, nextSequenceSends,
                   nextSequenceRecvs, packetReceipts, packetAcks, blocks>>

-----------------------------------------------------------------------------
(* Properties                                                              *)

peerChain(c, end) == trackedChain(c, channelConnection(c, end).client_id)
peerChannel(c, end) == channels[peerChain(c, end)][counterpartyEnd(channels[c][end])]

\* A channel is OPEN only over a connection that is OPEN.  sendPacket depends
\* on it: it only requires that the connection exists (IBCChannel.sol:165),
\* and Init and Try open an end over a connection in any state.
OpenChannelHasOpenConnection ==
    \A c \in Chain, end \in End :
      channels[c][end].state = "OPEN" =>
        /\ Len(channels[c][end].connection_hops) = 1
        /\ channelConnection(c, end).state = "OPEN"

\* An OPEN channel end and the end it names agree: they name each other, over
\* connection ends that name each other, with the same ordering and version,
\* and the other end is TRYOPEN or OPEN.
ChannelsAgree ==
    \A c \in Chain, end \in End :
      channels[c][end].state = "OPEN" =>
        LET e == channels[c][end]
            p == peerChannel(c, end)
        IN /\ p.state \in {"TRYOPEN", "OPEN"}
           /\ counterpartyEnd(p) = end
           /\ p.ordering = e.ordering
           /\ p.version = e.version
           /\ p.connection_hops = getCounterpartyHops(c, e)
           /\ peerConnection(c, e.connection_hops[1]).counterparty.connection_id
                = e.connection_hops[1]

\* The channel end a TRYOPEN end answers is INIT or OPEN, never TRYOPEN: the
\* crossing hellos that Ack allows for (IBCChannel.sol:89) do not happen.
TryOpenChannelAnswersInit ==
    \A c \in Chain, end \in End :
      channels[c][end].state = "TRYOPEN" =>
        peerChannel(c, end).state \in {"INIT", "OPEN"}

\* A channel end moves forward only, keeps its connection, ordering and port,
\* and is final once it is OPEN.
ChannelMovesForward ==
    [][\A c \in Chain, end \in End :
         LET e == channels[c][end]
             f == channels'[c][end]
         IN \/ f = e
            \/ e.state = "UNINITIALIZED_UNSPECIFIED"
            \/ /\ e.state \in {"INIT", "TRYOPEN"} /\ f.state = "OPEN"
               /\ f.ordering = e.ordering
               /\ f.connection_hops = e.connection_hops
               /\ f.counterparty.port_id = e.counterparty.port_id
               /\ e.state = "TRYOPEN" => f.counterparty = e.counterparty
      ]_<<channels, blocks>>

\* The channel ends that are OPEN, and what each has agreed on with its peer.
openChannels == {e \in Chain \X End : channels[e[1]][e[2]].state = "OPEN"}
channelPeer(e) ==
    <<peerChain(e[1], e[2]), counterpartyEnd(channels[e[1]][e[2]])>>
channelTerms(e) == [ordering |-> channels[e[1]][e[2]].ordering,
                    version |-> channels[e[1]][e[2]].version]
channelAgreements ==
    {[ends |-> {e, channelPeer(e)}, terms |-> channelTerms(e)] : e \in openChannels}

ChannelHandshake ==
    INSTANCE Handshake WITH
      Party <- Chain \X End,
      Terms <- [ordering : {"NONE_UNSPECIFIED", "UNORDERED", "ORDERED"},
                version : ChannelVersion],
      agreements <- channelAgreements,
      open <- openChannels

\* The four steps of a channel implement a handshake as those of a connection
\* do, over connections whose own handshake may still be going on.
ImplementsChannelHandshake == ChannelHandshake!HandshakeSpec
=============================================================================
