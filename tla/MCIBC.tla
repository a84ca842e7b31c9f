-------------------------------- MODULE MCIBC --------------------------------
(***************************************************************************)
(* Instances of IBCHandler for TLC: two chains whose clients track each    *)
(* other, and states from which a run may start so that it spends its      *)
(* steps on the part of the system it is about.                            *)
(***************************************************************************)
EXTENDS IBCHandler, TLC

CONSTANTS A, B          \* the two chains

Other(c) == CHOOSE d \in Chain : d # c
MCRemotes == [c \in Chain |-> Chain \ {c}]
MCHops == {<<id>> : id \in ConnectionId}
MCNoPayload == [c \in Chain |-> {}]
MCPayloadA == [c \in Chain |-> IF c = A THEN Data ELSE {}]
MCPayloadAll == [c \in Chain |-> Data]
MCSymmetry == Permutations(Chain)
MCVersionSymmetry == Permutations(ChannelVersion)

\* The chains and every client exist; each client was created with the first
\* header of the other chain, and the block after it is sealed.
EmptyStore == [clients |-> [id \in ClientId |-> None],
               connections |-> [id \in ConnectionId |-> NoConnection],
               channels |-> [end \in End |-> NoChannel],
               packets |-> [end \in End |-> [n \in Sequence |-> None]],
               acks |-> [end \in End |-> [n \in Sequence |-> None]]]

StartClients(heights) ==
    /\ clientRegistry = [c \in Chain |-> ClientType]
    /\ clientTypes = [c \in Chain |-> [id \in ClientId |->
                        CHOOSE type \in ClientType : TRUE]]
    /\ clientStates = [c \in Chain |-> [id \in ClientId |->
                         [chain |-> Other(c),
                          latest_height |-> CHOOSE h \in heights :
                                              \A k \in heights : k <= h]]]
    /\ consensusStates = [c \in Chain |-> [id \in ClientId |-> heights]]
    /\ nextClientSequence = [c \in Chain |-> MaxClients]
    /\ blocks = [c \in Chain |-> <<EmptyStore, Store(c)>>]

StartNoPackets ==
    /\ packetReceipts = [c \in Chain |-> [end \in End |-> {}]]
    /\ packetCommitments =
         [c \in Chain |-> [end \in End |-> [n \in Sequence |-> None]]]
    /\ packetAcks =
         [c \in Chain |-> [end \in End |-> [n \in Sequence |-> None]]]
    /\ sendEvents = [c \in Chain |-> [end \in End |-> <<>>]]
    /\ recvEvents = [c \in Chain |-> [end \in End |-> <<>>]]
    /\ ackEvents = [c \in Chain |-> [end \in End |-> <<>>]]

StartNoChannels ==
    /\ channels = [c \in Chain |-> [end \in End |-> NoChannel]]
    /\ nextChannelSequence = [c \in Chain |-> 0]
    /\ nextSequenceSends = [c \in Chain |-> [end \in End |-> 0]]
    /\ nextSequenceRecvs = [c \in Chain |-> [end \in End |-> 0]]
    /\ nextSequenceAcks = [c \in Chain |-> [end \in End |-> 0]]

InitClients ==
    /\ connections = [c \in Chain |-> [id \in ConnectionId |-> NoConnection]]
    /\ nextConnectionSequence = [c \in Chain |-> 0]
    /\ StartNoChannels
    /\ StartNoPackets
    /\ capabilities = [c \in Chain |-> [name \in CapabilityName |-> <<>>]]
    /\ StartClients({1})

SpecClients == InitClients /\ [][Next]_vars

\* The connection handshake is half way: A's end is INIT, B's TRYOPEN, and
\* both clients know the blocks that show it.
Conn(state, connectionId) ==
    [client_id |-> 0, versions |-> getVersions, state |-> state,
     delay_period |-> 0,
     counterparty |-> [client_id |-> 0, connection_id |-> connectionId,
                       prefix |-> commitmentPrefix]]

StartConnection(ofA, ofB) ==
    /\ connections = [c \in Chain |-> [id \in ConnectionId |->
                        IF id = 0 THEN IF c = A THEN ofA ELSE ofB
                        ELSE NoConnection]]
    /\ nextConnectionSequence = [c \in Chain |-> 1]

InitHalfConnected ==
    /\ StartConnection(Conn("INIT", None), Conn("TRYOPEN", 0))
    /\ StartNoChannels
    /\ StartNoPackets
    /\ capabilities = [c \in Chain |-> [name \in CapabilityName |-> <<>>]]
    /\ StartClients({1, 2})

SpecHalfConnected == InitHalfConnected /\ [][Next]_vars

\* A channel per channel id is open, of any of the orderings, over an open
\* connection.  The blocks of the handshakes are left out: no packet was
\* committed in them.
Chan(ordering, channelId) ==
    [state |-> "OPEN", ordering |-> ordering,
     counterparty |-> [port_id |-> CHOOSE p \in Port : TRUE,
                       channel_id |-> channelId],
     connection_hops |-> <<0>>, version |-> CHOOSE v \in ChannelVersion : TRUE]

InitOpen ==
    /\ StartConnection(Conn("OPEN", 0), Conn("OPEN", 0))
    /\ \E ordering \in [ChannelId -> Ordering] :
         channels = [c \in Chain |-> [end \in End |->
                       Chan(ordering[end[2]], end[2])]]
    /\ nextChannelSequence = [c \in Chain |-> MaxChannels]
    /\ nextSequenceSends = [c \in Chain |-> [end \in End |-> 1]]
    /\ nextSequenceRecvs = [c \in Chain |-> [end \in End |-> 1]]
    /\ nextSequenceAcks = [c \in Chain |-> [end \in End |-> 1]]
    /\ StartNoPackets
    /\ capabilities = [c \in Chain |-> [name \in CapabilityName |->
                         <<CHOOSE m \in Module : TRUE>>]]
    /\ StartClients({2})

SpecOpen == InitOpen /\ [][Next]_vars
FairSpecOpen == SpecOpen /\ Fairness

\* What an application sees of the channels of InitOpen, and no more: the
\* events of its packets and the answers that were written.
Numbered(packet) == [number |-> packet.sequence, message |-> packet]
Delivery ==
    INSTANCE PacketDelivery WITH
      Endpoint <- Chain \X End,
      Peer <- [e \in Chain \X End |-> <<Other(e[1]), e[2]>>],
      Message <- Packet, Number <- Sequence, Answer <- Acknowledgement,
      ordered <- [e \in Chain \X End |->
                    channels[e[1]][e[2]].ordering = "ORDERED"],
      sent <- [e \in Chain \X End |-> sendEvents[e[1]][e[2]]],
      received <- [e \in Chain \X End |->
                     [k \in DOMAIN recvEvents[e[1]][e[2]] |->
                        Numbered(recvEvents[e[1]][e[2]][k])]],
      answers <- [e \in Chain \X End |-> packetAcks[e[1]][e[2]]],
      acked <- [e \in Chain \X End |->
                  [k \in DOMAIN ackEvents[e[1]][e[2]] |->
                     LET event == ackEvents[e[1]][e[2]][k] IN
                     [number |-> event.packet.sequence,
                      message |-> event.packet, answer |-> event.ack]]]

\* The contracts implement reliable delivery: clients, blocks, proofs, stale
\* and repeated submissions leave nothing but its steps to be seen.
ImplementsDelivery == Delivery!DeliverySpec
=============================================================================
