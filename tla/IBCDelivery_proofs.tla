-------------------------- MODULE IBCDelivery_proofs --------------------------
(***************************************************************************)
(* What the two ends of a channel can rely on.  The sender of a packet:    *)
(* its sequence is its own, its commitment stands until it is              *)
(* acknowledged, and an acknowledgement that was written is final.  The    *)
(* receiver, between chains whose clients track each other: what arrives   *)
(* was sent, once and in order; what is acknowledged arrived, and with     *)
(* that answer.                                                            *)
(***************************************************************************)
EXTENDS IBCChannel_proofs

-----------------------------------------------------------------------------
(* The sender: the inductive invariant                                     *)

Sent(c, end) == sendEvents[c][end]

\* An end that does not exist has sent nothing; another has sent 1, 2, ... up
\* to just before its next sequence, which is 0 after the last uint64.
SendsCounted ==
    \A c \in Chain, end \in End :
      /\ Len(Sent(c, end)) < UINT64
      /\ IF channels[c][end].state = "UNINITIALIZED_UNSPECIFIED"
         THEN Len(Sent(c, end)) = 0
         ELSE nextSequenceSends[c][end] = Increment(Len(Sent(c, end)))
      /\ \A i \in DOMAIN Sent(c, end) : Sent(c, end)[i].sequence = i

\* Only what was sent is acknowledged.
AcksWereSent ==
    \A c \in Chain, end \in End : \A i \in DOMAIN ackEvents[c][end] :
      ackEvents[c][end][i].packet.sequence \in DOMAIN Sent(c, end)

PacketInv ==
    ChannelInv /\ SendsCounted /\ AcksWereSent /\ CommittedUntilAcknowledged

-----------------------------------------------------------------------------

LEMMA Appended ==
    ASSUME NEW S, NEW s \in Seq(S), NEW v \in S, NEW n, n = Len(s) + 1
    PROVE  /\ n \in Nat \ {0}
           /\ DOMAIN s = 1 .. n - 1
           /\ Append(s, v) \in Seq(S)
           /\ Len(Append(s, v)) = n
           /\ DOMAIN Append(s, v) = 1 .. n
           /\ n \in 1 .. n
           /\ Append(s, v)[n] = v
           /\ \A i \in 1 .. n - 1 : Append(s, v)[i] = s[i]
OBVIOUS

\* One more packet, with the next sequence.
LEMMA SendPacketInv ==
    ASSUME PacketInv, NEW c \in Chain, SendPacket(c)
    PROVE  SendsCounted' /\ AcksWereSent' /\ CommittedUntilAcknowledged'
<1>1. PICK packet \in [sequence : Sequence \ {0}, source_port : Port,
                       source_channel : ChannelId, destination_port : Port,
                       destination_channel : ChannelId, data : Payload[c],
                       timeout_height : TimeoutHeight,
                       timeout_timestamp : TimeoutTimestamp] :
        /\ sendPacket(c, packet)
        /\ sendEvents' = emit(sendEvents, c, source(packet), packet)
        /\ UNCHANGED ackEvents
  BY DEF SendPacket
<1> DEFINE end == source(packet)
           n == packet.sequence
<1>2. packet \in Packet
  BY ApplicationAssumption DEF Packet
<1>3. end \in End /\ n \in Sequence
  BY <1>2, PacketFieldTypes
<1>4. /\ channels[c][end].state = "OPEN"
      /\ n = nextSequenceSends[c][end] /\ n > 0
      /\ nextSequenceSends' = [nextSequenceSends EXCEPT ![c][end] = Increment(n)]
      /\ packetCommitments' = [packetCommitments EXCEPT
                                 ![c][end][n] = makePacketCommitment(packet)]
      /\ UNCHANGED channels
  BY <1>1 DEF sendPacket, setNextSequenceSend, setPacketCommitment, channelVars
<1>5. /\ sendEvents \in [Chain -> [End -> Seq(Packet)]]
      /\ nextSequenceSends \in [Chain -> [End -> Sequence]]
      /\ packetCommitments \in
           [Chain -> [End -> [Sequence -> PacketCommitment \cup {None}]]]
  BY DEF PacketInv, ChannelInv, TypeOK, HostTypeOK, EventTypeOK, SequenceTypeOK,
         PacketTypeOK
<1>6. \A d \in Chain, e \in End :
        sendEvents'[d][e] = IF d = c /\ e = end THEN Append(sendEvents[c][end], packet)
                            ELSE sendEvents[d][e]
  BY <1>1, <1>3, <1>5 DEF emit
<1>7. n = packet.sequence
  OBVIOUS
<1> HIDE DEF end, n
<1>8. /\ sendEvents[c][end] \in Seq(Packet)
      /\ Len(sendEvents[c][end]) < UINT64
      /\ n = Increment(Len(sendEvents[c][end]))
  BY <1>3, <1>4, <1>5 DEF PacketInv, SendsCounted, Sent
<1>9. Len(sendEvents[c][end]) \in Nat
  BY <1>8
<1>10. /\ n = Len(sendEvents[c][end]) + 1
      /\ n < UINT64
  <2>1. Increment(Len(sendEvents[c][end])) > 0
    BY <1>4, <1>8
  <2> HIDE DEF Increment
  <2> QED
    BY <1>8, <1>9, <2>1, NumberAssumption DEF Increment
<1>11. /\ n \in Nat \ {0}
       /\ DOMAIN sendEvents[c][end] = 1 .. n - 1
       /\ Len(Append(sendEvents[c][end], packet)) = n
       /\ DOMAIN Append(sendEvents[c][end], packet) = 1 .. n
       /\ Append(sendEvents[c][end], packet)[n] = packet
       /\ \A i \in 1 .. n - 1 :
            Append(sendEvents[c][end], packet)[i] = sendEvents[c][end][i]
  BY <1>2, <1>8, <1>10, Appended
<1>12. ASSUME NEW d \in Chain, NEW e \in End
      PROVE  /\ sendEvents[d][e] \in Seq(Packet)
             /\ d = c /\ e = end =>
                  /\ Len(sendEvents'[d][e]) = n
                  /\ DOMAIN sendEvents'[d][e] = 1 .. n
                  /\ sendEvents'[d][e][n] = packet
                  /\ \A i \in 1 .. n - 1 : sendEvents'[d][e][i] = sendEvents[d][e][i]
             /\ ~ (d = c /\ e = end) => sendEvents'[d][e] = sendEvents[d][e]
  BY <1>5, <1>6, <1>11
<1>13. SendsCounted'
  <2> SUFFICES ASSUME NEW d \in Chain, NEW e \in End
               PROVE  /\ Len(sendEvents'[d][e]) < UINT64
                      /\ IF channels[d][e].state = "UNINITIALIZED_UNSPECIFIED"
                         THEN Len(sendEvents'[d][e]) = 0
                         ELSE nextSequenceSends'[d][e] = Increment(Len(sendEvents'[d][e]))
                      /\ \A i \in DOMAIN sendEvents'[d][e] :
                           sendEvents'[d][e][i].sequence = i
    BY <1>4 DEF SendsCounted, Sent
  <2>1. CASE d = c /\ e = end
    <3>1. nextSequenceSends'[d][e] = Increment(n)
      BY <1>3, <1>4, <1>5, <2>1
    <3>2. \A i \in 1 .. n - 1 : sendEvents[d][e][i].sequence = i
      BY <1>11, <2>1 DEF PacketInv, SendsCounted, Sent
    <3>3. \A i \in 1 .. n : i \in 1 .. n - 1 \/ i = n
      BY <1>11
    <3>4. \A i \in 1 .. n : sendEvents'[d][e][i].sequence = i
      BY <1>12, <1>7, <2>1, <3>2, <3>3
    <3> QED
      BY <1>4, <1>10, <1>12, <2>1, <3>1, <3>4
  <2>2. CASE ~ (d = c /\ e = end)
    <3>1. nextSequenceSends'[d][e] = nextSequenceSends[d][e]
      BY <1>3, <1>4, <1>5, <2>2
    <3> QED
      BY <1>12, <2>2, <3>1 DEF PacketInv, SendsCounted, Sent
  <2> QED
    BY <2>1, <2>2
<1>14. \A d \in Chain, e \in End :
         DOMAIN sendEvents[d][e] \subseteq DOMAIN sendEvents'[d][e]
  BY <1>12, <1>11
<1>15. AcksWereSent'
  BY <1>1, <1>14 DEF PacketInv, AcksWereSent, Sent
<1>16. CommittedUntilAcknowledged'
  <2> SUFFICES ASSUME NEW d \in Chain, NEW e \in End, NEW k \in Sequence
               PROVE  packetCommitments'[d][e][k] =
                        IF /\ k \in DOMAIN sendEvents'[d][e]
                           /\ \A i \in DOMAIN ackEvents[d][e] :
                                ackEvents[d][e][i].packet.sequence # k
                        THEN makePacketCommitment(sendEvents'[d][e][k])
                        ELSE None
    BY <1>1 DEF CommittedUntilAcknowledged
  <2>1. packetCommitments'[d][e][k] =
          IF d = c /\ e = end /\ k = n THEN makePacketCommitment(packet)
          ELSE packetCommitments[d][e][k]
    BY <1>3, <1>4, <1>5 DEF n
  <2>2. packetCommitments[d][e][k] =
          IF /\ k \in DOMAIN sendEvents[d][e]
             /\ \A i \in DOMAIN ackEvents[d][e] :
                  ackEvents[d][e][i].packet.sequence # k
          THEN makePacketCommitment(sendEvents[d][e][k])
          ELSE None
    BY DEF PacketInv, CommittedUntilAcknowledged
  <2>3. CASE d = c /\ e = end /\ k = n
    <3>1. \A i \in DOMAIN ackEvents[d][e] :
            ackEvents[d][e][i].packet.sequence # k
      BY <1>11, <2>3 DEF PacketInv, AcksWereSent, Sent
    <3> QED
      BY <1>12, <1>11, <2>1, <2>3, <3>1
  <2>4. CASE d = c /\ e = end /\ k # n
    <3>1. k \in DOMAIN sendEvents'[d][e] <=> k \in DOMAIN sendEvents[d][e]
      BY <1>12, <1>11, <2>4, NumberAssumption DEF Sequence
    <3>2. k \in DOMAIN sendEvents[d][e] => sendEvents'[d][e][k] = sendEvents[d][e][k]
      BY <1>12, <1>11, <2>4
    <3> QED
      BY <2>1, <2>2, <2>4, <3>1, <3>2
  <2>5. CASE ~ (d = c /\ e = end)
    BY <1>12, <2>1, <2>2, <2>5
  <2> QED
    BY <2>3, <2>4, <2>5
<1> QED
  BY <1>13, <1>15, <1>16

\* One packet less outstanding.
LEMMA AcknowledgePacketInv ==
    ASSUME PacketInv, NEW c \in Chain, NEW packet \in Packet,
           AcknowledgePacket(c, packet)
    PROVE  SendsCounted' /\ AcksWereSent' /\ CommittedUntilAcknowledged'
<1>1. PICK acknowledgement \in Acknowledgement, proofHeight \in 1 .. MaxHeight :
        /\ acknowledgePacket(c, packet, acknowledgement, proofHeight)
        /\ ackEvents' = emit(ackEvents, c, source(packet),
                             [packet |-> packet, ack |-> acknowledgement])
  BY DEF AcknowledgePacket
<1> DEFINE end == source(packet)
           n == packet.sequence
           event == [packet |-> packet, ack |-> acknowledgement]
           Event == [packet : Packet, ack : Acknowledgement]
<1>2. end \in End /\ n \in Sequence
  BY PacketFieldTypes
<1>3. /\ packetCommitments[c][end][n] = makePacketCommitment(packet)
      /\ packetCommitments' = [packetCommitments EXCEPT ![c][end][n] = None]
      /\ UNCHANGED <<sendEvents, nextSequenceSends, channels>>
  BY <1>1 DEF AcknowledgePacket, acknowledgePacket, deletePacketCommitment,
              channelVars
<1>4. /\ ackEvents \in [Chain -> [End -> Seq(Event)]]
      /\ packetCommitments \in
           [Chain -> [End -> [Sequence -> PacketCommitment \cup {None}]]]
  BY DEF PacketInv, ChannelInv, TypeOK, HostTypeOK, EventTypeOK, PacketTypeOK
<1>5. event \in Event
  OBVIOUS
<1>6. ackEvents' = [ackEvents EXCEPT ![c][end] = Append(@, event)]
  BY <1>1 DEF emit
<1>7. event.packet.sequence = n
  OBVIOUS
<1>8. makePacketCommitment(packet) # None
  BY SlotAssumption DEF makePacketCommitment, PacketCommitment, Packet
<1> HIDE DEF end, n, event, Event
<1>9. n \in DOMAIN sendEvents[c][end]
  BY <1>2, <1>3, <1>8 DEF PacketInv, CommittedUntilAcknowledged
<1> DEFINE m == Len(ackEvents[c][end]) + 1
<1>10. m = Len(ackEvents[c][end]) + 1
  OBVIOUS
<1> HIDE DEF m
<1>11. ackEvents[c][end] \in Seq(Event)
  BY <1>2, <1>4
<1>12. /\ m \in Nat \ {0}
       /\ DOMAIN ackEvents[c][end] = 1 .. m - 1
       /\ DOMAIN Append(ackEvents[c][end], event) = 1 .. m
       /\ m \in 1 .. m
       /\ Append(ackEvents[c][end], event)[m] = event
       /\ \A i \in 1 .. m - 1 :
            Append(ackEvents[c][end], event)[i] = ackEvents[c][end][i]
  BY <1>5, <1>10, <1>11, Appended
<1>13. ASSUME NEW d \in Chain, NEW e \in End
       PROVE  ackEvents'[d][e] = IF d = c /\ e = end
                                 THEN Append(ackEvents[c][end], event)
                                 ELSE ackEvents[d][e]
  BY <1>2, <1>4, <1>6
<1>14. \A i \in 1 .. m : i \in 1 .. m - 1 \/ i = m
  BY <1>12
<1>15. SendsCounted'
  BY <1>3 DEF PacketInv, SendsCounted, Sent
<1>16. AcksWereSent'
  <2> SUFFICES ASSUME NEW d \in Chain, NEW e \in End,
                      NEW i \in DOMAIN ackEvents'[d][e]
               PROVE  ackEvents'[d][e][i].packet.sequence \in
                        DOMAIN sendEvents[d][e]
    BY <1>3 DEF AcksWereSent, Sent
  <2>1. CASE d = c /\ e = end /\ i = m
    BY <1>7, <1>9, <1>12, <1>13, <2>1
  <2>2. CASE d = c /\ e = end /\ i # m
    <3>1. i \in DOMAIN ackEvents[c][end] /\ ackEvents'[d][e][i] = ackEvents[d][e][i]
      BY <1>12, <1>13, <1>14, <2>2
    <3> QED
      BY <2>2, <3>1 DEF PacketInv, AcksWereSent, Sent
  <2>3. CASE ~ (d = c /\ e = end)
    BY <1>13, <2>3 DEF PacketInv, AcksWereSent, Sent
  <2> QED
    BY <2>1, <2>2, <2>3
<1>17. CommittedUntilAcknowledged'
  <2> SUFFICES ASSUME NEW d \in Chain, NEW e \in End, NEW k \in Sequence
               PROVE  packetCommitments'[d][e][k] =
                        IF /\ k \in DOMAIN sendEvents[d][e]
                           /\ \A i \in DOMAIN ackEvents'[d][e] :
                                ackEvents'[d][e][i].packet.sequence # k
                        THEN makePacketCommitment(sendEvents[d][e][k])
                        ELSE None
    BY <1>3 DEF CommittedUntilAcknowledged
  <2>1. packetCommitments'[d][e][k] = IF d = c /\ e = end /\ k = n THEN None
                                      ELSE packetCommitments[d][e][k]
    BY <1>2, <1>3, <1>4
  <2>2. packetCommitments[d][e][k] =
          IF /\ k \in DOMAIN sendEvents[d][e]
             /\ \A i \in DOMAIN ackEvents[d][e] :
                  ackEvents[d][e][i].packet.sequence # k
          THEN makePacketCommitment(sendEvents[d][e][k])
          ELSE None
    BY DEF PacketInv, CommittedUntilAcknowledged
  <2>3. CASE d = c /\ e = end /\ k = n
    <3>1. ackEvents'[d][e] = Append(ackEvents[c][end], event)
      BY <1>13, <2>3
    <3>2. m \in DOMAIN ackEvents'[d][e] /\ ackEvents'[d][e][m] = event
      BY <1>12, <3>1
    <3>3. ackEvents'[d][e][m].packet.sequence = k
      BY <1>7, <2>3, <3>2
    <3> QED
      BY <2>1, <2>3, <3>2, <3>3
  <2>4. CASE d = c /\ e = end /\ k # n
    <3>1. ackEvents'[d][e] = Append(ackEvents[c][end], event)
      BY <1>13, <2>4
    <3>2. event.packet.sequence # k
      BY <1>7, <2>4
    <3>3. 1 .. m - 1 \subseteq 1 .. m
      BY <1>12
    <3>4. /\ DOMAIN ackEvents'[d][e] = 1 .. m
          /\ ackEvents'[d][e][m].packet.sequence # k
          /\ \A i \in 1 .. m - 1 : ackEvents'[d][e][i] = ackEvents[d][e][i]
          /\ DOMAIN ackEvents[d][e] = 1 .. m - 1
          /\ 1 .. m - 1 \subseteq 1 .. m
      BY <1>12, <2>4, <3>1, <3>2, <3>3
    <3>5. (\A i \in DOMAIN ackEvents'[d][e] :
             ackEvents'[d][e][i].packet.sequence # k)
           <=> \A i \in DOMAIN ackEvents[d][e] :
                 ackEvents[d][e][i].packet.sequence # k
      BY <1>14, <3>4
    <3> QED
      BY <2>1, <2>2, <2>4, <3>5
  <2>5. CASE ~ (d = c /\ e = end)
    BY <1>13, <2>1, <2>2, <2>5
  <2> QED
    BY <2>3, <2>4, <2>5
<1> QED
  BY <1>15, <1>16, <1>17

LEMMA PacketsUntouched ==
    ASSUME PacketInv, UNCHANGED <<channels, nextSequenceSends,
                                  packetCommitments, sendEvents, ackEvents>>
    PROVE  SendsCounted' /\ AcksWereSent' /\ CommittedUntilAcknowledged'
BY DEF PacketInv, SendsCounted, AcksWereSent, CommittedUntilAcknowledged, Sent

LEMMA PacketNextInv ==
    ASSUME PacketInv, NEW c \in Chain, PacketNext(c)
    PROVE  SendsCounted' /\ AcksWereSent' /\ CommittedUntilAcknowledged'
<1>1. CASE SendPacket(c)
  BY <1>1, SendPacketInv
<1>2. ASSUME NEW packet \in Packet, RecvPacket(c, packet)
      PROVE  SendsCounted' /\ AcksWereSent' /\ CommittedUntilAcknowledged'
  BY <1>2, PacketsUntouched DEF RecvPacket, recvPacket, channelVars
<1>3. CASE WriteAcknowledgement(c)
  BY <1>3, PacketsUntouched
  DEF WriteAcknowledgement, channelVars, sequenceVars, eventVars
<1>4. ASSUME NEW packet \in Packet, AcknowledgePacket(c, packet)
      PROVE  SendsCounted' /\ AcksWereSent' /\ CommittedUntilAcknowledged'
  BY <1>4, AcknowledgePacketInv
<1> QED
  BY <1>1, <1>2, <1>3, <1>4 DEF PacketNext

-----------------------------------------------------------------------------
(* Channels                                                                *)

\* A new end starts with nothing sent and the next sequence 1.
LEMMA NewChannelSends ==
    ASSUME PacketInv, NEW c \in Chain, NEW end \in End, NEW channel,
           channels[c][end].state = "UNINITIALIZED_UNSPECIFIED",
           setChannel(c, end, channel), setNextSequenceSend(c, end, 1),
           UNCHANGED sendEvents
    PROVE  SendsCounted'
<1>1. /\ channels \in [Chain -> [End -> ChannelEnd]]
      /\ nextSequenceSends \in [Chain -> [End -> Sequence]]
  BY DEF PacketInv, ChannelInv, TypeOK, HostTypeOK, ChannelTypeOK, SequenceTypeOK
<1>2. ASSUME NEW d \in Chain, NEW e \in End
      PROVE  IF d = c /\ e = end
             THEN nextSequenceSends'[d][e] = 1
             ELSE /\ channels'[d][e] = channels[d][e]
                  /\ nextSequenceSends'[d][e] = nextSequenceSends[d][e]
  BY <1>1 DEF setChannel, setNextSequenceSend
<1>3. Len(sendEvents[c][end]) = 0
  BY DEF PacketInv, SendsCounted, Sent
<1> SUFFICES ASSUME NEW d \in Chain, NEW e \in End
             PROVE  /\ Len(sendEvents[d][e]) < UINT64
                    /\ IF channels'[d][e].state = "UNINITIALIZED_UNSPECIFIED"
                       THEN Len(sendEvents[d][e]) = 0
                       ELSE nextSequenceSends'[d][e] = Increment(Len(sendEvents[d][e]))
                    /\ \A i \in DOMAIN sendEvents[d][e] :
                         sendEvents[d][e][i].sequence = i
  BY DEF SendsCounted, Sent
<1>4. CASE d = c /\ e = end
  <2>1. Increment(0) = 1
    BY NumberAssumption DEF Increment
  <2> QED
    BY <1>2, <1>3, <1>4, <2>1 DEF PacketInv, SendsCounted, Sent
<1>5. CASE ~ (d = c /\ e = end)
  BY <1>2, <1>5 DEF PacketInv, SendsCounted, Sent
<1> QED
  BY <1>4, <1>5

\* An end that exists goes on counting.
LEMMA OpenedChannelSends ==
    ASSUME PacketInv, NEW c \in Chain, NEW end \in End, NEW channel,
           channelFound(c, end), channel.state = "OPEN",
           setChannel(c, end, channel),
           UNCHANGED <<sendEvents, nextSequenceSends>>
    PROVE  SendsCounted'
<1>1. channels \in [Chain -> [End -> ChannelEnd]]
  BY DEF PacketInv, ChannelInv, TypeOK, HostTypeOK, ChannelTypeOK
<1>2. \A d \in Chain, e \in End :
        channels'[d][e].state = "UNINITIALIZED_UNSPECIFIED" <=>
          channels[d][e].state = "UNINITIALIZED_UNSPECIFIED"
  BY <1>1 DEF setChannel, channelFound
<1> QED
  BY <1>2 DEF PacketInv, SendsCounted, Sent

LEMMA ChannelNextPackets ==
    ASSUME PacketInv, NEW c \in Chain, ChannelNext(c)
    PROVE  SendsCounted' /\ AcksWereSent' /\ CommittedUntilAcknowledged'
<1>1. UNCHANGED <<sendEvents, ackEvents>>
  BY DEF ChannelNext, eventVars
<1>2. CASE BindPort(c)
  BY <1>1, <1>2, PacketsUntouched
  DEF BindPort, bindPort, channelVars, sequenceVars, packetVars
<1>3. CASE ChannelOpenInit(c)
  <2>1. PICK portId \in Port, id \in ChannelId :
          \E channel \in ChannelInput("INIT") :
            channelOpenInit(c, portId, id, channel)
    BY <1>3 DEF ChannelOpenInit
  <2>2. PICK channel \in ChannelInput("INIT") :
          channelOpenInit(c, portId, id, channel)
    BY <2>1
  <2> DEFINE end == <<portId, id>>
  <2>3. /\ openable(c, channel) /\ channel.state = "INIT"
        /\ generateChannelIdentifier(c, id)
        /\ setChannel(c, end, channel) /\ setNextSequenceSend(c, end, 1)
        /\ UNCHANGED <<connectionVars, packetCommitments>>
    BY <2>2 DEF channelOpenInit, initSequences, packetVars
  <2>4. channels[c][end].state = "UNINITIALIZED_UNSPECIFIED"
    BY <2>3, NewChannel DEF PacketInv
  <2>5. end \in End
    BY DEF End
  <2> HIDE DEF end
  <2>6. SendsCounted'
    BY <1>1, <2>3, <2>4, <2>5, NewChannelSends
  <2> QED
    BY <1>1, <2>3, <2>6
    DEF PacketInv, AcksWereSent, CommittedUntilAcknowledged, Sent
<1>4. CASE ChannelOpenTry(c)
  <2>1. PICK portId \in Port, id \in ChannelId :
          \E channel \in ChannelInput("TRYOPEN"), version \in ChannelVersion,
             proofHeight \in 1 .. MaxHeight :
            channelOpenTry(c, portId, id, channel, version, proofHeight)
    BY <1>4 DEF ChannelOpenTry
  <2>2. PICK channel \in ChannelInput("TRYOPEN"), version \in ChannelVersion,
             proofHeight \in 1 .. MaxHeight :
          channelOpenTry(c, portId, id, channel, version, proofHeight)
    BY <2>1
  <2> DEFINE end == <<portId, id>>
  <2>3. /\ openable(c, channel) /\ channel.state = "TRYOPEN"
        /\ generateChannelIdentifier(c, id)
        /\ setChannel(c, end, channel) /\ setNextSequenceSend(c, end, 1)
        /\ UNCHANGED <<connectionVars, packetCommitments>>
    BY <2>2 DEF channelOpenTry, initSequences, packetVars
  <2>4. channels[c][end].state = "UNINITIALIZED_UNSPECIFIED"
    BY <2>3, NewChannel DEF PacketInv
  <2>5. end \in End
    BY DEF End
  <2> HIDE DEF end
  <2>6. SendsCounted'
    BY <1>1, <2>3, <2>4, <2>5, NewChannelSends
  <2> QED
    BY <1>1, <2>3, <2>6
    DEF PacketInv, AcksWereSent, CommittedUntilAcknowledged, Sent
<1>5. ASSUME NEW portId \in Port, NEW id \in ChannelId, NEW channel,
             channelFound(c, <<portId, id>>), channel.state = "OPEN",
             setChannel(c, <<portId, id>>, channel),
             UNCHANGED <<nextSequenceSends, packetCommitments>>
      PROVE  SendsCounted' /\ AcksWereSent' /\ CommittedUntilAcknowledged'
  <2>1. <<portId, id>> \in End
    BY DEF End
  <2>2. SendsCounted'
    BY <1>1, <1>5, <2>1, OpenedChannelSends
  <2> QED
    BY <1>1, <1>5, <2>2
    DEF PacketInv, AcksWereSent, CommittedUntilAcknowledged, Sent
<1>6. CASE ChannelOpenAck(c)
  <2>1. PICK portId \in Port, id \in ChannelId, counterpartyId \in ChannelId,
             version \in ChannelVersion, proofHeight \in 1 .. MaxHeight :
          channelOpenAck(c, portId, id, version, counterpartyId, proofHeight)
    BY <1>6 DEF ChannelOpenAck
  <2> DEFINE f == [channels[c][<<portId, id>>] EXCEPT
                     !.state = "OPEN", !.version = version,
                     !.counterparty.channel_id = counterpartyId]
  <2>2. f.state = "OPEN"
    BY DEF PacketInv, ChannelInv, TypeOK, HostTypeOK, ChannelTypeOK, ChannelEnd, End
  <2>3. /\ channelFound(c, <<portId, id>>) /\ setChannel(c, <<portId, id>>, f)
        /\ UNCHANGED <<nextSequenceSends, packetCommitments>>
    BY <2>1 DEF channelOpenAck, sequenceVars, packetVars
  <2> HIDE DEF f
  <2> QED
    BY <1>5, <2>2, <2>3
<1>7. CASE ChannelOpenConfirm(c)
  <2>1. PICK portId \in Port, id \in ChannelId, proofHeight \in 1 .. MaxHeight :
          channelOpenConfirm(c, portId, id, proofHeight)
    BY <1>7 DEF ChannelOpenConfirm
  <2> DEFINE f == [channels[c][<<portId, id>>] EXCEPT !.state = "OPEN"]
  <2>2. f.state = "OPEN"
    BY DEF PacketInv, ChannelInv, TypeOK, HostTypeOK, ChannelTypeOK, ChannelEnd, End
  <2>3. /\ channelFound(c, <<portId, id>>) /\ setChannel(c, <<portId, id>>, f)
        /\ UNCHANGED <<nextSequenceSends, packetCommitments>>
    BY <2>1 DEF channelOpenConfirm, sequenceVars, packetVars
  <2> HIDE DEF f
  <2> QED
    BY <1>5, <2>2, <2>3
<1> QED
  BY <1>2, <1>3, <1>4, <1>6, <1>7 DEF ChannelNext

-----------------------------------------------------------------------------
(* The specification                                                       *)

LEMMA PacketInit == Init => PacketInv
<1> SUFFICES ASSUME Init PROVE PacketInv
  OBVIOUS
<1>1. \A c \in Chain, end \in End :
        /\ channels[c][end].state = "UNINITIALIZED_UNSPECIFIED"
        /\ sendEvents[c][end] = <<>> /\ ackEvents[c][end] = <<>>
        /\ \A n \in Sequence : packetCommitments[c][end][n] = None
  BY DEF Init, HostInit, NoChannel
<1>2. SendsCounted
  BY <1>1, NumberAssumption DEF SendsCounted, Sent
<1>3. AcksWereSent
  BY <1>1 DEF AcksWereSent
<1>4. CommittedUntilAcknowledged
  BY <1>1 DEF CommittedUntilAcknowledged
<1> QED
  BY <1>2, <1>3, <1>4, ChannelInit DEF PacketInv

LEMMA PacketStep == PacketInv /\ [Next]_vars => PacketInv'
<1> SUFFICES ASSUME PacketInv, [Next]_vars PROVE PacketInv'
  OBVIOUS
<1>1. ChannelInv'
  BY ChannelStep DEF PacketInv
<1> SUFFICES SendsCounted' /\ AcksWereSent' /\ CommittedUntilAcknowledged'
  BY <1>1 DEF PacketInv
<1>2. CASE UNCHANGED vars
  BY <1>2, PacketsUntouched
  DEF vars, hostVars, channelVars, sequenceVars, packetVars, eventVars
<1>3. ASSUME NEW c \in Chain, ClientNext(c)
      PROVE  UNCHANGED <<channels, nextSequenceSends, packetCommitments,
                         sendEvents, ackEvents>>
  BY <1>3 DEF ClientNext, RegisterClient, registerClient, CreateClient,
              createClient, UpdateClient, updateClient, channelVars,
              sequenceVars, packetVars, eventVars
<1>4. ASSUME NEW c \in Chain, ConnectionNext(c)
      PROVE  UNCHANGED <<channels, nextSequenceSends, packetCommitments,
                         sendEvents, ackEvents>>
  BY <1>4, ConnectionFrame
  DEF channelVars, sequenceVars, packetVars, eventVars
<1>5. ASSUME NEW c \in Chain, SealBlock(c), UNCHANGED eventVars
      PROVE  UNCHANGED <<channels, nextSequenceSends, packetCommitments,
                         sendEvents, ackEvents>>
  BY <1>5 DEF SealBlock, channelVars, sequenceVars, packetVars, eventVars
<1> QED
  BY <1>2, <1>3, <1>4, <1>5, ChannelNextPackets, PacketNextInv, PacketsUntouched
  DEF Next

\* A channel end numbers what it sends 1, 2, 3, ..., has a next sequence to
\* match, and holds commitments of exactly what is not acknowledged, on every
\* path through sendPacket and acknowledgePacket.
THEOREM PacketInvariant == Spec => []PacketInv
<1>1. Init => PacketInv
  BY PacketInit
<1>2. PacketInv /\ [Next]_vars => PacketInv'
  BY PacketStep
<1> QED
  BY <1>1, <1>2, PTL DEF Spec

\* No sequence of a channel end is used twice, for any number of packets and
\* any width of uint64: when nextSequenceSend wraps around to 0 in sendPacket
\* the end sends no more.
THEOREM SequencesUnique == Spec => []SequencesNeverReused
<1>1. PacketInv => SequencesNeverReused
  BY DEF PacketInv, SendsCounted, Sent, SequencesNeverReused
<1> QED
  BY <1>1, PacketInvariant, PTL

\* Whatever relayers submit, setPacketCommitment and deletePacketCommitment
\* leave on the host exactly the packets that still await acknowledgement.
THEOREM OutstandingCommitted == Spec => []CommittedUntilAcknowledged
<1>1. PacketInv => CommittedUntilAcknowledged
  BY DEF PacketInv
<1> QED
  BY <1>1, PacketInvariant, PTL

-----------------------------------------------------------------------------
(* Acknowledgements                                                        *)

LEMMA WrittenOnce ==
    ASSUME TypeOK, NEW c \in Chain, NEW end \in End, NEW sequence \in Sequence,
           NEW acknowledgement,
           writeAcknowledgement(c, end, sequence, acknowledgement)
    PROVE  \A d \in Chain, e \in End, n \in Sequence :
             packetAcks[d][e][n] # None => packetAcks'[d][e][n] = packetAcks[d][e][n]
<1>1. packetAcks \in [Chain -> [End -> [Sequence -> Acknowledgement \cup {None}]]]
  BY DEF TypeOK, HostTypeOK, PacketTypeOK
<1> QED
  BY <1>1 DEF writeAcknowledgement, setPacketAcknowledgementCommitment

LEMMA AcknowledgementStep ==
    ASSUME TypeOK, [Next]_vars
    PROVE  \A d \in Chain, e \in End, n \in Sequence :
             packetAcks[d][e][n] # None => packetAcks'[d][e][n] = packetAcks[d][e][n]
<1> DEFINE Kept == \A d \in Chain, e \in End, n \in Sequence :
             packetAcks[d][e][n] # None => packetAcks'[d][e][n] = packetAcks[d][e][n]
<1>1. UNCHANGED packetAcks => Kept
  OBVIOUS
<1>2. UNCHANGED vars => Kept
  BY <1>1 DEF vars, hostVars, packetVars
<1>3. ASSUME NEW c \in Chain, ClientNext(c) PROVE UNCHANGED packetAcks
  BY <1>3 DEF ClientNext, RegisterClient, registerClient, CreateClient,
              createClient, UpdateClient, updateClient, packetVars
<1>4. ASSUME NEW c \in Chain, ConnectionNext(c) PROVE UNCHANGED packetAcks
  BY <1>4, ConnectionFrame DEF packetVars
<1>5. ASSUME NEW c \in Chain, ChannelNext(c) PROVE UNCHANGED packetAcks
  BY <1>5, ChannelFrame DEF packetVars
<1>6. ASSUME NEW c \in Chain, SendPacket(c) PROVE UNCHANGED packetAcks
  BY <1>6 DEF SendPacket, sendPacket
<1>7. ASSUME NEW c \in Chain, NEW packet \in Packet, RecvPacket(c, packet)
      PROVE  Kept
  <2>1. PICK acknowledgement \in Returned :
          IF acknowledgement = None
          THEN UNCHANGED packetAcks
          ELSE writeAcknowledgement(c, destination(packet), packet.sequence,
                                    acknowledgement)
    BY <1>7 DEF RecvPacket
  <2>2. destination(packet) \in End /\ packet.sequence \in Sequence
    BY PacketFieldTypes
  <2>3. CASE writeAcknowledgement(c, destination(packet), packet.sequence,
                                  acknowledgement)
    BY <2>2, <2>3, WrittenOnce
  <2> QED
    BY <1>1, <2>1, <2>3
<1>8. ASSUME NEW c \in Chain, WriteAcknowledgement(c) PROVE Kept
  <2>1. PICK end \in End :
          \E i \in DOMAIN recvEvents[c][end], acknowledgement \in Acknowledgement :
            writeAcknowledgement(c, end, recvEvents[c][end][i].sequence,
                                 acknowledgement)
    BY <1>8 DEF WriteAcknowledgement
  <2>2. PICK i \in DOMAIN recvEvents[c][end], acknowledgement \in Acknowledgement :
          writeAcknowledgement(c, end, recvEvents[c][end][i].sequence,
                               acknowledgement)
    BY <2>1
  <2>3. recvEvents[c][end] \in Seq(Packet)
    BY DEF TypeOK, EventTypeOK
  <2>4. recvEvents[c][end][i] \in Packet
    BY <2>3
  <2>5. recvEvents[c][end][i].sequence \in Sequence
    BY <2>4, PacketFieldTypes
  <2> QED
    BY <2>2, <2>5, WrittenOnce
<1>9. ASSUME NEW c \in Chain, NEW packet \in Packet, AcknowledgePacket(c, packet)
      PROVE  UNCHANGED packetAcks
  BY <1>9 DEF AcknowledgePacket, acknowledgePacket
<1>10. ASSUME NEW c \in Chain, SealBlock(c) PROVE UNCHANGED packetAcks
  BY <1>10 DEF SealBlock, packetVars
<1> HIDE DEF Kept
<1>11. ASSUME NEW c \in Chain, PacketNext(c) PROVE Kept
  BY <1>1, <1>6, <1>7, <1>8, <1>9, <1>11 DEF PacketNext
<1>12. Kept
  BY <1>1, <1>2, <1>3, <1>4, <1>5, <1>10, <1>11 DEF Next
<1> QED
  BY <1>12 DEF Kept

\* An acknowledgement that recvPacket or a late writeAcknowledgement has
\* stored is never replaced, so two relayers can only deliver the same one.
THEOREM AcknowledgementsFinal == Spec => AcknowledgementFinal
<1>1. TypeOK /\ [Next]_vars =>
        [\A c \in Chain, end \in End, n \in Sequence :
           packetAcks[c][end][n] # None =>
             packetAcks'[c][end][n] = packetAcks[c][end][n]]_<<packetAcks, blocks>>
  BY AcknowledgementStep
<1> QED
  BY <1>1, TypeCorrect, PTL DEF Spec, AcknowledgementFinal

-----------------------------------------------------------------------------
(* The receiver: the inductive invariant                                   *)

Received(c, end) == recvEvents[c][end]
AckedEvents(c, end) == ackEvents[c][end]

\* An end sends only when it is OPEN, from itself to the end it names.
SentAddressed ==
    \A c \in Chain, end \in End : \A i \in DOMAIN Sent(c, end) :
      /\ channels[c][end].state = "OPEN"
      /\ source(Sent(c, end)[i]) = end
      /\ destination(Sent(c, end)[i]) = counterpartyEnd(channels[c][end])

\* What a sealed block shows as committed was sent, acknowledged since or not.
SealedPacketsSent ==
    \A c \in Chain, end \in End, n \in Sequence : \A h \in 1 .. Len(blocks[c]) :
      blocks[c][h].packets[end][n] # None =>
        /\ n \in DOMAIN Sent(c, end)
        /\ blocks[c][h].packets[end][n] = makePacketCommitment(Sent(c, end)[n])

\* Packet r, received at `end` of chain c, is one that the other end sent.
WasSent(c, end, r) ==
    /\ channels[c][end].state = "OPEN"
    /\ r.sequence \in DOMAIN sentByPeer(c, end)
    /\ sentByPeer(c, end)[r.sequence] = r

ReceivedWereSent ==
    \A c \in Chain, end \in End : \A i \in DOMAIN Received(c, end) :
      WasSent(c, end, Received(c, end)[i])

\* An ordered end has received 1, 2, ... up to just before its next sequence;
\* another end has receipts of distinct sequences.
ReceivedCounted ==
    \A c \in Chain, end \in End :
      IF channels[c][end].ordering = "ORDERED"
      THEN /\ \A i \in DOMAIN Received(c, end) : Received(c, end)[i].sequence = i
           /\ channels[c][end].state # "UNINITIALIZED_UNSPECIFIED" =>
                nextSequenceRecvs[c][end] = Increment(Len(Received(c, end)))
      ELSE /\ \A i \in DOMAIN Received(c, end) :
                Received(c, end)[i].sequence \in packetReceipts[c][end]
           /\ \A i, j \in DOMAIN Received(c, end) :
                Received(c, end)[i].sequence = Received(c, end)[j].sequence => i = j

\* Only what was received is answered, and a sealed answer is the answer.
AnsweredWereReceived ==
    \A c \in Chain, end \in End, n \in Sequence :
      packetAcks[c][end][n] # None =>
        \E i \in DOMAIN Received(c, end) : Received(c, end)[i].sequence = n

SealedAnswersFinal ==
    \A c \in Chain, end \in End, n \in Sequence : \A h \in 1 .. Len(blocks[c]) :
      blocks[c][h].acks[end][n] # None =>
        packetAcks[c][end][n] = blocks[c][h].acks[end][n]

\* Event a of an acknowledgement at `end` of chain c tells of a packet that
\* the other end received and answered.
WasAnswered(c, end, a) ==
    /\ channels[c][end].state = "OPEN"
    /\ a.packet \in Range(Received(peerChain(c, end), destination(a.packet)))
    /\ a.ack # None
    /\ packetAcks[peerChain(c, end)][destination(a.packet)][a.packet.sequence] = a.ack

AckedWereAnswered ==
    \A c \in Chain, end \in End : \A i \in DOMAIN AckedEvents(c, end) :
      WasAnswered(c, end, AckedEvents(c, end)[i])

AckedDistinct ==
    \A c \in Chain, end \in End : \A i, j \in DOMAIN AckedEvents(c, end) :
      AckedEvents(c, end)[i].packet.sequence = AckedEvents(c, end)[j].packet.sequence
        => i = j

DeliveryInv ==
    /\ AgreementInv
    /\ PacketInv
    /\ SentAddressed
    /\ SealedPacketsSent
    /\ ReceivedWereSent
    /\ ReceivedCounted
    /\ AnsweredWereReceived
    /\ SealedAnswersFinal
    /\ AckedWereAnswered
    /\ AckedDistinct
-----------------------------------------------------------------------------
(* What a step adds to the events, and what it keeps                       *)

LEMMA Grown ==
    ASSUME NEW S, NEW s \in Seq(S), NEW v \in S
    PROVE  /\ Len(s) \in Nat
           /\ Len(Append(s, v)) = Len(s) + 1
           /\ \A i \in DOMAIN s :
                i \in DOMAIN Append(s, v) /\ Append(s, v)[i] = s[i]
           /\ \A i \in DOMAIN Append(s, v) :
                \/ i \in DOMAIN s /\ Append(s, v)[i] = s[i]
                \/ i = Len(s) + 1 /\ Append(s, v)[i] = v
<1>1. Len(s) \in Nat
  OBVIOUS
<1> DEFINE n == Len(s)
<1>2. /\ DOMAIN s = 1 .. n
      /\ DOMAIN Append(s, v) = 1 .. n + 1
      /\ Len(Append(s, v)) = n + 1
      /\ \A i \in 1 .. n : Append(s, v)[i] = s[i]
      /\ Append(s, v)[n + 1] = v
  OBVIOUS
<1>3. n \in Nat
  BY <1>1
<1>4. n = Len(s)
  OBVIOUS
<1> HIDE DEF n
<1>5. /\ \A i \in 1 .. n : i \in 1 .. n + 1
      /\ \A i \in 1 .. n + 1 : i \in 1 .. n \/ i = n + 1
  BY <1>3
<1> QED
  BY <1>2, <1>3, <1>4, <1>5

\* Each kind of event has one action that emits it.
LEMMA EventsNext ==
    ASSUME [Next]_vars
    PROVE  /\ \/ UNCHANGED sendEvents
              \/ \E c \in Chain, packet \in Packet :
                   /\ sendPacket(c, packet)
                   /\ sendEvents' = emit(sendEvents, c, source(packet), packet)
           /\ \/ UNCHANGED recvEvents
              \/ \E c \in Chain, packet \in Packet : RecvPacket(c, packet)
           /\ \/ UNCHANGED ackEvents
              \/ \E c \in Chain, packet \in Packet : AcknowledgePacket(c, packet)
<1>1. UNCHANGED vars => UNCHANGED eventVars
  BY DEF vars
<1>2. ASSUME NEW c \in Chain, ClientNext(c) \/ ConnectionNext(c) \/ ChannelNext(c)
      PROVE  UNCHANGED eventVars
  BY <1>2 DEF ClientNext, ConnectionNext, ChannelNext
<1>3. ASSUME NEW c \in Chain, WriteAcknowledgement(c) PROVE UNCHANGED eventVars
  BY <1>3 DEF WriteAcknowledgement
<1>4. ASSUME NEW c \in Chain, SendPacket(c)
      PROVE  /\ \E packet \in Packet :
                  /\ sendPacket(c, packet)
                  /\ sendEvents' = emit(sendEvents, c, source(packet), packet)
             /\ UNCHANGED <<recvEvents, ackEvents>>
  <2>1. PICK packet \in [sequence : Sequence \ {0}, source_port : Port,
                         source_channel : ChannelId, destination_port : Port,
                         destination_channel : ChannelId, data : Payload[c],
                         timeout_height : TimeoutHeight,
                         timeout_timestamp : TimeoutTimestamp] :
          /\ sendPacket(c, packet)
          /\ sendEvents' = emit(sendEvents, c, source(packet), packet)
          /\ UNCHANGED <<recvEvents, ackEvents>>
    BY <1>4 DEF SendPacket
  <2>2. packet \in Packet
    BY ApplicationAssumption DEF Packet
  <2> QED
    BY <2>1, <2>2
<1>5. ASSUME NEW c \in Chain, NEW packet \in Packet, RecvPacket(c, packet)
      PROVE  UNCHANGED <<sendEvents, ackEvents>>
  BY <1>5 DEF RecvPacket
<1>6. ASSUME NEW c \in Chain, NEW packet \in Packet, AcknowledgePacket(c, packet)
      PROVE  UNCHANGED <<sendEvents, recvEvents>>
  BY <1>6 DEF AcknowledgePacket
<1>7. CASE UNCHANGED eventVars
  BY <1>7 DEF eventVars
<1>8. ASSUME NEW c \in Chain, PacketNext(c)
      PROVE  \/ UNCHANGED eventVars
             \/ SendPacket(c)
             \/ \E packet \in Packet : RecvPacket(c, packet)
             \/ \E packet \in Packet : AcknowledgePacket(c, packet)
  BY <1>3, <1>8 DEF PacketNext
<1>9. \/ UNCHANGED eventVars
      \/ \E c \in Chain : SendPacket(c)
      \/ \E c \in Chain, packet \in Packet : RecvPacket(c, packet)
      \/ \E c \in Chain, packet \in Packet : AcknowledgePacket(c, packet)
  BY <1>1, <1>2, <1>8 DEF Next
<1> QED
  BY <1>4, <1>5, <1>6, <1>7, <1>9

\* The packets a step sends, receives and acknowledges, at the end of an event.
LEMMA SentNext ==
    ASSUME TypeOK, [Next]_vars, NEW d \in Chain, NEW x \in End
    PROVE  /\ \A i \in DOMAIN Sent(d, x) :
                i \in DOMAIN Sent(d, x)' /\ Sent(d, x)'[i] = Sent(d, x)[i]
           /\ \A i \in DOMAIN Sent(d, x)' :
                \/ i \in DOMAIN Sent(d, x) /\ Sent(d, x)'[i] = Sent(d, x)[i]
                \/ /\ sendPacket(d, Sent(d, x)'[i])
                   /\ source(Sent(d, x)'[i]) = x
<1>1. CASE UNCHANGED sendEvents
  BY <1>1 DEF Sent
<1>2. ASSUME NEW c \in Chain, NEW packet \in Packet, sendPacket(c, packet),
             sendEvents' = emit(sendEvents, c, source(packet), packet)
      PROVE  /\ \A i \in DOMAIN Sent(d, x) :
                  i \in DOMAIN Sent(d, x)' /\ Sent(d, x)'[i] = Sent(d, x)[i]
             /\ \A i \in DOMAIN Sent(d, x)' :
                  \/ i \in DOMAIN Sent(d, x) /\ Sent(d, x)'[i] = Sent(d, x)[i]
                  \/ /\ sendPacket(d, Sent(d, x)'[i])
                     /\ source(Sent(d, x)'[i]) = x
  <2>1. sendEvents \in [Chain -> [End -> Seq(Packet)]] /\ source(packet) \in End
    BY PacketFieldTypes DEF TypeOK, EventTypeOK
  <2>2. /\ sendEvents[d][x] \in Seq(Packet)
        /\ ~ (d = c /\ x = source(packet)) => sendEvents'[d][x] = sendEvents[d][x]
        /\ d = c /\ x = source(packet) =>
             sendEvents'[d][x] = Append(sendEvents[d][x], packet)
    BY <1>2, <2>1 DEF emit
  <2>3. CASE d = c /\ x = source(packet)
    <3>1. /\ Sent(d, x) \in Seq(Packet)
          /\ Sent(d, x)' = Append(Sent(d, x), packet)
      BY ONLY <2>2, <2>3 DEF Sent
    <3>2. packet \in Packet /\ sendPacket(d, packet) /\ source(packet) = x
      BY <1>2, <2>3
    <3> QED
      BY ONLY <3>1, <3>2, Grown
  <2>4. CASE ~ (d = c /\ x = source(packet))
    BY ONLY <2>2, <2>4 DEF Sent
  <2> QED
    BY ONLY <2>3, <2>4
<1> QED
  BY <1>1, <1>2, EventsNext

LEMMA ReceivedGrows ==
    ASSUME TypeOK, [Next]_vars, NEW d \in Chain, NEW x \in End
    PROVE  \/ Received(d, x)' = Received(d, x)
           \/ \E packet \in Packet :
                /\ RecvPacket(d, packet) /\ destination(packet) = x
                /\ Received(d, x)' = Append(Received(d, x), packet)
<1>1. CASE UNCHANGED recvEvents
  BY <1>1 DEF Received
<1>2. ASSUME NEW c \in Chain, NEW packet \in Packet, RecvPacket(c, packet)
      PROVE  \/ Received(d, x)' = Received(d, x)
             \/ /\ d = c /\ destination(packet) = x
                /\ Received(d, x)' = Append(Received(d, x), packet)
  <2>1. /\ recvEvents \in [Chain -> [End -> Seq(Packet)]]
        /\ destination(packet) \in End
        /\ recvEvents' = emit(recvEvents, c, destination(packet), packet)
    BY <1>2, PacketFieldTypes DEF TypeOK, EventTypeOK, RecvPacket
  <2> QED
    BY <2>1 DEF Received, emit
<1> QED
  BY <1>1, <1>2, EventsNext

LEMMA ReceivedNext ==
    ASSUME TypeOK, [Next]_vars, NEW d \in Chain, NEW x \in End
    PROVE  /\ \A i \in DOMAIN Received(d, x) :
                i \in DOMAIN Received(d, x)' /\ Received(d, x)'[i] = Received(d, x)[i]
           /\ \A i \in DOMAIN Received(d, x)' :
                \/ i \in DOMAIN Received(d, x) /\ Received(d, x)'[i] = Received(d, x)[i]
                \/ \E packet \in Packet :
                     /\ RecvPacket(d, packet) /\ destination(packet) = x
                     /\ Received(d, x)'[i] = packet
<1>1. CASE Received(d, x)' = Received(d, x)
  BY <1>1
<1>2. ASSUME NEW packet \in Packet, RecvPacket(d, packet),
             destination(packet) = x,
             Received(d, x)' = Append(Received(d, x), packet)
      PROVE  /\ \A i \in DOMAIN Received(d, x) :
                  i \in DOMAIN Received(d, x)' /\ Received(d, x)'[i] = Received(d, x)[i]
             /\ \A i \in DOMAIN Received(d, x)' :
                  \/ i \in DOMAIN Received(d, x) /\ Received(d, x)'[i] = Received(d, x)[i]
                  \/ Received(d, x)'[i] = packet
  <2>1. Received(d, x) \in Seq(Packet)
    BY DEF TypeOK, EventTypeOK, Received
  <2> QED
    BY <1>2, <2>1, Grown
<1> QED
  BY <1>1, <1>2, ReceivedGrows

LEMMA AckedNext ==
    ASSUME TypeOK, [Next]_vars, NEW d \in Chain, NEW x \in End,
           NEW i \in DOMAIN AckedEvents(d, x)'
    PROVE  \/ /\ i \in DOMAIN AckedEvents(d, x)
              /\ AckedEvents(d, x)'[i] = AckedEvents(d, x)[i]
           \/ \E packet \in Packet, ack \in Acknowledgement, height \in 1 .. MaxHeight :
                /\ acknowledgePacket(d, packet, ack, height) /\ source(packet) = x
                /\ AckedEvents(d, x)'[i] = [packet |-> packet, ack |-> ack]
                /\ i = Len(AckedEvents(d, x)) + 1
<1>1. CASE UNCHANGED ackEvents
  BY <1>1 DEF AckedEvents
<1>2. ASSUME NEW c \in Chain, NEW packet \in Packet, AcknowledgePacket(c, packet)
      PROVE  \/ /\ i \in DOMAIN AckedEvents(d, x)
                /\ AckedEvents(d, x)'[i] = AckedEvents(d, x)[i]
             \/ \E ack \in Acknowledgement, height \in 1 .. MaxHeight :
                  /\ acknowledgePacket(d, packet, ack, height) /\ source(packet) = x
                  /\ AckedEvents(d, x)'[i] = [packet |-> packet, ack |-> ack]
                  /\ i = Len(AckedEvents(d, x)) + 1
  <2>1. PICK ack \in Acknowledgement, height \in 1 .. MaxHeight :
          /\ acknowledgePacket(c, packet, ack, height)
          /\ ackEvents' = emit(ackEvents, c, source(packet),
                               [packet |-> packet, ack |-> ack])
    BY <1>2 DEF AcknowledgePacket
  <2> DEFINE Event == [packet : Packet, ack : Acknowledgement]
             event == [packet |-> packet, ack |-> ack]
  <2>2. /\ ackEvents \in [Chain -> [End -> Seq(Event)]]
        /\ source(packet) \in End /\ event \in Event
    BY PacketFieldTypes DEF TypeOK, EventTypeOK
  <2>3. event = [packet |-> packet, ack |-> ack]
    OBVIOUS
  <2> HIDE DEF Event, event
  <2>4. /\ ackEvents[d][x] \in Seq(Event)
        /\ ~ (d = c /\ x = source(packet)) => ackEvents'[d][x] = ackEvents[d][x]
        /\ d = c /\ x = source(packet) =>
             ackEvents'[d][x] = Append(ackEvents[d][x], event)
    BY <2>1, <2>2, <2>3 DEF emit
  <2>5. CASE d = c /\ x = source(packet)
    BY <2>1, <2>2, <2>3, <2>4, <2>5, Grown DEF AckedEvents
  <2> QED
    BY <2>4, <2>5 DEF AckedEvents
<1> QED
  BY <1>1, <1>2, EventsNext
-----------------------------------------------------------------------------
(* The two ends of an OPEN channel                                         *)

\* What an OPEN end is connected to is final.
LEMMA OpenPeerKept ==
    ASSUME Paired, AgreementInv, [Next]_vars, NEW c \in Chain, NEW end \in End,
           channels[c][end].state = "OPEN"
    PROVE  /\ channels'[c][end] = channels[c][end]
           /\ peerChain(c, end)' = peerChain(c, end)
           /\ sentByPeer(c, end) = Sent(peerChain(c, end),
                                        counterpartyEnd(channels[c][end]))
           /\ sentByPeer(c, end)' = Sent(peerChain(c, end),
                                         counterpartyEnd(channels[c][end]))'
<1>1. PICK e : e = channels[c][end]
  OBVIOUS
<1>2. channels'[c][end] = e
  BY <1>1, AgreementStep DEF ChannelsForward, ChannelForward
<1>3. ChannelLinked(c, e)
  BY <1>1 DEF AgreementInv, OpenChannelsAgreed, ChannelAgreed
<1>4. peerChainOf(c, e)' = peerChainOf(c, e)
  BY <1>3, LinkKept DEF AgreementInv
<1>5. /\ peerChain(c, end) = peerChainOf(c, e)
      /\ peerChain(c, end)' = peerChainOf(c, e)'
  BY <1>1, <1>2
  DEF peerChain, peerChainOf, channelConnection, clientOf, hopOf, trackedChain
<1> QED
  BY <1>1, <1>2, <1>4, <1>5 DEF sentByPeer, Sent, counterpartyEnd

\* A packet is its commitment with its sequence and its addresses.
LEMMA SamePacket ==
    ASSUME NEW p \in Packet, NEW q \in Packet, p.sequence = q.sequence,
           source(p) = source(q), destination(p) = destination(q),
           makePacketCommitment(p) = makePacketCommitment(q)
    PROVE  p = q
BY DEF Packet, source, destination, makePacketCommitment

LEMMA SentPackets ==
    ASSUME DeliveryInv, NEW c \in Chain, NEW end \in End,
           NEW n \in DOMAIN Sent(c, end)
    PROVE  /\ Sent(c, end)[n] \in Packet
           /\ Sent(c, end)[n].sequence = n
           /\ source(Sent(c, end)[n]) = end
           /\ channels[c][end].state = "OPEN"
           /\ destination(Sent(c, end)[n]) = counterpartyEnd(channels[c][end])
<1>1. sendEvents[c][end] \in Seq(Packet)
  BY DEF DeliveryInv, PacketInv, ChannelInv, TypeOK, EventTypeOK
<1> QED
  BY <1>1 DEF DeliveryInv, PacketInv, SendsCounted, SentAddressed, Sent

\* What a proof can show of chain c's peer at `end`, and where it comes from.
LEMMA PeerBlock ==
    ASSUME Paired, AgreementInv, NEW c \in Chain, NEW end \in End,
           channels[c][end].state = "OPEN", NEW height, NEW prefix,
           validateArgs(c, channelConnection(c, end).client_id, height, prefix)
    PROVE  /\ height \in 1 .. Len(blocks[peerChain(c, end)])
           /\ provenStore(c, channelConnection(c, end).client_id, height)
                = blocks[peerChain(c, end)][height]
<1> DEFINE id == channelConnection(c, end).client_id
<1>1. ChannelLinked(c, channels[c][end])
  BY DEF AgreementInv, OpenChannelsAgreed, ChannelAgreed
<1>2. id = clientOf(c, channels[c][end])
  BY DEF channelConnection, clientOf, hopOf
<1>3. id \in ClientId /\ clientStates[c][id] # None
  BY <1>1, <1>2, LinkedChain DEF ChannelLinked, AgreementInv
<1>4. ClientTypeOK /\ ClientsKnowBlocks
  BY DEF AgreementInv, ConnectionInv, TypeOK, HostTypeOK
<1>5. height \in consensusStates[c][id]
  BY DEF validateArgs
<1>6. peerChain(c, end) = trackedChain(c, id)
  BY DEF peerChain
<1>7. provenStore(c, id, height) = blocks[trackedChain(c, id)][height]
  BY DEF provenStore, trackedChain
<1> HIDE DEF id
<1>8. consensusStates[c][id] \subseteq 1 .. Len(blocks[trackedChain(c, id)])
  BY <1>3, <1>4, KnownClient
<1> QED
  BY <1>5, <1>6, <1>7, <1>8 DEF id

-----------------------------------------------------------------------------
(* What is sent                                                            *)

LEMMA SentAddressedStep ==
    ASSUME Paired, DeliveryInv, [Next]_vars PROVE SentAddressed'
<1> SUFFICES ASSUME NEW c \in Chain, NEW end \in End,
                    NEW i \in DOMAIN Sent(c, end)'
             PROVE  /\ channels'[c][end].state = "OPEN"
                    /\ source(Sent(c, end)'[i]) = end
                    /\ destination(Sent(c, end)'[i])
                         = counterpartyEnd(channels'[c][end])
  BY DEF SentAddressed, source, destination, counterpartyEnd
<1>1. TypeOK /\ AgreementInv
  BY DEF DeliveryInv, AgreementInv, ChannelInv
<1>2. /\ channels[c][end].state = "OPEN"
      /\ source(Sent(c, end)'[i]) = end
      /\ destination(Sent(c, end)'[i]) = counterpartyEnd(channels[c][end])
  <2>1. CASE i \in DOMAIN Sent(c, end) /\ Sent(c, end)'[i] = Sent(c, end)[i]
    BY <2>1, SentPackets
  <2>2. CASE sendPacket(c, Sent(c, end)'[i]) /\ source(Sent(c, end)'[i]) = end
    BY <2>2 DEF sendPacket
  <2> QED
    BY <1>1, <2>1, <2>2, SentNext
<1>3. channels'[c][end] = channels[c][end]
  BY <1>1, <1>2, OpenPeerKept
<1> QED
  BY <1>2, <1>3

LEMMA SealedPacketsSentStep ==
    ASSUME DeliveryInv, [Next]_vars PROVE SealedPacketsSent'
<1> SUFFICES ASSUME NEW c \in Chain, NEW end \in End, NEW n \in Sequence,
                    NEW h \in 1 .. Len(blocks'[c]),
                    blocks'[c][h].packets[end][n] # None
             PROVE  /\ n \in DOMAIN Sent(c, end)'
                    /\ blocks'[c][h].packets[end][n]
                         = makePacketCommitment(Sent(c, end)'[n])
  BY DEF SealedPacketsSent, makePacketCommitment
<1>1. TypeOK
  BY DEF DeliveryInv, PacketInv, ChannelInv
<1>2. /\ n \in DOMAIN Sent(c, end)
      /\ blocks'[c][h].packets[end][n] = makePacketCommitment(Sent(c, end)[n])
  <2>1. CASE h \in 1 .. Len(blocks[c]) /\ blocks'[c][h] = blocks[c][h]
    BY <2>1 DEF DeliveryInv, SealedPacketsSent
  <2>2. CASE blocks'[c][h] = Store(c)
    <3>1. blocks'[c][h].packets[end][n] = packetCommitments[c][end][n]
      BY <2>2 DEF Store
    <3> QED
      BY <3>1 DEF DeliveryInv, PacketInv, CommittedUntilAcknowledged, Sent
  <2> QED
    BY <1>1, <2>1, <2>2, BlocksKept
<1>3. n \in DOMAIN Sent(c, end)' /\ Sent(c, end)'[n] = Sent(c, end)[n]
  BY <1>1, <1>2, SentNext
<1> QED
  BY <1>2, <1>3

-----------------------------------------------------------------------------
(* What is received                                                        *)

\* recvPacket's checks: the packet that a proof shows is the one that was sent.
LEMMA VerifiedPacket ==
    ASSUME Paired, DeliveryInv, NEW c \in Chain, NEW packet \in Packet,
           RecvPacket(c, packet)
    PROVE  WasSent(c, destination(packet), packet)
<1> DEFINE end == destination(packet)
           from == source(packet)
           n == packet.sequence
           d == peerChain(c, end)
<1>1. PICK height \in 1 .. MaxHeight : recvPacket(c, packet, height)
  BY DEF RecvPacket
<1>2. end \in End /\ from \in End /\ n \in Sequence
  BY PacketFieldTypes
<1>3. /\ channels[c][end].state = "OPEN"
      /\ from = counterpartyEnd(channels[c][end])
      /\ verifyPacketCommitment(c, channelConnection(c, end).client_id, height,
           channelConnection(c, end).counterparty.prefix, from, n,
           makePacketCommitment(packet))
  BY <1>1 DEF recvPacket
<1>4. AgreementInv
  BY DEF DeliveryInv
<1>5. /\ d \in Chain
      /\ counterpartyEnd(channels[d][from]) = end
  BY <1>2, <1>3, <1>4, OpenChannelPeer DEF peerChannel
<1>6. sentByPeer(c, end) = Sent(d, from)
  BY <1>3 DEF sentByPeer, Sent
<1>7. makePacketCommitment(packet) # None
  BY PacketFieldTypes, SlotAssumption
<1>8. end = destination(packet) /\ from = source(packet) /\ n = packet.sequence
  OBVIOUS
<1> HIDE DEF end, from, n, d
<1>9. /\ height \in 1 .. Len(blocks[d])
      /\ blocks[d][height].packets[from][n] = makePacketCommitment(packet)
  BY <1>2, <1>3, <1>4, PeerBlock DEF verifyPacketCommitment, d
<1>10. /\ n \in DOMAIN Sent(d, from)
       /\ makePacketCommitment(Sent(d, from)[n]) = makePacketCommitment(packet)
  BY <1>2, <1>5, <1>7, <1>9 DEF DeliveryInv, SealedPacketsSent
<1>11. /\ Sent(d, from)[n] \in Packet
       /\ Sent(d, from)[n].sequence = n
       /\ source(Sent(d, from)[n]) = from
       /\ destination(Sent(d, from)[n]) = end
  BY <1>2, <1>5, <1>10, SentPackets
<1>12. Sent(d, from)[n] = packet
  BY <1>8, <1>10, <1>11, SamePacket
<1> QED
  BY <1>3, <1>6, <1>8, <1>10, <1>12 DEF WasSent

LEMMA WasSentKept ==
    ASSUME Paired, DeliveryInv, [Next]_vars, NEW c \in Chain, NEW end \in End,
           NEW r, WasSent(c, end, r)
    PROVE  WasSent(c, end, r)'
<1>1. AgreementInv /\ TypeOK
  BY DEF DeliveryInv, AgreementInv, ChannelInv
<1>2. channels[c][end].state = "OPEN"
  BY DEF WasSent
<1>3. /\ peerChain(c, end) \in Chain
      /\ counterpartyEnd(channels[c][end]) \in End
  BY <1>1, <1>2, OpenChannelPeer
<1>4. /\ channels'[c][end] = channels[c][end]
      /\ sentByPeer(c, end) = Sent(peerChain(c, end),
                                   counterpartyEnd(channels[c][end]))
      /\ sentByPeer(c, end)' = Sent(peerChain(c, end),
                                    counterpartyEnd(channels[c][end]))'
  BY <1>1, <1>2, OpenPeerKept
<1>5. PICK d \in Chain, other \in End :
        d = peerChain(c, end) /\ other = counterpartyEnd(channels[c][end])
  BY <1>3
<1>6. /\ sentByPeer(c, end) = Sent(d, other)
      /\ sentByPeer(c, end)' = Sent(d, other)'
  BY <1>1, <1>2, <1>5, OpenPeerKept DEF sentByPeer, Sent, counterpartyEnd
<1>7. r.sequence \in DOMAIN Sent(d, other) /\ Sent(d, other)[r.sequence] = r
  BY <1>6 DEF WasSent
<1>8. r.sequence \in DOMAIN Sent(d, other)' /\ Sent(d, other)'[r.sequence] = r
  BY <1>1, <1>7, SentNext
<1> QED
  BY <1>2, <1>4, <1>6, <1>8 DEF WasSent

LEMMA ReceivedWereSentStep ==
    ASSUME Paired, DeliveryInv, [Next]_vars PROVE ReceivedWereSent'
<1> SUFFICES ASSUME NEW c \in Chain, NEW end \in End,
                    NEW i \in DOMAIN Received(c, end)'
             PROVE  WasSent(c, end, Received(c, end)[i])'
  BY DEF ReceivedWereSent
<1>1. PICK r : r = Received(c, end)'[i]
  OBVIOUS
<1>2. TypeOK
  BY DEF DeliveryInv, PacketInv, ChannelInv
<1>3. WasSent(c, end, r)
  <2>1. CASE i \in DOMAIN Received(c, end) /\ Received(c, end)'[i] = Received(c, end)[i]
    BY <1>1, <2>1 DEF DeliveryInv, ReceivedWereSent
  <2>2. ASSUME NEW packet \in Packet, RecvPacket(c, packet),
               destination(packet) = end, Received(c, end)'[i] = packet
        PROVE  WasSent(c, end, r)
    BY <1>1, <2>2, VerifiedPacket
  <2> QED
    BY <1>2, <2>1, <2>2, ReceivedNext
<1>4. WasSent(c, end, r)'
  BY <1>3, WasSentKept
<1> QED
  BY <1>1, <1>4 DEF WasSent
-----------------------------------------------------------------------------
(* Nothing is received twice, or out of order                              *)

\* What decides about the next packet that `end` of chain c receives.
ReceiptsKept(c, end) ==
    /\ nextSequenceRecvs'[c][end] = nextSequenceRecvs[c][end]
    /\ packetReceipts'[c][end] = packetReceipts[c][end]
    /\ channels'[c][end].ordering = channels[c][end].ordering
    /\ channels[c][end].state = "UNINITIALIZED_UNSPECIFIED" <=>
         channels'[c][end].state = "UNINITIALIZED_UNSPECIFIED"

ReceiptsStarted(c, end) ==
    /\ channels[c][end].state = "UNINITIALIZED_UNSPECIFIED"
    /\ nextSequenceRecvs'[c][end] = 1

LEMMA NewChannelReceipts ==
    ASSUME TypeOK, NEW c \in Chain, NEW end \in End, NEW channel,
           channels[c][end].state = "UNINITIALIZED_UNSPECIFIED",
           setChannel(c, end, channel), setNextSequenceRecv(c, end, 1),
           UNCHANGED packetReceipts, NEW d \in Chain, NEW x \in End
    PROVE  ReceiptsKept(d, x) \/ ReceiptsStarted(d, x)
<1>1. /\ channels \in [Chain -> [End -> ChannelEnd]]
      /\ nextSequenceRecvs \in [Chain -> [End -> Sequence]]
  BY DEF TypeOK, HostTypeOK, ChannelTypeOK, SequenceTypeOK
<1>2. CASE d = c /\ x = end
  BY <1>1, <1>2 DEF setNextSequenceRecv, ReceiptsStarted
<1>3. CASE ~ (d = c /\ x = end)
  BY <1>1, <1>3 DEF setChannel, setNextSequenceRecv, ReceiptsKept
<1> QED
  BY <1>2, <1>3

LEMMA OpenedChannelReceipts ==
    ASSUME TypeOK, NEW c \in Chain, NEW end \in End, NEW channel,
           channelFound(c, end), channel.state = "OPEN",
           channel.ordering = channels[c][end].ordering,
           setChannel(c, end, channel),
           UNCHANGED <<nextSequenceRecvs, packetReceipts>>,
           NEW d \in Chain, NEW x \in End
    PROVE  ReceiptsKept(d, x)
<1>1. channels \in [Chain -> [End -> ChannelEnd]]
  BY DEF TypeOK, HostTypeOK, ChannelTypeOK
<1> QED
  BY <1>1 DEF setChannel, channelFound, ReceiptsKept

LEMMA ChannelNextReceipts ==
    ASSUME ChannelInv, NEW c \in Chain, ChannelNext(c),
           NEW d \in Chain, NEW x \in End
    PROVE  ReceiptsKept(d, x) \/ ReceiptsStarted(d, x)
<1>1. TypeOK /\ UNCHANGED packetReceipts
  BY ChannelFrame DEF ChannelInv, packetVars
<1>2. CASE BindPort(c)
  BY <1>2 DEF BindPort, bindPort, channelVars, sequenceVars, packetVars,
              ReceiptsKept
<1>3. ASSUME NEW portId \in Port, NEW id \in ChannelId, NEW channel,
             openable(c, channel), generateChannelIdentifier(c, id),
             setChannel(c, <<portId, id>>, channel),
             setNextSequenceRecv(c, <<portId, id>>, 1)
      PROVE  ReceiptsKept(d, x) \/ ReceiptsStarted(d, x)
  <2>1. <<portId, id>> \in End
    BY DEF End
  <2>2. channels[c][<<portId, id>>].state = "UNINITIALIZED_UNSPECIFIED"
    BY <1>3 DEF ChannelInv, IdentifiersUnused, generateChannelIdentifier, ChannelId
  <2> QED
    BY <1>1, <1>3, <2>1, <2>2, NewChannelReceipts
<1>4. CASE ChannelOpenInit(c)
  <2>1. PICK portId \in Port, id \in ChannelId :
          \E channel \in ChannelInput("INIT") :
            channelOpenInit(c, portId, id, channel)
    BY <1>4 DEF ChannelOpenInit
  <2>2. PICK channel \in ChannelInput("INIT") :
          channelOpenInit(c, portId, id, channel)
    BY <2>1
  <2> QED
    BY <1>3, <2>2 DEF channelOpenInit, initSequences
<1>5. CASE ChannelOpenTry(c)
  <2>1. PICK portId \in Port, id \in ChannelId :
          \E channel \in ChannelInput("TRYOPEN"), version \in ChannelVersion,
             proofHeight \in 1 .. MaxHeight :
            channelOpenTry(c, portId, id, channel, version, proofHeight)
    BY <1>5 DEF ChannelOpenTry
  <2>2. PICK channel \in ChannelInput("TRYOPEN"), version \in ChannelVersion,
             proofHeight \in 1 .. MaxHeight :
          channelOpenTry(c, portId, id, channel, version, proofHeight)
    BY <2>1
  <2> QED
    BY <1>3, <2>2 DEF channelOpenTry, initSequences
<1>6. ASSUME NEW portId \in Port, NEW id \in ChannelId, NEW channel,
             channelFound(c, <<portId, id>>), channel.state = "OPEN",
             channel.ordering = channels[c][<<portId, id>>].ordering,
             setChannel(c, <<portId, id>>, channel), UNCHANGED nextSequenceRecvs
      PROVE  ReceiptsKept(d, x)
  <2>1. <<portId, id>> \in End
    BY DEF End
  <2> QED
    BY <1>1, <1>6, <2>1, OpenedChannelReceipts
<1>7. CASE ChannelOpenAck(c)
  <2>1. PICK portId \in Port, id \in ChannelId, counterpartyId \in ChannelId,
             version \in ChannelVersion, proofHeight \in 1 .. MaxHeight :
          channelOpenAck(c, portId, id, version, counterpartyId, proofHeight)
    BY <1>7 DEF ChannelOpenAck
  <2> DEFINE f == [channels[c][<<portId, id>>] EXCEPT
                     !.state = "OPEN", !.version = version,
                     !.counterparty.channel_id = counterpartyId]
  <2>2. f.state = "OPEN" /\ f.ordering = channels[c][<<portId, id>>].ordering
    BY <1>1 DEF TypeOK, HostTypeOK, ChannelTypeOK, ChannelEnd, End
  <2>3. /\ channelFound(c, <<portId, id>>) /\ setChannel(c, <<portId, id>>, f)
        /\ UNCHANGED nextSequenceRecvs
    BY <2>1 DEF channelOpenAck, sequenceVars
  <2> HIDE DEF f
  <2> QED
    BY <1>6, <2>2, <2>3
<1>8. CASE ChannelOpenConfirm(c)
  <2>1. PICK portId \in Port, id \in ChannelId, proofHeight \in 1 .. MaxHeight :
          channelOpenConfirm(c, portId, id, proofHeight)
    BY <1>8 DEF ChannelOpenConfirm
  <2> DEFINE f == [channels[c][<<portId, id>>] EXCEPT !.state = "OPEN"]
  <2>2. f.state = "OPEN" /\ f.ordering = channels[c][<<portId, id>>].ordering
    BY <1>1 DEF TypeOK, HostTypeOK, ChannelTypeOK, ChannelEnd, End
  <2>3. /\ channelFound(c, <<portId, id>>) /\ setChannel(c, <<portId, id>>, f)
        /\ UNCHANGED nextSequenceRecvs
    BY <2>1 DEF channelOpenConfirm, sequenceVars
  <2> HIDE DEF f
  <2> QED
    BY <1>6, <2>2, <2>3
<1> QED
  BY <1>2, <1>4, <1>5, <1>7, <1>8 DEF ChannelNext

\* recvPacket marks exactly the packet it receives, as the ordering asks for.
LEMMA RecvPacketReceipts ==
    ASSUME TypeOK, NEW c \in Chain, NEW packet \in Packet, RecvPacket(c, packet),
           NEW d \in Chain, NEW x \in End
    PROVE  \/ ~ (d = c /\ x = destination(packet)) /\ ReceiptsKept(d, x)
           \/ /\ d = c /\ x = destination(packet)
              /\ channels'[d][x] = channels[d][x]
              /\ channels[d][x].state = "OPEN"
              /\ \/ /\ channels[d][x].ordering = "ORDERED"
                    /\ nextSequenceRecvs[d][x] > 0
                    /\ nextSequenceRecvs[d][x] = packet.sequence
                    /\ nextSequenceRecvs'[d][x] = Increment(packet.sequence)
                 \/ /\ channels[d][x].ordering = "UNORDERED"
                    /\ packet.sequence \notin packetReceipts[d][x]
                    /\ packetReceipts'[d][x]
                         = packetReceipts[d][x] \cup {packet.sequence}
<1>1. /\ nextSequenceRecvs \in [Chain -> [End -> Sequence]]
      /\ packetReceipts \in [Chain -> [End -> SUBSET Sequence]]
      /\ destination(packet) \in End
  BY PacketFieldTypes DEF TypeOK, HostTypeOK, SequenceTypeOK, PacketTypeOK
<1>2. PICK height \in 1 .. MaxHeight : recvPacket(c, packet, height)
  BY DEF RecvPacket
<1>3. /\ UNCHANGED channels
      /\ channels[c][destination(packet)].state = "OPEN"
      /\ \/ /\ channels[c][destination(packet)].ordering = "UNORDERED"
            /\ receiveUnordered(c, destination(packet), packet.sequence)
         \/ /\ channels[c][destination(packet)].ordering = "ORDERED"
            /\ receiveOrdered(c, destination(packet), packet.sequence)
  BY <1>2 DEF recvPacket, channelVars
<1>4. CASE d = c /\ x = destination(packet)
  BY <1>1, <1>3, <1>4 DEF receiveUnordered, receiveOrdered, setPacketReceipt,
                          setNextSequenceRecv
<1>5. CASE ~ (d = c /\ x = destination(packet))
  BY <1>1, <1>3, <1>5 DEF receiveUnordered, receiveOrdered, setPacketReceipt,
                          setNextSequenceRecv, ReceiptsKept
<1> QED
  BY <1>4, <1>5
LEMMA ReceiptsNext ==
    ASSUME ChannelInv, [Next]_vars, NEW d \in Chain, NEW x \in End
    PROVE  \/ /\ ReceiptsKept(d, x) \/ ReceiptsStarted(d, x)
              /\ Received(d, x)' = Received(d, x)
           \/ \E packet \in Packet :
                /\ RecvPacket(d, packet) /\ destination(packet) = x
                /\ Received(d, x)' = Append(Received(d, x), packet)
<1> DEFINE Kept == ReceiptsKept(d, x) \/ ReceiptsStarted(d, x)
<1>1. TypeOK
  BY DEF ChannelInv
<1>2. ASSUME UNCHANGED <<channelVars, sequenceVars, packetVars>> PROVE Kept
  BY <1>2 DEF channelVars, sequenceVars, packetVars, ReceiptsKept
<1>3. UNCHANGED vars => Kept
  BY <1>2 DEF vars, hostVars
<1>4. ASSUME NEW c \in Chain, ClientNext(c) PROVE Kept
  BY <1>2, <1>4 DEF ClientNext, RegisterClient, registerClient, CreateClient,
                    createClient, UpdateClient, updateClient
<1>5. ASSUME NEW c \in Chain, ConnectionNext(c) PROVE Kept
  BY <1>2, <1>5, ConnectionFrame
<1>6. ASSUME NEW c \in Chain, ChannelNext(c) PROVE Kept
  BY <1>6, ChannelNextReceipts
<1>7. ASSUME NEW c \in Chain, SealBlock(c) PROVE Kept
  BY <1>2, <1>7 DEF SealBlock
<1>8. ASSUME NEW c \in Chain, SendPacket(c) PROVE Kept
  BY <1>8 DEF SendPacket, sendPacket, channelVars, ReceiptsKept
<1>9. ASSUME NEW c \in Chain, WriteAcknowledgement(c) PROVE Kept
  BY <1>9 DEF WriteAcknowledgement, channelVars, sequenceVars, ReceiptsKept
<1>10. ASSUME NEW c \in Chain, NEW packet \in Packet, AcknowledgePacket(c, packet)
       PROVE  Kept
  BY <1>10 DEF AcknowledgePacket, acknowledgePacket, channelVars, ReceiptsKept
<1>11. ASSUME NEW c \in Chain, NEW packet \in Packet, RecvPacket(c, packet)
       PROVE  Kept \/ (d = c /\ x = destination(packet))
  BY <1>1, <1>11, RecvPacketReceipts
<1> HIDE DEF Kept
<1>12. \/ Kept
       \/ \E packet \in Packet : RecvPacket(d, packet) /\ destination(packet) = x
  <2>1. ASSUME NEW c \in Chain, PacketNext(c)
        PROVE  \/ Kept
               \/ \E packet \in Packet :
                    RecvPacket(d, packet) /\ destination(packet) = x
    BY <1>8, <1>9, <1>10, <1>11, <2>1 DEF PacketNext
  <2> QED
    BY <1>3, <1>4, <1>5, <1>6, <1>7, <2>1 DEF Next
<1>13. ASSUME NEW packet \in Packet, RecvPacket(d, packet), destination(packet) = x
       PROVE  Received(d, x)' = Append(Received(d, x), packet)
  BY <1>1, <1>13, PacketFieldTypes DEF RecvPacket, emit, Received, TypeOK, EventTypeOK
<1>14. Received(d, x)' = Received(d, x) \/
         \E packet \in Packet : RecvPacket(d, packet) /\ destination(packet) = x
  BY <1>1, ReceivedGrows
<1> QED
  BY <1>12, <1>13, <1>14 DEF Kept

LEMMA ReceivedCountedStep ==
    ASSUME DeliveryInv, [Next]_vars PROVE ReceivedCounted'
<1> SUFFICES ASSUME NEW c \in Chain, NEW end \in End
    PROVE  IF channels'[c][end].ordering = "ORDERED"
           THEN /\ \A i \in DOMAIN Received(c, end)' :
                     Received(c, end)'[i].sequence = i
                /\ channels'[c][end].state # "UNINITIALIZED_UNSPECIFIED" =>
                     nextSequenceRecvs'[c][end] = Increment(Len(Received(c, end)'))
           ELSE /\ \A i \in DOMAIN Received(c, end)' :
                     Received(c, end)'[i].sequence \in packetReceipts'[c][end]
                /\ \A i, j \in DOMAIN Received(c, end)' :
                     Received(c, end)'[i].sequence = Received(c, end)'[j].sequence
                       => i = j
  BY DEF ReceivedCounted, Increment
<1> DEFINE s == Received(c, end)
<1>1. ChannelInv /\ TypeOK
  BY DEF DeliveryInv, PacketInv, ChannelInv
<1>2. s \in Seq(Packet)
  BY <1>1 DEF TypeOK, EventTypeOK, Received
<1>3. IF channels[c][end].ordering = "ORDERED"
      THEN /\ \A i \in DOMAIN s : s[i].sequence = i
           /\ channels[c][end].state # "UNINITIALIZED_UNSPECIFIED" =>
                nextSequenceRecvs[c][end] = Increment(Len(s))
      ELSE /\ \A i \in DOMAIN s : s[i].sequence \in packetReceipts[c][end]
           /\ \A i, j \in DOMAIN s : s[i].sequence = s[j].sequence => i = j
  BY DEF DeliveryInv, ReceivedCounted
<1>4. channels[c][end].state = "UNINITIALIZED_UNSPECIFIED" => DOMAIN s = {}
  BY DEF DeliveryInv, ReceivedWereSent, WasSent
<1>5. PICK t : t = Received(c, end)'
  OBVIOUS
<1>6. nextSequenceRecvs[c][end] \in Nat
  BY <1>1 DEF TypeOK, HostTypeOK, SequenceTypeOK, Sequence
<1> SUFFICES IF channels'[c][end].ordering = "ORDERED"
             THEN /\ \A i \in DOMAIN t : t[i].sequence = i
                  /\ channels'[c][end].state # "UNINITIALIZED_UNSPECIFIED" =>
                       nextSequenceRecvs'[c][end] = Increment(Len(t))
             ELSE /\ \A i \in DOMAIN t : t[i].sequence \in packetReceipts'[c][end]
                  /\ \A i, j \in DOMAIN t : t[i].sequence = t[j].sequence => i = j
  BY <1>5
<1>7. CASE ReceiptsKept(c, end) /\ t = s
  BY <1>3, <1>7 DEF ReceiptsKept
<1>8. CASE ReceiptsStarted(c, end) /\ t = s
  <2>1. DOMAIN s = {}
    BY <1>4, <1>8 DEF ReceiptsStarted
  <2>2. Len(s) = 0
    BY <1>2, <2>1
  <2>3. Increment(0) = 1
    BY NumberAssumption DEF Increment
  <2> HIDE DEF s
  <2> QED
    BY <1>8, <2>1, <2>2, <2>3 DEF ReceiptsStarted
<1>9. ASSUME NEW packet \in Packet, RecvPacket(c, packet),
             destination(packet) = end, t = Append(s, packet)
      PROVE  IF channels'[c][end].ordering = "ORDERED"
             THEN /\ \A i \in DOMAIN t : t[i].sequence = i
                  /\ channels'[c][end].state # "UNINITIALIZED_UNSPECIFIED" =>
                       nextSequenceRecvs'[c][end] = Increment(Len(t))
             ELSE /\ \A i \in DOMAIN t : t[i].sequence \in packetReceipts'[c][end]
                  /\ \A i, j \in DOMAIN t : t[i].sequence = t[j].sequence => i = j
  <2> HIDE DEF s
  <2>1. /\ Len(s) \in Nat
        /\ Len(t) = Len(s) + 1
        /\ \A i \in DOMAIN t : \/ i \in DOMAIN s /\ t[i] = s[i]
                               \/ i = Len(s) + 1 /\ t[i] = packet
    BY <1>2, <1>9, Grown
  <2>2. /\ channels'[c][end] = channels[c][end]
        /\ channels[c][end].state = "OPEN"
    BY <1>1, <1>9, RecvPacketReceipts
  <2>3. CASE channels[c][end].ordering = "ORDERED"
    <3>1. /\ nextSequenceRecvs[c][end] > 0
          /\ packet.sequence = nextSequenceRecvs[c][end]
          /\ nextSequenceRecvs'[c][end] = Increment(packet.sequence)
      BY <1>1, <1>9, <2>3, RecvPacketReceipts
    <3>2. packet.sequence = Len(s) + 1
      BY <1>3, <1>6, <2>1, <2>2, <2>3, <3>1 DEF Increment
    <3>3. \A i \in DOMAIN s : s[i].sequence = i
      BY <1>3, <2>3
    <3> HIDE DEF Increment
    <3> QED
      BY <2>1, <2>2, <2>3, <3>1, <3>2, <3>3
  <2>4. CASE channels[c][end].ordering # "ORDERED"
    <3>1. /\ packet.sequence \notin packetReceipts[c][end]
          /\ packetReceipts'[c][end] = packetReceipts[c][end] \cup {packet.sequence}
      BY <1>1, <1>9, <2>4, RecvPacketReceipts
    <3>2. /\ \A i \in DOMAIN s : s[i].sequence \in packetReceipts[c][end]
          /\ \A i, j \in DOMAIN s : s[i].sequence = s[j].sequence => i = j
      BY <1>3, <2>4
    <3> QED
      BY <2>1, <2>2, <2>4, <3>1, <3>2
  <2> QED
    BY <2>3, <2>4
<1> QED
  BY <1>1, <1>5, <1>7, <1>8, <1>9, ReceiptsNext

-----------------------------------------------------------------------------
(* What is answered                                                        *)

LEMMA AnswersNext ==
    ASSUME TypeOK, [Next]_vars, NEW c \in Chain, NEW end \in End,
           NEW n \in Sequence, packetAcks'[c][end][n] # packetAcks[c][end][n]
    PROVE  \/ \E i \in DOMAIN Received(c, end) : Received(c, end)[i].sequence = n
           \/ \E packet \in Packet :
                /\ RecvPacket(c, packet) /\ destination(packet) = end
                /\ packet.sequence = n
<1> DEFINE Answers(d, x, m) ==
             \A b \in Chain, y \in End, k \in Sequence :
               packetAcks'[b][y][k] # packetAcks[b][y][k] =>
                 b = d /\ y = x /\ k = m
<1>1. ASSUME NEW d \in Chain, NEW x \in End, NEW m \in Sequence, NEW ack,
             writeAcknowledgement(d, x, m, ack)
      PROVE  Answers(d, x, m)
  <2>1. packetAcks \in [Chain -> [End -> [Sequence -> Acknowledgement \cup {None}]]]
    BY DEF TypeOK, HostTypeOK, PacketTypeOK
  <2> QED
    BY <1>1, <2>1 DEF writeAcknowledgement, setPacketAcknowledgementCommitment
<1>2. UNCHANGED vars => UNCHANGED packetAcks
  BY DEF vars, hostVars, packetVars
<1>3. ASSUME NEW d \in Chain, ClientNext(d) PROVE UNCHANGED packetAcks
  BY <1>3 DEF ClientNext, RegisterClient, registerClient, CreateClient,
              createClient, UpdateClient, updateClient, packetVars
<1>4. ASSUME NEW d \in Chain, ConnectionNext(d) PROVE UNCHANGED packetAcks
  BY <1>4, ConnectionFrame DEF packetVars
<1>5. ASSUME NEW d \in Chain, ChannelNext(d) PROVE UNCHANGED packetAcks
  BY <1>5, ChannelFrame DEF packetVars
<1>6. ASSUME NEW d \in Chain, SendPacket(d) PROVE UNCHANGED packetAcks
  BY <1>6 DEF SendPacket, sendPacket
<1>7. ASSUME NEW d \in Chain, NEW packet \in Packet, AcknowledgePacket(d, packet)
      PROVE  UNCHANGED packetAcks
  BY <1>7 DEF AcknowledgePacket, acknowledgePacket
<1>8. ASSUME NEW d \in Chain, SealBlock(d) PROVE UNCHANGED packetAcks
  BY <1>8 DEF SealBlock, packetVars
<1>9. ASSUME NEW d \in Chain, NEW packet \in Packet, RecvPacket(d, packet)
      PROVE  d = c /\ destination(packet) = end /\ packet.sequence = n
  <2>1. PICK ack \in Returned :
          IF ack = None
          THEN UNCHANGED packetAcks
          ELSE writeAcknowledgement(d, destination(packet), packet.sequence, ack)
    BY <1>9 DEF RecvPacket
  <2>2. destination(packet) \in End /\ packet.sequence \in Sequence
    BY PacketFieldTypes
  <2> QED
    BY <1>1, <2>1, <2>2
<1>10. ASSUME NEW d \in Chain, WriteAcknowledgement(d)
       PROVE  \E i \in DOMAIN Received(c, end) : Received(c, end)[i].sequence = n
  <2>1. PICK x \in End :
          \E i \in DOMAIN recvEvents[d][x], ack \in Acknowledgement :
            writeAcknowledgement(d, x, recvEvents[d][x][i].sequence, ack)
    BY <1>10 DEF WriteAcknowledgement
  <2>2. PICK i \in DOMAIN recvEvents[d][x], ack \in Acknowledgement :
          writeAcknowledgement(d, x, recvEvents[d][x][i].sequence, ack)
    BY <2>1
  <2>3. recvEvents[d][x] \in Seq(Packet)
    BY DEF TypeOK, EventTypeOK
  <2>4. recvEvents[d][x][i] \in Packet
    BY <2>3
  <2>5. recvEvents[d][x][i].sequence \in Sequence
    BY <2>4, PacketFieldTypes
  <2>6. Answers(d, x, recvEvents[d][x][i].sequence)
    BY <1>1, <2>2, <2>5
  <2> QED
    BY <2>2, <2>6 DEF Received
<1>11. ASSUME NEW d \in Chain, PacketNext(d)
       PROVE  \/ UNCHANGED packetAcks
              \/ \E packet \in Packet : RecvPacket(d, packet)
              \/ WriteAcknowledgement(d)
  BY <1>6, <1>7, <1>11 DEF PacketNext
<1> QED
  BY <1>2, <1>3, <1>4, <1>5, <1>8, <1>9, <1>10, <1>11 DEF Next

LEMMA AnsweredWereReceivedStep ==
    ASSUME DeliveryInv, [Next]_vars PROVE AnsweredWereReceived'
<1> SUFFICES ASSUME NEW c \in Chain, NEW end \in End, NEW n \in Sequence,
                    packetAcks'[c][end][n] # None
             PROVE  \E i \in DOMAIN Received(c, end)' :
                      Received(c, end)'[i].sequence = n
  BY DEF AnsweredWereReceived
<1>1. TypeOK
  BY DEF DeliveryInv, PacketInv, ChannelInv
<1>2. CASE \E i \in DOMAIN Received(c, end) : Received(c, end)[i].sequence = n
  BY <1>1, <1>2, ReceivedNext
<1>3. ASSUME NEW packet \in Packet, RecvPacket(c, packet),
             destination(packet) = end, packet.sequence = n
      PROVE  \E i \in DOMAIN Received(c, end)' : Received(c, end)'[i].sequence = n
  <2>1. Received(c, end) \in Seq(Packet)
    BY <1>1 DEF TypeOK, EventTypeOK, Received
  <2>2. Received(c, end)' = Append(Received(c, end), packet)
    BY <1>1, <1>3 DEF RecvPacket, emit, Received, TypeOK, EventTypeOK
  <2>3. PICK m : m = Len(Received(c, end)) + 1
    OBVIOUS
  <2>4. m \in DOMAIN Received(c, end)' /\ Received(c, end)'[m] = packet
    BY <2>1, <2>2, <2>3
  <2> QED
    BY <1>3, <2>4
<1>4. CASE packetAcks[c][end][n] # None
  BY <1>2, <1>4 DEF DeliveryInv, AnsweredWereReceived
<1> QED
  BY <1>1, <1>2, <1>3, <1>4, AnswersNext

LEMMA SealedAnswersFinalStep ==
    ASSUME DeliveryInv, [Next]_vars PROVE SealedAnswersFinal'
<1> SUFFICES ASSUME NEW c \in Chain, NEW end \in End, NEW n \in Sequence,
                    NEW h \in 1 .. Len(blocks'[c]),
                    blocks'[c][h].acks[end][n] # None
             PROVE  packetAcks'[c][end][n] = blocks'[c][h].acks[end][n]
  BY DEF SealedAnswersFinal
<1>1. TypeOK
  BY DEF DeliveryInv, PacketInv, ChannelInv
<1>2. packetAcks[c][end][n] = blocks'[c][h].acks[end][n]
  <2>1. CASE h \in 1 .. Len(blocks[c]) /\ blocks'[c][h] = blocks[c][h]
    BY <2>1 DEF DeliveryInv, SealedAnswersFinal
  <2>2. CASE blocks'[c][h] = Store(c)
    BY <2>2 DEF Store
  <2> QED
    BY <1>1, <2>1, <2>2, BlocksKept
<1> QED
  BY <1>1, <1>2, AcknowledgementStep
-----------------------------------------------------------------------------
(* What is acknowledged                                                    *)

LEMMA ReceivedPackets ==
    ASSUME DeliveryInv, NEW c \in Chain, NEW end \in End,
           NEW i \in DOMAIN Received(c, end)
    PROVE  /\ Received(c, end)[i] \in Packet
           /\ WasSent(c, end, Received(c, end)[i])
<1>1. recvEvents[c][end] \in Seq(Packet)
  BY DEF DeliveryInv, PacketInv, ChannelInv, TypeOK, EventTypeOK
<1> QED
  BY <1>1 DEF DeliveryInv, ReceivedWereSent, Received

\* acknowledgePacket's checks: the answer that a proof shows is the answer to
\* the packet that was sent with this sequence, which is the one acknowledged.
LEMMA VerifiedAnswer ==
    ASSUME Paired, DeliveryInv, NEW c \in Chain, NEW packet \in Packet,
           NEW ack \in Acknowledgement, NEW height,
           acknowledgePacket(c, packet, ack, height)
    PROVE  WasAnswered(c, source(packet), [packet |-> packet, ack |-> ack])
<1> DEFINE end == source(packet)
           to == destination(packet)
           n == packet.sequence
           d == peerChain(c, end)
<1>1. end \in End /\ to \in End /\ n \in Sequence
  BY PacketFieldTypes
<1>2. /\ channels[c][end].state = "OPEN"
      /\ to = counterpartyEnd(channels[c][end])
      /\ packetCommitments[c][end][n] = makePacketCommitment(packet)
      /\ verifyPacketAcknowledgement(c, channelConnection(c, end).client_id,
           height, channelConnection(c, end).counterparty.prefix, to, n, ack)
  BY DEF acknowledgePacket
<1>3. AgreementInv
  BY DEF DeliveryInv
<1>4. /\ d \in Chain
      /\ counterpartyEnd(channels[d][to]) = end
      /\ peerChainOf(d, channels[d][to]) = c
  BY <1>1, <1>2, <1>3, OpenChannelPeer DEF peerChannel
<1>5. peerChain(d, to) = c
  BY <1>1, <1>4, PeerNames
<1>6. ack # None /\ makePacketCommitment(packet) # None
  BY PacketFieldTypes, SlotAssumption
<1>7. end = source(packet) /\ to = destination(packet) /\ n = packet.sequence
  OBVIOUS
<1> HIDE DEF end, to, n, d
<1>8. /\ height \in 1 .. Len(blocks[d])
      /\ blocks[d][height].acks[to][n] = ack
  BY <1>1, <1>2, <1>3, PeerBlock DEF verifyPacketAcknowledgement, d
<1>9. packetAcks[d][to][n] = ack
  BY <1>1, <1>4, <1>6, <1>8 DEF DeliveryInv, SealedAnswersFinal
<1>10. PICK i \in DOMAIN Received(d, to) : Received(d, to)[i].sequence = n
  BY <1>1, <1>4, <1>6, <1>9 DEF DeliveryInv, AnsweredWereReceived
<1>11. /\ n \in DOMAIN Sent(c, end)
       /\ Sent(c, end)[n] = Received(d, to)[i]
  <2>1. WasSent(d, to, Received(d, to)[i])
    BY <1>1, <1>4, <1>10, ReceivedPackets
  <2>2. sentByPeer(d, to) = Sent(c, end)
    BY <1>4, <1>5 DEF sentByPeer, Sent
  <2> QED
    BY <1>10, <2>1, <2>2 DEF WasSent
<1>12. makePacketCommitment(Sent(c, end)[n]) = makePacketCommitment(packet)
  BY <1>1, <1>2, <1>6
  DEF DeliveryInv, PacketInv, CommittedUntilAcknowledged, Sent
<1>13. /\ Sent(c, end)[n] \in Packet
       /\ Sent(c, end)[n].sequence = n
       /\ source(Sent(c, end)[n]) = end
       /\ destination(Sent(c, end)[n]) = to
  BY <1>1, <1>2, <1>11, SentPackets
<1>14. Received(d, to)[i] = packet
  BY <1>7, <1>11, <1>12, <1>13, SamePacket
<1>15. packet \in Range(Received(d, to))
  BY <1>10, <1>14 DEF Range
<1> QED
  BY <1>2, <1>6, <1>7, <1>9, <1>15 DEF WasAnswered, d

LEMMA WasAnsweredKept ==
    ASSUME Paired, DeliveryInv, [Next]_vars, NEW c \in Chain, NEW end \in End,
           NEW packet \in Packet, NEW ack,
           WasAnswered(c, end, [packet |-> packet, ack |-> ack])
    PROVE  WasAnswered(c, end, [packet |-> packet, ack |-> ack])'
<1> DEFINE to == destination(packet)
           n == packet.sequence
<1>1. AgreementInv /\ TypeOK
  BY DEF DeliveryInv, AgreementInv, ChannelInv
<1>2. /\ channels[c][end].state = "OPEN"
      /\ packet \in Range(Received(peerChain(c, end), to))
      /\ ack # None
      /\ packetAcks[peerChain(c, end)][to][n] = ack
  BY DEF WasAnswered
<1>3. PICK d \in Chain : d = peerChain(c, end)
  BY <1>1, <1>2, OpenChannelPeer
<1>4. channels'[c][end] = channels[c][end] /\ peerChain(c, end)' = d
  BY <1>1, <1>2, <1>3, OpenPeerKept
<1>5. to \in End /\ n \in Sequence
  BY PacketFieldTypes
<1> HIDE DEF to, n
<1>6. PICK i \in DOMAIN Received(d, to) : Received(d, to)[i] = packet
  BY <1>2, <1>3 DEF Range
<1>7. i \in DOMAIN Received(d, to)' /\ Received(d, to)'[i] = packet
  BY <1>1, <1>5, <1>6, ReceivedNext
<1>8. packet \in Range(Received(d, to)')
  BY <1>7 DEF Range
<1>9. packetAcks'[d][to][n] = ack
  BY <1>1, <1>2, <1>3, <1>5, AcknowledgementStep
<1>10. packet \in Range(recvEvents'[d][to])
  BY <1>8 DEF Received
<1> QED
  BY <1>2, <1>4, <1>9, <1>10 DEF WasAnswered, Received, to, n, destination

LEMMA AckedWereAnsweredStep ==
    ASSUME Paired, DeliveryInv, [Next]_vars PROVE AckedWereAnswered'
<1> SUFFICES ASSUME NEW c \in Chain, NEW end \in End,
                    NEW i \in DOMAIN AckedEvents(c, end)'
             PROVE  WasAnswered(c, end, AckedEvents(c, end)[i])'
  BY DEF AckedWereAnswered
<1>1. TypeOK
  BY DEF DeliveryInv, PacketInv, ChannelInv
<1>2. PICK a : a = AckedEvents(c, end)'[i]
  OBVIOUS
<1>3. \/ i \in DOMAIN AckedEvents(c, end) /\ a = AckedEvents(c, end)[i]
      \/ \E packet \in Packet, ack \in Acknowledgement, height \in 1 .. MaxHeight :
           /\ acknowledgePacket(c, packet, ack, height) /\ source(packet) = end
           /\ a = [packet |-> packet, ack |-> ack]
  BY <1>1, <1>2, AckedNext
<1>4. WasAnswered(c, end, a) /\ a \in [packet : Packet, ack : Acknowledgement]
  <2>1. CASE i \in DOMAIN AckedEvents(c, end) /\ a = AckedEvents(c, end)[i]
    <3> DEFINE Event == [packet : Packet, ack : Acknowledgement]
    <3>1. AckedEvents(c, end) \in Seq(Event)
      BY <1>1 DEF TypeOK, EventTypeOK, AckedEvents
    <3>2. a \in Event
      <4> HIDE DEF Event
      <4> QED
        BY <2>1, <3>1
    <3> QED
      BY <2>1, <3>2 DEF DeliveryInv, AckedWereAnswered
  <2>2. ASSUME NEW packet \in Packet, NEW ack \in Acknowledgement,
               NEW height \in 1 .. MaxHeight,
               acknowledgePacket(c, packet, ack, height), source(packet) = end,
               a = [packet |-> packet, ack |-> ack]
        PROVE  WasAnswered(c, end, a)
    BY <2>2, VerifiedAnswer
  <2> QED
    BY <1>3, <2>1, <2>2
<1>5. a = [packet |-> a.packet, ack |-> a.ack] /\ a.packet \in Packet
  BY <1>4
<1>6. WasAnswered(c, end, a)'
  BY <1>4, <1>5, WasAnsweredKept
<1> QED
  BY <1>2, <1>6 DEF WasAnswered

\* A second acknowledgement finds no commitment.
LEMMA AckedDistinctStep ==
    ASSUME DeliveryInv, [Next]_vars PROVE AckedDistinct'
<1> SUFFICES ASSUME NEW c \in Chain, NEW end \in End,
                    NEW i \in DOMAIN AckedEvents(c, end)',
                    NEW j \in DOMAIN AckedEvents(c, end)',
                    AckedEvents(c, end)'[i].packet.sequence
                      = AckedEvents(c, end)'[j].packet.sequence
             PROVE  i = j
  BY DEF AckedDistinct
<1> DEFINE Old(k) == /\ k \in DOMAIN AckedEvents(c, end)
                     /\ AckedEvents(c, end)'[k] = AckedEvents(c, end)[k]
           New(k) == /\ k = Len(AckedEvents(c, end)) + 1
                     /\ \A m \in DOMAIN AckedEvents(c, end) :
                          AckedEvents(c, end)[m].packet.sequence
                            # AckedEvents(c, end)'[k].packet.sequence
<1>1. TypeOK
  BY DEF DeliveryInv, PacketInv, ChannelInv
<1>2. ASSUME NEW k \in DOMAIN AckedEvents(c, end)' PROVE Old(k) \/ New(k)
  <2>1. ASSUME NEW packet \in Packet, NEW ack \in Acknowledgement,
               NEW height \in 1 .. MaxHeight,
               acknowledgePacket(c, packet, ack, height), source(packet) = end,
               AckedEvents(c, end)'[k] = [packet |-> packet, ack |-> ack],
               k = Len(AckedEvents(c, end)) + 1
        PROVE  New(k)
    <3>1. /\ packet.sequence \in Sequence
          /\ makePacketCommitment(packet) # None
      BY PacketFieldTypes, SlotAssumption
    <3>2. packetCommitments[c][end][packet.sequence] # None
      BY <2>1, <3>1 DEF acknowledgePacket
    <3>3. \A m \in DOMAIN AckedEvents(c, end) :
            AckedEvents(c, end)[m].packet.sequence # packet.sequence
      BY <3>1, <3>2
      DEF DeliveryInv, PacketInv, CommittedUntilAcknowledged, AckedEvents
    <3>4. AckedEvents(c, end)'[k].packet = packet
      BY <2>1
    <3> QED
      BY <2>1, <3>3, <3>4
  <2> QED
    BY <1>1, <2>1, AckedNext
<1>3. CASE Old(i) /\ Old(j)
  BY <1>3 DEF DeliveryInv, AckedDistinct
<1>4. (Old(i) /\ New(j)) \/ (New(i) /\ Old(j)) => FALSE
  OBVIOUS
<1>5. New(i) /\ New(j) => i = j
  OBVIOUS
<1> QED
  BY <1>2, <1>3, <1>4, <1>5

-----------------------------------------------------------------------------
(* The specification                                                       *)

LEMMA DeliveryInit == Init => DeliveryInv
<1> SUFFICES ASSUME Init PROVE DeliveryInv
  OBVIOUS
<1>1. \A c \in Chain, end \in End :
        /\ channels[c][end] = NoChannel
        /\ Sent(c, end) = <<>> /\ Received(c, end) = <<>>
        /\ AckedEvents(c, end) = <<>>
        /\ \A n \in Sequence : packetAcks[c][end][n] = None
  BY DEF Init, HostInit, Sent, Received, AckedEvents
<1>2. ASSUME NEW c \in Chain, NEW end \in End, NEW n \in Sequence,
             NEW h \in 1 .. Len(blocks[c])
      PROVE  blocks[c][h].packets[end][n] = None /\ blocks[c][h].acks[end][n] = None
  <2>1. /\ Len(blocks[c]) = 1
        /\ blocks[c][1].packets = packetCommitments[c]
        /\ blocks[c][1].acks = packetAcks[c]
    BY DEF Init, HostInit, Store
  <2>2. h = 1
    BY <2>1
  <2> QED
    BY <2>1, <2>2 DEF Init, HostInit
<1>3. SentAddressed /\ ReceivedWereSent /\ AckedWereAnswered /\ AckedDistinct
  BY <1>1 DEF SentAddressed, ReceivedWereSent, AckedWereAnswered, AckedDistinct
<1>4. SealedPacketsSent /\ SealedAnswersFinal /\ AnsweredWereReceived
  BY <1>1, <1>2 DEF SealedPacketsSent, SealedAnswersFinal, AnsweredWereReceived
<1>5. ReceivedCounted
  BY <1>1 DEF ReceivedCounted, NoChannel
<1> QED
  BY <1>3, <1>4, <1>5, AgreementInit, PacketInit DEF DeliveryInv

LEMMA DeliveryStep ==
    ASSUME Paired, DeliveryInv, [Next]_vars PROVE DeliveryInv'
<1>1. AgreementInv' /\ PacketInv'
  BY AgreementStep, PacketStep DEF DeliveryInv
<1> QED
  BY <1>1, SentAddressedStep, SealedPacketsSentStep, ReceivedWereSentStep,
     ReceivedCountedStep, AnsweredWereReceivedStep, SealedAnswersFinalStep,
     AckedWereAnsweredStep, AckedDistinctStep
  DEF DeliveryInv

\* Between paired chains the checks of recvPacket and acknowledgePacket, each
\* against a proof of some sealed block, keep what one end was told of a packet
\* in step with what the other end did with it.
THEOREM DeliveryInvariant == Paired => (Spec => []DeliveryInv)
<1> SUFFICES ASSUME Paired PROVE Spec => []DeliveryInv
  OBVIOUS
<1>1. Init => DeliveryInv
  BY DeliveryInit
<1>2. DeliveryInv /\ [Next]_vars => DeliveryInv'
  BY DeliveryStep
<1> QED
  BY <1>1, <1>2, PTL DEF Spec

LEMMA ReceivedDistinct ==
    ASSUME DeliveryInv, NEW c \in Chain, NEW end \in End,
           NEW i \in DOMAIN Received(c, end), NEW j \in DOMAIN Received(c, end),
           Received(c, end)[i].sequence = Received(c, end)[j].sequence
    PROVE  i = j
BY DEF DeliveryInv, ReceivedCounted

\* Between paired chains every packet that recvPacket accepts was sent, as it
\* is, over the other end of the channel, and none is accepted twice: stale
\* proofs and repeated submissions included, on channels of either ordering.
THEOREM PacketsReceivedOnce == Paired => (Spec => []ReceivedOnce)
<1> SUFFICES ASSUME Paired PROVE Spec => []ReceivedOnce
  OBVIOUS
<1>1. ASSUME DeliveryInv PROVE ReceivedOnce
  <2> SUFFICES ASSUME NEW c \in Chain, NEW end \in End
               PROVE  /\ Range(Received(c, end)) \subseteq Range(sentByPeer(c, end))
                      /\ \A i, j \in DOMAIN Received(c, end) :
                           Received(c, end)[i].sequence = Received(c, end)[j].sequence
                             => i = j
    BY DEF ReceivedOnce, Received
  <2>1. ASSUME NEW i \in DOMAIN Received(c, end)
        PROVE  Received(c, end)[i] \in Range(sentByPeer(c, end))
    BY <1>1, ReceivedPackets DEF WasSent, Range
  <2>2. Range(Received(c, end)) \subseteq Range(sentByPeer(c, end))
    BY <2>1 DEF Range
  <2> QED
    BY <1>1, <2>2, ReceivedDistinct
<1> QED
  BY <1>1, DeliveryInvariant, PTL

\* Between paired chains what an end of an ORDERED channel has received is, at
\* every moment, a prefix of what the other end has sent.
THEOREM OrderedPacketsInOrder == Paired => (Spec => []OrderedDelivery)
<1> SUFFICES ASSUME Paired PROVE Spec => []OrderedDelivery
  OBVIOUS
<1>1. ASSUME DeliveryInv PROVE OrderedDelivery
  <2> SUFFICES ASSUME NEW c \in Chain, NEW end \in End,
                      channels[c][end].ordering = "ORDERED",
                      recvEvents[c][end] # <<>>
               PROVE  IsPrefix(recvEvents[c][end], sentByPeer(c, end))
    BY DEF OrderedDelivery
  <2>1. /\ recvEvents \in [Chain -> [End -> Seq(Packet)]]
        /\ sendEvents \in [Chain -> [End -> Seq(Packet)]]
    BY <1>1 DEF DeliveryInv, PacketInv, ChannelInv, TypeOK, EventTypeOK
  <2>2. PICK s : s = recvEvents[c][end]
    OBVIOUS
  <2>3. PICK t : t = sentByPeer(c, end)
    OBVIOUS
  <2>4. s \in Seq(Packet) /\ s # <<>>
    BY <2>1, <2>2
  <2>5. ASSUME NEW i \in DOMAIN s
        PROVE  /\ channels[c][end].state = "OPEN"
               /\ i \in DOMAIN t /\ t[i] = s[i]
    <3>1. WasSent(c, end, s[i])
      BY <1>1, <2>2, ReceivedPackets DEF Received
    <3>2. s[i].sequence = i
      BY <1>1, <2>2 DEF DeliveryInv, ReceivedCounted, Received
    <3> QED
      BY <2>3, <3>1, <3>2 DEF WasSent
  <2>6. Len(s) \in Nat /\ Len(s) # 0 /\ DOMAIN s = 1 .. Len(s)
    BY <2>4
  <2>7. channels[c][end].state = "OPEN"
    BY <2>5, <2>6
  <2>8. t \in Seq(Packet)
    <3>1. AgreementInv
      BY <1>1 DEF DeliveryInv
    <3>2. /\ peerChain(c, end) \in Chain
          /\ counterpartyEnd(channels[c][end]) \in End
      BY <2>7, <3>1, OpenChannelPeer
    <3> QED
      BY <2>1, <2>3, <3>2 DEF sentByPeer
  <2>9. Len(s) <= Len(t)
    <3>1. Len(s) \in DOMAIN t
      BY <2>5, <2>6
    <3>2. DOMAIN t = 1 .. Len(t) /\ Len(t) \in Nat
      BY <2>8
    <3> QED
      BY <2>6, <3>1, <3>2
  <2>10. s = SubSeq(t, 1, Len(s))
    <3>1. /\ SubSeq(t, 1, Len(s)) \in Seq(Packet)
          /\ Len(SubSeq(t, 1, Len(s))) = Len(s)
          /\ \A i \in 1 .. Len(s) : SubSeq(t, 1, Len(s))[i] = t[i]
      BY <2>6, <2>8, <2>9
    <3> QED
      BY <2>4, <2>5, <2>6, <3>1
  <2> QED
    BY <2>2, <2>3, <2>9, <2>10 DEF IsPrefix
<1> QED
  BY <1>1, DeliveryInvariant, PTL

\* Between paired chains an application hears of an acknowledgement at most
\* once per packet, and then of the one that the application which received
\* this packet gave.
THEOREM AnswersHeardOnce == Paired => (Spec => []AcknowledgedOnce)
<1> SUFFICES ASSUME Paired PROVE Spec => []AcknowledgedOnce
  OBVIOUS
<1>1. ASSUME DeliveryInv PROVE AcknowledgedOnce
  <2>1. AckedDistinct /\ AckedWereAnswered
    BY <1>1 DEF DeliveryInv
  <2>2. ASSUME NEW c \in Chain, NEW end \in End, NEW i \in DOMAIN ackEvents[c][end]
        PROVE  LET a == ackEvents[c][end][i]
                   e == destination(a.packet)
               IN /\ a.packet \in Range(recvEvents[peerChain(c, end)][e])
                  /\ a.ack = packetAcks[peerChain(c, end)][e][a.packet.sequence]
    BY ONLY <2>1, <2>2 DEF AckedWereAnswered, WasAnswered, AckedEvents, Received
  <2>3. ASSUME NEW c \in Chain, NEW end \in End,
               NEW i \in DOMAIN ackEvents[c][end], NEW j \in DOMAIN ackEvents[c][end],
               ackEvents[c][end][i].packet.sequence
                 = ackEvents[c][end][j].packet.sequence
        PROVE  i = j
    BY ONLY <2>1, <2>3 DEF AckedDistinct, AckedEvents
  <2> QED
    BY ONLY <2>2, <2>3 DEF AcknowledgedOnce
<1> QED
  BY <1>1, DeliveryInvariant, PTL
===============================================================================
