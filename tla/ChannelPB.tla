----------------------------- MODULE ChannelPB ------------------------------
(***************************************************************************)
(* Messages of pkg/ibc/channel: channel ends, packets and heights.  Each   *)
(* message has its fields, the encoder and its size, and the body of the   *)
(* loop of its decoder.                                                    *)
(***************************************************************************)
EXTENDS ProtoCodec

Height ==
    <<Uint64(1, "revision_number"), Uint64(2, "revision_height")>>
Height_Size(m) == Size(Height, m)
Height_Marshal(m) == Marshal(Height, m, Height_Size(m))
Height_Unmarshal(s) == UnmarshalField(Height, s)

Channel_Counterparty ==
    <<Bytes(1, "port_id"), Bytes(2, "channel_id")>>
Channel_Counterparty_Size(m) == Size(Channel_Counterparty, m)
Channel_Counterparty_Marshal(m) == Marshal(Channel_Counterparty, m, Channel_Counterparty_Size(m))
Channel_Counterparty_Unmarshal(s) == UnmarshalField(Channel_Counterparty, s)

\* The number of values declared for the two enumerations.
Channel_State == 5
Channel_Order == 3

\* A channel: what the handshake is about, and how its packets travel.
Channel_terms ==
    <<Enum(1, "state", Channel_State), Enum(2, "ordering", Channel_Order),
      Message(3, "counterparty", Channel_Counterparty)>>
Channel_route == <<RepeatedBytes(4, "connection_hops"), Bytes(5, "version")>>
Channel == Channel_terms \o Channel_route
Channel_Size(m) == Size(Channel, m)
Channel_Marshal(m) == Marshal(Channel, m, Channel_Size(m))
Channel_Unmarshal(s) == UnmarshalField(Channel, s)

\* A channel with the key it is stored under.
Channel_IdentifiedChannel_key == <<Bytes(6, "port_id"), Bytes(7, "channel_id")>>
Channel_IdentifiedChannel == Channel \o Channel_IdentifiedChannel_key
Channel_IdentifiedChannel_Size(m) == Size(Channel_IdentifiedChannel, m)
Channel_IdentifiedChannel_Marshal(m) == Marshal(Channel_IdentifiedChannel, m, Channel_IdentifiedChannel_Size(m))
Channel_IdentifiedChannel_Unmarshal(s) == UnmarshalField(Channel_IdentifiedChannel, s)

\* A packet: its number and source, its destination, what it carries, and when
\* it expires.
Packet_source ==
    <<Uint64(1, "sequence"), Bytes(2, "source_port"), Bytes(3, "source_channel")>>
Packet_destination ==
    <<Bytes(4, "destination_port"), Bytes(5, "destination_channel")>>
Packet_data == <<Bytes(6, "data")>>
Packet_timeout ==
    <<Message(7, "timeout_height", Height), Uint64(8, "timeout_timestamp")>>
Packet == Packet_source \o Packet_destination \o Packet_data \o Packet_timeout
Packet_Size(m) == Size(Packet, m)
Packet_Marshal(m) == Marshal(Packet, m, Packet_Size(m))
Packet_Unmarshal(s) == UnmarshalField(Packet, s)

PacketState ==
    <<Bytes(1, "port_id"), Bytes(2, "channel_id"), Uint64(3, "sequence"),
      Bytes(4, "data")>>
PacketState_Size(m) == Size(PacketState, m)
PacketState_Marshal(m) == Marshal(PacketState, m, PacketState_Size(m))
PacketState_Unmarshal(s) == UnmarshalField(PacketState, s)
=============================================================================
