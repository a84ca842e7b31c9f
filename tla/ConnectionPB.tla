---------------------------- MODULE ConnectionPB ----------------------------
(***************************************************************************)
(* Messages of pkg/ibc/connection: connection ends and versions.  Each     *)
(* message has its fields, the encoder and its size, and the body of the   *)
(* loop of its decoder.                                                    *)
(***************************************************************************)
EXTENDS ProtoCodec

MerklePrefix ==
    <<Bytes(1, "key_prefix")>>
MerklePrefix_Size(m) == Size(MerklePrefix, m)
MerklePrefix_Marshal(m) == Marshal(MerklePrefix, m, MerklePrefix_Size(m))
MerklePrefix_Unmarshal(s) == UnmarshalField(MerklePrefix, s)

Counterparty ==
    <<Bytes(1, "client_id"), Bytes(2, "connection_id"),
      Pointer(3, "prefix", MerklePrefix)>>
Counterparty_Size(m) == Size(Counterparty, m)
Counterparty_Marshal(m) == Marshal(Counterparty, m, Counterparty_Size(m))
Counterparty_Unmarshal(s) == UnmarshalField(Counterparty, s)

Version ==
    <<Bytes(1, "identifier"), RepeatedBytes(2, "features")>>
Version_Size(m) == Size(Version, m)
Version_Marshal(m) == Marshal(Version, m, Version_Size(m))
Version_Unmarshal(s) == UnmarshalField(Version, s)

\* The number of values declared for the enumeration.
ConnectionEnd_State == 4

\* A connection end: its own side, and the side it is connected to.
ConnectionEnd_self ==
    <<Bytes(1, "client_id"), Repeated(2, "versions", Version),
      Enum(3, "state", ConnectionEnd_State)>>
ConnectionEnd_other ==
    <<Pointer(4, "counterparty", Counterparty), Uint64(5, "delay_period")>>
ConnectionEnd == ConnectionEnd_self \o ConnectionEnd_other
ConnectionEnd_Size(m) == Size(ConnectionEnd, m)
ConnectionEnd_Marshal(m) == Marshal(ConnectionEnd, m, ConnectionEnd_Size(m))
ConnectionEnd_Unmarshal(s) == UnmarshalField(ConnectionEnd, s)
=============================================================================
