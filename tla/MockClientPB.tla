---------------------------- MODULE MockClientPB ----------------------------
(***************************************************************************)
(* Messages of pkg/ibc/client/mock: the states and headers of the mock     *)
(* client.  Each message has its fields, the encoder and its size, and the *)
(* body of the loop of its decoder.                                        *)
(***************************************************************************)
EXTENDS ProtoCodec

ClientState ==
    <<Uint64(1, "latest_height")>>
ClientState_Size(m) == Size(ClientState, m)
ClientState_Marshal(m) == Marshal(ClientState, m, ClientState_Size(m))
ClientState_Unmarshal(s) == UnmarshalField(ClientState, s)

ConsensusState ==
    <<Uint64(1, "timestamp")>>
ConsensusState_Size(m) == Size(ConsensusState, m)
ConsensusState_Marshal(m) == Marshal(ConsensusState, m, ConsensusState_Size(m))
ConsensusState_Unmarshal(s) == UnmarshalField(ConsensusState, s)

Header ==
    <<Uint64(1, "height"), Uint64(2, "timestamp")>>
Header_Size(m) == Size(Header, m)
Header_Marshal(m) == Marshal(Header, m, Header_Size(m))
Header_Unmarshal(s) == UnmarshalField(Header, s)
=============================================================================
