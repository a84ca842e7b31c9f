------------------------------ MODULE IBFT2PB -------------------------------
(***************************************************************************)
(* Messages of pkg/ibc/client/ibft2: the states and headers of the light   *)
(* client.  Each message has its fields, the encoder and its size, and the *)
(* body of the loop of its decoder.                                        *)
(***************************************************************************)
EXTENDS ProtoCodec

ClientState ==
    <<Bytes(1, "chain_id"), Bytes(2, "ibc_store_address"),
      Uint64(3, "latest_height")>>
ClientState_Size(m) == Size(ClientState, m)
ClientState_Marshal(m) == Marshal(ClientState, m, ClientState_Size(m))
ClientState_Unmarshal(s) == UnmarshalField(ClientState, s)

ConsensusState ==
    <<Uint64(1, "timestamp"), Bytes(2, "root"),
      RepeatedBytes(3, "validators")>>
ConsensusState_Size(m) == Size(ConsensusState, m)
ConsensusState_Marshal(m) == Marshal(ConsensusState, m, ConsensusState_Size(m))
ConsensusState_Unmarshal(s) == UnmarshalField(ConsensusState, s)

Header ==
    <<Bytes(1, "besu_header_rlp"), RepeatedBytes(2, "seals"),
      Uint64(3, "trusted_height"), Bytes(4, "account_state_proof")>>
Header_Size(m) == Size(Header, m)
Header_Marshal(m) == Marshal(Header, m, Header_Size(m))
Header_Unmarshal(s) == UnmarshalField(Header, s)
=============================================================================
