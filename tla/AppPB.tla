------------------------------- MODULE AppPB --------------------------------
(***************************************************************************)
(* The packet data of pkg/ibc/app: a token transfer.  Each message has its *)
(* fields, the encoder and its size, and the body of the loop of its       *)
(* decoder.                                                                *)
(***************************************************************************)
EXTENDS ProtoCodec

FungibleTokenPacketData ==
    <<Bytes(1, "denom"), Uint64(2, "amount"), Bytes(3, "sender"),
      Bytes(4, "receiver")>>
FungibleTokenPacketData_Size(m) == Size(FungibleTokenPacketData, m)
FungibleTokenPacketData_Marshal(m) == Marshal(FungibleTokenPacketData, m, FungibleTokenPacketData_Size(m))
FungibleTokenPacketData_Unmarshal(s) == UnmarshalField(FungibleTokenPacketData, s)
=============================================================================
