---------------------------- MODULE MessageCodec ----------------------------
(***************************************************************************)
(* A message on its way between a Go program and a contract.  The sender   *)
(* encodes it; a sender of a newer version adds a field that the reader    *)
(* does not know, or the bytes are damaged or cut short.  The reader in Go *)
(* decodes them field by field, one step per turn of the loop of           *)
(* Unmarshal; the contract decodes the same bytes in one transaction.      *)
(***************************************************************************)
EXTENDS ChannelPB, ConnectionPB, AppPB

CONSTANTS
    Kind,           \* the messages of the instance
    Numbers,        \* values of the uint64 fields but 0
    Enums,          \* values of the enumerations but 0
    Strings,        \* values of the string and bytes fields but the empty one
    Unknown,        \* encoded fields that no message declares
    Damage,         \* byte strings that may replace one byte
    MaxDamaged      \* only encodings up to this length are damaged

ibft2 == INSTANCE IBFT2PB
mock == INSTANCE MockClientPB

FieldsOf(kind) ==
    CASE kind = "Height" -> Height
      [] kind = "Channel_Counterparty" -> Channel_Counterparty
      [] kind = "Channel" -> Channel
      [] kind = "Channel_IdentifiedChannel" -> Channel_IdentifiedChannel
      [] kind = "Packet" -> Packet
      [] kind = "PacketState" -> PacketState
      [] kind = "MerklePrefix" -> MerklePrefix
      [] kind = "Counterparty" -> Counterparty
      [] kind = "Version" -> Version
      [] kind = "ConnectionEnd" -> ConnectionEnd
      [] kind = "FungibleTokenPacketData" -> FungibleTokenPacketData
      [] kind = "ibft2.ClientState" -> ibft2!ClientState
      [] kind = "ibft2.ConsensusState" -> ibft2!ConsensusState
      [] kind = "ibft2.Header" -> ibft2!Header
      [] kind = "mock.ClientState" -> mock!ClientState
      [] kind = "mock.ConsensusState" -> mock!ConsensusState
      [] kind = "mock.Header" -> mock!Header

MarshalOf(kind, m) ==
    CASE kind = "Height" -> Height_Marshal(m)
      [] kind = "Channel_Counterparty" -> Channel_Counterparty_Marshal(m)
      [] kind = "Channel" -> Channel_Marshal(m)
      [] kind = "Channel_IdentifiedChannel" -> Channel_IdentifiedChannel_Marshal(m)
      [] kind = "Packet" -> Packet_Marshal(m)
      [] kind = "PacketState" -> PacketState_Marshal(m)
      [] kind = "MerklePrefix" -> MerklePrefix_Marshal(m)
      [] kind = "Counterparty" -> Counterparty_Marshal(m)
      [] kind = "Version" -> Version_Marshal(m)
      [] kind = "ConnectionEnd" -> ConnectionEnd_Marshal(m)
      [] kind = "FungibleTokenPacketData" -> FungibleTokenPacketData_Marshal(m)
      [] kind = "ibft2.ClientState" -> ibft2!ClientState_Marshal(m)
      [] kind = "ibft2.ConsensusState" -> ibft2!ConsensusState_Marshal(m)
      [] kind = "ibft2.Header" -> ibft2!Header_Marshal(m)
      [] kind = "mock.ClientState" -> mock!ClientState_Marshal(m)
      [] kind = "mock.ConsensusState" -> mock!ConsensusState_Marshal(m)
      [] kind = "mock.Header" -> mock!Header_Marshal(m)

UnmarshalOf(kind, s) ==
    CASE kind = "Height" -> Height_Unmarshal(s)
      [] kind = "Channel_Counterparty" -> Channel_Counterparty_Unmarshal(s)
      [] kind = "Channel" -> Channel_Unmarshal(s)
      [] kind = "Channel_IdentifiedChannel" -> Channel_IdentifiedChannel_Unmarshal(s)
      [] kind = "Packet" -> Packet_Unmarshal(s)
      [] kind = "PacketState" -> PacketState_Unmarshal(s)
      [] kind = "MerklePrefix" -> MerklePrefix_Unmarshal(s)
      [] kind = "Counterparty" -> Counterparty_Unmarshal(s)
      [] kind = "Version" -> Version_Unmarshal(s)
      [] kind = "ConnectionEnd" -> ConnectionEnd_Unmarshal(s)
      [] kind = "FungibleTokenPacketData" -> FungibleTokenPacketData_Unmarshal(s)
      [] kind = "ibft2.ClientState" -> ibft2!ClientState_Unmarshal(s)
      [] kind = "ibft2.ConsensusState" -> ibft2!ConsensusState_Unmarshal(s)
      [] kind = "ibft2.Header" -> ibft2!Header_Unmarshal(s)
      [] kind = "mock.ClientState" -> mock!ClientState_Unmarshal(s)
      [] kind = "mock.ConsensusState" -> mock!ConsensusState_Unmarshal(s)
      [] kind = "mock.Header" -> mock!Header_Unmarshal(s)

VARIABLES
    kind,           \* the message that is sent
    sent,           \* its value
    wire,           \* what happened to its bytes: "sound", "extended", "damaged"
    decoder         \* the reader in Go: its bytes, index, message and error

vars == <<kind, sent, wire, decoder>>

(***************************************************************************)
(* Values of a message: of its fields at most one, or all but at most one, *)
(* are set, all to the same of their values.                               *)
(***************************************************************************)
RECURSIVE SetValues(_)
Values(f) ==
    CASE f.kind = "uint64" -> Numbers
      [] f.kind = "enum" -> Enums
      [] f.kind = "bytes" -> Strings
      [] f.kind = "repeatedBytes" -> {<<s>> : s \in Strings \cup {<<>>}} \cup {<<s, <<>>>> : s \in Strings}
      [] f.kind = "message" -> SetValues(f.of)
      [] f.kind = "pointer" -> {<<m>> : m \in SetValues(f.of) \cup {Empty(f.of)}}
      [] f.kind = "repeated" -> {<<m, Empty(f.of)>> : m \in SetValues(f.of)}

SetValues(fields) ==
    LET full == [name \in Names(fields) |->
                   CHOOSE v \in Values(FieldNamed(fields, name)) : TRUE]
    IN  {full} \cup {[full EXCEPT ![name] = Empty(fields)[name]] : name \in Names(fields)}

Messages(fields) ==
    {Empty(fields)} \cup SetValues(fields) \cup
    UNION {{[Empty(fields) EXCEPT ![f.name] = v] : v \in Values(f)} : f \in Range(fields)}

Init ==
    /\ kind \in Kind
    /\ sent \in Messages(FieldsOf(kind))
    /\ wire = "sound"
    /\ decoder = Decoder(FieldsOf(kind), MarshalOf(kind, sent))

Replace(bytes, new) ==
    /\ wire = "sound" /\ decoder.iNdEx = 0 /\ decoder.err = "none"
    /\ wire' = new
    /\ decoder' = Decoder(FieldsOf(kind), bytes)
    /\ UNCHANGED <<kind, sent>>

Extend ==
    \E field \in Unknown :
      \/ Replace(field \o decoder.dAtA, "extended")
      \/ Replace(decoder.dAtA \o field, "extended")

Splice(bytes, k, new) ==
    SubSeq(bytes, 1, k - 1) \o new \o SubSeq(bytes, k + 1, Len(bytes))

Corrupt ==
    /\ Len(decoder.dAtA) <= MaxDamaged
    /\ \E k \in DOMAIN decoder.dAtA :
         \/ Replace(SubSeq(decoder.dAtA, 1, k - 1), "damaged")
         \/ \E bytes \in Damage :
              Replace(Splice(decoder.dAtA, k, bytes), "damaged")

DecodeField ==
    /\ decoder.err = "none"
    /\ decoder' = UnmarshalOf(kind, decoder)
    /\ UNCHANGED <<kind, sent, wire>>

Next == Extend \/ Corrupt \/ DecodeField

Spec == Init /\ [][Next]_vars

(* The Go reader gets the message that was sent, whether or not the sender *)
(* added fields that the reader does not know.                             *)
RoundTrip ==
    decoder.err # "none" /\ wire # "damaged" =>
        decoder.err = "ok" /\ decoder.m = sent

(* The contract reads from the bytes of a Go program the same message,      *)
(* unless it has a value that its enumeration does not declare; and it would *)
(* have encoded it as the same bytes: the coordinator proves what a contract *)
(* stored from its own encoding of it.                                       *)
ContractAgrees ==
    wire # "damaged" =>
        LET fields == FieldsOf(kind)
            normal == Normal(fields, sent)
            Contract == decode(fields, decoder.dAtA)
            declared == \A f \in Range(fields) :
                          f.kind = "enum" => sent[f.name] \in 0 .. f.of - 1
        IN  IF declared
            THEN /\ Contract.err = "ok" /\ Contract.m = normal
                 /\ MarshalOf(kind, normal) = SolEncode(fields, normal)
            ELSE Contract.err = "revert"

(* Whatever bytes the decoder accepts, damaged ones included, stand for a  *)
(* message that is encoded and read again unchanged.                       *)
AcceptedBytesStable ==
    decoder.err = "ok" =>
        LET fields == FieldsOf(kind)
            again == Unmarshal(fields, MarshalOf(kind, decoder.m))
        IN  again.err = "ok" /\ again.m = decoder.m

(* No bytes make the decoder read outside of them, or go back to what it   *)
(* has read: Go would panic, or never return.                              *)
IndexMovesForward ==
    [][decoder'.dAtA = decoder.dAtA /\ decoder'.err = "none"
         => decoder'.iNdEx \in decoder.iNdEx + 1 .. Len(decoder.dAtA)]_decoder
=============================================================================
