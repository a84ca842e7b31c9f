------------------------------ MODULE MCCodec -------------------------------
(* Messages and bytes for TLC. *)
EXTENDS MessageCodec

MCKind == {"Height", "Channel_Counterparty", "Channel", "Channel_IdentifiedChannel", "Packet", "PacketState", "MerklePrefix", "Counterparty", "Version", "ConnectionEnd", "FungibleTokenPacketData", "ibft2.ClientState", "ibft2.ConsensusState", "ibft2.Header", "mock.ClientState", "mock.ConsensusState", "mock.Header"}

\* One group, the boundary of two groups, and the largest value.
MCNumbers == {1, 127, 128, 2^WordBits - 1}

\* Values that the enumerations declare, and one they do not.
MCEnums == {1, 2, -1}

\* A short string, and one whose length takes two groups.
MCStrings == {<<7>>, [k \in 1..130 |-> 65]}

\* A varint, a length-delimited field, a fixed64 and a fixed32 of numbers
\* that no message uses.
MCUnknown == {<<120, 200, 1>>, <<122, 2, 8, 8>>,
              <<121, 1, 2, 3, 4, 5, 6, 7, 8>>, <<125, 255, 255, 255, 255>>}

\* Bytes that end or continue a varint, keys of fields, of groups and of
\* field number 0 and 256 + 1, a negative length, a length that overflows the
\* index, and a varint that is too long.
MCDamage == {<<b>> : b \in {0, 1, 2, 3, 8, 10, 11, 12, 18, 26, 123, 124, 127, 255}}
            \cup {<<136, 16>>, <<255, 255, 1>>, <<10, 255, 255, 1>>, <<122, 255, 255, 1>>,
                  <<255, 127>>, <<122, 254, 255, 0>>, <<255, 255, 255, 255, 1>>}
=============================================================================
