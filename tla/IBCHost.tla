------------------------------- MODULE IBCHost -------------------------------
(***************************************************************************)
(* contracts/core/IBCHost.sol: the contract that holds the whole IBC state *)
(* of a chain.  The libraries IBCClient, IBCConnection and IBCChannel and  *)
(* the IBCHandler contract keep no protocol state: they read and write it  *)
(* through the accessors defined here, and their modules extend this one.  *)
(*                                                                         *)
(* Several chains run the same contracts, so every variable is a function  *)
(* of the chain.  A transaction is one atomic step (a failed require       *)
(* reverts all of it); a chain seals the result of its transactions in     *)
(* blocks, and what another chain can verify is the store of a sealed      *)
(* block, never the current one.                                           *)
(***************************************************************************)
EXTENDS Integers, Sequences, FiniteSets

CONSTANTS
    Chain,               \* the chains
    None,                \* an unset storage slot, and the empty identifier ""
    Remotes,             \* Remotes[c]: the chains a light client on c may track
    ClientType,          \* names under which client contracts are registered
    Port, Module,        \* port identifiers, and module contract addresses
    Version,             \* connection versions a message may carry
    Prefix,              \* Merkle prefixes a message may carry
    DelayPeriod,         \* connection delay periods a message may carry
    Ordering,            \* channel orderings a message may carry
    ChannelVersion,      \* channel versions a message may carry
    ConnectionHops,      \* lists of connection hops a message may carry
    Data,                \* packet payloads
    Acknowledgement,     \* non-empty acknowledgements an application returns
    TimeoutHeight,       \* packet timeout heights a sender may choose
    TimeoutTimestamp,    \* packet timeout timestamps a sender may choose
    UINT64,              \* uint64 arithmetic is modulo UINT64
    BlockPeriod,         \* seconds between two blocks of a chain
    MaxClients, MaxConnections, MaxChannels,  \* bounds on generated identifiers
    MaxHeight,           \* bound on the blocks of a chain
    IdleBlocks           \* whether a block without a new commitment is sealed

ASSUME ChainAssumption == /\ None \notin Chain
                          /\ Remotes \in [Chain -> SUBSET Chain]
ASSUME NumberAssumption ==
    /\ UINT64 \in Nat /\ UINT64 > 1
    /\ BlockPeriod \in Nat \ {0}
    /\ MaxClients \in Nat /\ MaxConnections \in Nat /\ MaxChannels \in Nat
    /\ MaxHeight \in Nat /\ IdleBlocks \in BOOLEAN
ASSUME InputAssumption ==
    /\ "1" \in Version /\ "ibc" \in Prefix
    /\ ConnectionHops \subseteq Seq(Nat)
    /\ DelayPeriod \subseteq Nat
    /\ Ordering \subseteq {"NONE_UNSPECIFIED", "UNORDERED", "ORDERED"}
    /\ TimeoutHeight \subseteq Nat /\ TimeoutTimestamp \subseteq Nat

VARIABLES
    clientRegistry, clientTypes, clientStates, consensusStates,
    connections, channels,
    nextSequenceSends, nextSequenceRecvs, nextSequenceAcks,
    packetReceipts, packetCommitments, packetAcks,
    capabilities,
    nextClientSequence, nextConnectionSequence, nextChannelSequence,
    blocks               \* blocks[c][h]: the store of c sealed at height h

clientVars == <<clientRegistry, clientTypes, clientStates, consensusStates,
                nextClientSequence>>
connectionVars == <<connections, nextConnectionSequence>>
channelVars == <<channels, nextChannelSequence>>
sequenceVars == <<nextSequenceSends, nextSequenceRecvs, nextSequenceAcks>>
packetVars == <<packetReceipts, packetCommitments, packetAcks>>
hostVars == <<clientVars, connectionVars, channelVars, sequenceVars,
              packetVars, capabilities, blocks>>

-----------------------------------------------------------------------------
(* Types.  The identifiers type-<n>, connection-<n> and channel-<n> that   *)
(* the host generates are represented by their number n.                   *)

ClientId == 0 .. MaxClients - 1
ConnectionId == 0 .. MaxConnections - 1
ChannelId == 0 .. MaxChannels - 1
Sequence == 0 .. UINT64 - 1
Height == Nat \ {0}
End == Port \X ChannelId          \* a channel end is keyed by port and channel
CapabilityName == {<<p>> : p \in Port} \cup End

State == {"UNINITIALIZED_UNSPECIFIED", "INIT", "TRYOPEN", "OPEN"}

ClientState == [chain : Chain, latest_height : Height]

Counterparty == [client_id : ClientId \cup {None},
                 connection_id : ConnectionId \cup {None},
                 prefix : Prefix \cup {None}]

ConnectionEnd == [client_id : ClientId \cup {None},
                  versions : {<<>>} \cup {<<v>> : v \in Version},
                  state : State,
                  delay_period : {0} \cup DelayPeriod,
                  counterparty : Counterparty]

ChannelCounterparty == [port_id : Port \cup {None},
                        channel_id : ChannelId \cup {None}]

ChannelEnd == [state : State,
               ordering : {"NONE_UNSPECIFIED", "UNORDERED", "ORDERED"},
               counterparty : ChannelCounterparty,
               connection_hops : {<<>>} \cup {<<k>> : k \in ConnectionId},
               version : ChannelVersion \cup {None}]

Packet == [sequence : Sequence,
           source_port : Port, source_channel : ChannelId,
           destination_port : Port, destination_channel : ChannelId,
           data : Data,
           timeout_height : TimeoutHeight,
           timeout_timestamp : TimeoutTimestamp]

PacketCommitment == [timeout_timestamp : TimeoutTimestamp,
                     timeout_height : TimeoutHeight, data : Data]

\* An unset slot holds no value.
ASSUME SlotAssumption ==
    /\ None \notin Nat /\ None \notin Acknowledgement /\ None \notin ClientType
    /\ None \notin ClientState /\ None \notin PacketCommitment

\* What a mapping of the contract returns for a key that was never written.
NoConnection ==
    [client_id |-> None, versions |-> <<>>,
     state |-> "UNINITIALIZED_UNSPECIFIED", delay_period |-> 0,
     counterparty |-> [client_id |-> None, connection_id |-> None,
                       prefix |-> None]]
NoChannel ==
    [state |-> "UNINITIALIZED_UNSPECIFIED", ordering |-> "NONE_UNSPECIFIED",
     counterparty |-> [port_id |-> None, channel_id |-> None],
     connection_hops |-> <<>>, version |-> None]

-----------------------------------------------------------------------------
(* Commitments: hashes are taken to be injective, so that a commitment is  *)
(* the data it commits to.  The destination and the sequence of a packet   *)
(* are not part of its commitment; the sequence is part of the key.        *)

makePacketCommitment(packet) ==
    [timeout_timestamp |-> packet.timeout_timestamp,
     timeout_height |-> packet.timeout_height, data |-> packet.data]

\* The commitments of a chain, as a proof of membership can show them.  Of a
\* client only the chain it tracks is kept: no handler looks at another field
\* of a counterparty's client state.
Store(c) ==
    [clients |-> [id \in ClientId |-> IF clientStates[c][id] = None THEN None
                                      ELSE clientStates[c][id].chain],
     connections |-> connections[c],
     channels |-> channels[c],
     packets |-> packetCommitments[c],
     acks |-> packetAcks[c]]

StoreType ==
    [clients : [ClientId -> Chain \cup {None}],
     connections : [ConnectionId -> ConnectionEnd],
     channels : [End -> ChannelEnd],
     packets : [End -> [Sequence -> PacketCommitment \cup {None}]],
     acks : [End -> [Sequence -> Acknowledgement \cup {None}]]]

-----------------------------------------------------------------------------
(* Storage accessors.  A setter is one conjunct of the handler calling it. *)

setClientImpl(c, type) ==
    /\ type \notin clientRegistry[c]
    /\ clientRegistry' = [clientRegistry EXCEPT ![c] = @ \cup {type}]

setClientType(c, id, type) ==
    /\ clientTypes[c][id] = None
    /\ clientTypes' = [clientTypes EXCEPT ![c][id] = type]

setClientState(c, id, clientState) ==
    clientStates' = [clientStates EXCEPT ![c][id] = clientState]

\* A consensus state is a verified header of the tracked chain: the height
\* names its block, and with it the root of the sealed store and the time.
setConsensusState(c, id, height) ==
    consensusStates' = [consensusStates EXCEPT ![c][id] = @ \cup {height}]

setConnection(c, id, connection) ==
    connections' = [connections EXCEPT ![c][id] = connection]

connectionFound(c, id) ==
    connections[c][id].state # "UNINITIALIZED_UNSPECIFIED"

setChannel(c, end, channel) ==
    channels' = [channels EXCEPT ![c][end] = channel]

channelFound(c, end) ==
    channels[c][end].state # "UNINITIALIZED_UNSPECIFIED"

\* Faulty variants: no wrap-around; wrap-around to the first sequence.
IncrementUnbounded(n) == n + 1
IncrementToFirst(n) == IF n + 1 = UINT64 THEN 1 ELSE n + 1

Increment(n) == IF n + 1 = UINT64 THEN 0 ELSE n + 1       \* uint64 n + 1

setNextSequenceSend(c, end, n) ==
    nextSequenceSends' = [nextSequenceSends EXCEPT ![c][end] = n]

setNextSequenceRecv(c, end, n) ==
    nextSequenceRecvs' = [nextSequenceRecvs EXCEPT ![c][end] = n]

setNextSequenceAck(c, end, n) ==
    nextSequenceAcks' = [nextSequenceAcks EXCEPT ![c][end] = n]

setPacketCommitment(c, end, sequence, packet) ==
    packetCommitments' = [packetCommitments EXCEPT
                            ![c][end][sequence] = makePacketCommitment(packet)]

\* Faulty variants: nothing deleted; every earlier commitment deleted too.
keepPacketCommitment(c, end, sequence) ==
    packetCommitments' = packetCommitments
deleteCommitmentsUpTo(c, end, sequence) ==
    packetCommitments' = [packetCommitments EXCEPT ![c][end] =
                            [n \in Sequence |-> IF n <= sequence THEN None ELSE @[n]]]

deletePacketCommitment(c, end, sequence) ==
    packetCommitments' = [packetCommitments EXCEPT ![c][end][sequence] = None]

setPacketAcknowledgementCommitment(c, end, sequence, acknowledgement) ==
    packetAcks' = [packetAcks EXCEPT ![c][end][sequence] = acknowledgement]

setPacketReceipt(c, end, sequence) ==
    packetReceipts' = [packetReceipts EXCEPT ![c][end] = @ \cup {sequence}]

claimCapability(c, name, module) ==
    /\ \A i \in DOMAIN capabilities[c][name] : capabilities[c][name][i] # module
    /\ capabilities' = [capabilities EXCEPT ![c][name] = Append(@, module)]

authenticateCapability(c, name, module) ==
    \E i \in DOMAIN capabilities[c][name] : capabilities[c][name][i] = module

\* Faulty variant: the module bound last.
lastModule(c, name) == capabilities[c][name][Len(capabilities[c][name])]

moduleOwnerFound(c, name) == capabilities[c][name] # <<>>
getModuleOwner(c, name) == capabilities[c][name][1]

\* The generators count up; the bound on the number of identifiers is here.
generateClientIdentifier(c, id) ==
    /\ id = nextClientSequence[c] /\ id \in ClientId
    /\ nextClientSequence' = [nextClientSequence EXCEPT ![c] = id + 1]

\* Faulty variant: the counter stays where it is.
sameConnectionIdentifier(c, id) ==
    /\ id = nextConnectionSequence[c] /\ id \in ConnectionId
    /\ UNCHANGED nextConnectionSequence

generateConnectionIdentifier(c, id) ==
    /\ id = nextConnectionSequence[c] /\ id \in ConnectionId
    /\ nextConnectionSequence' = [nextConnectionSequence EXCEPT ![c] = id + 1]

generateChannelIdentifier(c, id) ==
    /\ id = nextChannelSequence[c] /\ id \in ChannelId
    /\ nextChannelSequence' = [nextChannelSequence EXCEPT ![c] = id + 1]

-----------------------------------------------------------------------------
(* Blocks.  Block 1 of every chain holds the freshly deployed contracts;   *)
(* transactions run in the block after the last sealed one.                *)

BlockNumber(c) == Len(blocks[c]) + 1
BlockTime(height) == height * BlockPeriod

SealBlock(c) ==
    /\ Len(blocks[c]) < MaxHeight
    /\ IdleBlocks \/ Store(c) # blocks[c][Len(blocks[c])]
    /\ blocks' = [blocks EXCEPT ![c] = Append(@, Store(c))]
    /\ UNCHANGED <<clientVars, connectionVars, channelVars, sequenceVars,
                   packetVars, capabilities>>

HostInit ==
    /\ clientRegistry = [c \in Chain |-> {}]
    /\ clientTypes = [c \in Chain |-> [id \in ClientId |-> None]]
    /\ clientStates = [c \in Chain |-> [id \in ClientId |-> None]]
    /\ consensusStates = [c \in Chain |-> [id \in ClientId |-> {}]]
    /\ connections = [c \in Chain |-> [id \in ConnectionId |-> NoConnection]]
    /\ channels = [c \in Chain |-> [end \in End |-> NoChannel]]
    /\ nextSequenceSends = [c \in Chain |-> [end \in End |-> 0]]
    /\ nextSequenceRecvs = [c \in Chain |-> [end \in End |-> 0]]
    /\ nextSequenceAcks = [c \in Chain |-> [end \in End |-> 0]]
    /\ packetReceipts = [c \in Chain |-> [end \in End |-> {}]]
    /\ packetCommitments =
         [c \in Chain |-> [end \in End |-> [n \in Sequence |-> None]]]
    /\ packetAcks =
         [c \in Chain |-> [end \in End |-> [n \in Sequence |-> None]]]
    /\ capabilities = [c \in Chain |-> [name \in CapabilityName |-> <<>>]]
    /\ nextClientSequence = [c \in Chain |-> 0]
    /\ nextConnectionSequence = [c \in Chain |-> 0]
    /\ nextChannelSequence = [c \in Chain |-> 0]
    /\ blocks = [c \in Chain |-> <<Store(c)>>]

ClientTypeOK ==
    /\ clientRegistry \in [Chain -> SUBSET ClientType]
    /\ clientTypes \in [Chain -> [ClientId -> ClientType \cup {None}]]
    /\ clientStates \in [Chain -> [ClientId -> ClientState \cup {None}]]
    /\ consensusStates \in [Chain -> [ClientId -> SUBSET Height]]
    /\ nextClientSequence \in [Chain -> 0 .. MaxClients]

ConnectionTypeOK ==
    /\ connections \in [Chain -> [ConnectionId -> ConnectionEnd]]
    /\ nextConnectionSequence \in [Chain -> 0 .. MaxConnections]

ChannelTypeOK ==
    /\ channels \in [Chain -> [End -> ChannelEnd]]
    /\ nextChannelSequence \in [Chain -> 0 .. MaxChannels]

SequenceTypeOK ==
    /\ nextSequenceSends \in [Chain -> [End -> Sequence]]
    /\ nextSequenceRecvs \in [Chain -> [End -> Sequence]]
    /\ nextSequenceAcks \in [Chain -> [End -> Sequence]]

PacketTypeOK ==
    /\ packetReceipts \in [Chain -> [End -> SUBSET Sequence]]
    /\ packetCommitments \in
         [Chain -> [End -> [Sequence -> PacketCommitment \cup {None}]]]
    /\ packetAcks \in
         [Chain -> [End -> [Sequence -> Acknowledgement \cup {None}]]]

CapabilityTypeOK == capabilities \in [Chain -> [CapabilityName -> Seq(Module)]]

BlocksTypeOK == /\ blocks \in [Chain -> Seq(StoreType)]
                /\ \A c \in Chain : Len(blocks[c]) >= 1

HostTypeOK ==
    /\ ClientTypeOK
    /\ ConnectionTypeOK
    /\ ChannelTypeOK
    /\ SequenceTypeOK
    /\ PacketTypeOK
    /\ CapabilityTypeOK
    /\ BlocksTypeOK
=============================================================================
