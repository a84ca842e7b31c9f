------------------------------ MODULE IBCClient ------------------------------
(***************************************************************************)
(* contracts/core/IBCClient.sol with the IBFT 2.0 light client             *)
(* contracts/core/IBFT2Client.sol behind it: clients are registered,       *)
(* created and updated, and verify what another chain's sealed store       *)
(* contains.  The cryptography (commit seals, Merkle-Patricia proofs) is   *)
(* abstracted to its purpose: an accepted header is a block of the tracked *)
(* chain, and a proof shows a commitment of the store sealed in it.        *)
(***************************************************************************)
EXTENDS IBCHost

CONSTANT HeaderLag    \* how far behind the tip a submitted header may be

ASSUME HeaderLagAssumption == HeaderLag \in Nat

\* Headers a relayer submits: sealed blocks of the chain, at most HeaderLag
\* blocks behind its tip.
SubmittedHeights(chain) ==
    {h \in 1 .. Len(blocks[chain]) : h + HeaderLag >= Len(blocks[chain])}

-----------------------------------------------------------------------------
(* Client handlers                                                         *)

registerClient(c, type) ==
    /\ setClientImpl(c, type)
    /\ UNCHANGED <<clientTypes, clientStates, consensusStates,
                   nextClientSequence, connectionVars, channelVars,
                   sequenceVars, packetVars, blocks>>

getClientByTypeFound(c, type) == type \in clientRegistry[c]

\* Nothing in the contract checks the initial states: the message is one the
\* relayer builds from a header of the chain to be tracked.
createClient(c, type, chain, height) ==
    /\ getClientByTypeFound(c, type)
    /\ \E id \in ClientId :
         /\ generateClientIdentifier(c, id)
         /\ setClientType(c, id, type)
         /\ setClientState(c, id, [chain |-> chain, latest_height |-> height])
         /\ setConsensusState(c, id, height)
    /\ UNCHANGED <<clientRegistry, connectionVars, channelVars,
                   sequenceVars, packetVars, blocks>>

getClientFound(c, id) == getClientByTypeFound(c, clientTypes[c][id])
clientStateFound(c, id) == clientStates[c][id] # None

\* Faulty variant: only the header next to a trusted one is accepted.
checkAdjacentHeader(c, id, height, trustedHeight) ==
    /\ trustedHeight \in consensusStates[c][id]
    /\ height = trustedHeight + 1

\* IBFT2Client.checkHeaderAndUpdateState: the header is verified against the
\* consensus state of an earlier, trusted height, which need not be the latest.
checkHeader(c, id, height, trustedHeight) ==
    /\ trustedHeight \in consensusStates[c][id]
    /\ height > trustedHeight

updateClient(c, id, height, trustedHeight) ==
    /\ clientStateFound(c, id)
    /\ getClientFound(c, id)
    /\ checkHeader(c, id, height, trustedHeight)
    /\ setClientState(c, id, [clientStates[c][id] EXCEPT
                                !.latest_height = IF height > @ THEN height ELSE @])
    /\ setConsensusState(c, id, height)
    /\ UNCHANGED <<clientRegistry, clientTypes, nextClientSequence,
                   connectionVars, channelVars, sequenceVars, packetVars,
                   blocks>>

\* TODO in the code: any client state is accepted as that of this chain.
validateSelfClient(c, clientState) == TRUE

-----------------------------------------------------------------------------
(* Queries and verification functions of the light client                  *)

getLatestHeight(c, id) == clientStates[c][id].latest_height

timestampFound(c, id, height) == height \in consensusStates[c][id]
getTimestampAtHeight(c, id, height) == BlockTime(height)

validateArgs(c, id, height, prefix) ==
    /\ clientStateFound(c, id)
    /\ height <= getLatestHeight(c, id)
    /\ prefix # ""
    /\ height \in consensusStates[c][id]

\* The store of the tracked chain that the root at that height commits to.
\* A key with the identifier "" was never written, so no proof exists for it.
provenStore(c, id, height) == blocks[clientStates[c][id].chain][height]

verifyClientState(c, id, height, prefix, counterpartyClientId, chain) ==
    /\ getClientFound(c, id) /\ validateArgs(c, id, height, prefix)
    /\ counterpartyClientId \in ClientId
    /\ provenStore(c, id, height).clients[counterpartyClientId] = chain

verifyConnectionState(c, id, height, prefix, connectionId, connection) ==
    /\ getClientFound(c, id) /\ validateArgs(c, id, height, prefix)
    /\ connectionId \in ConnectionId
    /\ provenStore(c, id, height).connections[connectionId] = connection

\* Faulty variant: neither the state nor the channel that is named matters.
verifyChannelTerms(c, id, height, prefix, end, channel) ==
    /\ getClientFound(c, id) /\ validateArgs(c, id, height, prefix)
    /\ end \in End
    /\ provenStore(c, id, height).channels[end].state # "UNINITIALIZED_UNSPECIFIED"
    /\ [provenStore(c, id, height).channels[end] EXCEPT
          !.state = channel.state,
          !.counterparty.channel_id = channel.counterparty.channel_id] = channel

verifyChannelState(c, id, height, prefix, end, channel) ==
    /\ getClientFound(c, id) /\ validateArgs(c, id, height, prefix)
    /\ end \in End
    /\ provenStore(c, id, height).channels[end] = channel

\* Faulty variant: the channel is not part of the key that is proved.
verifyAnyChannelCommitment(c, id, height, prefix, end, sequence, commitment) ==
    /\ getClientFound(c, id) /\ validateArgs(c, id, height, prefix)
    /\ \E key \in End :
         provenStore(c, id, height).packets[key][sequence] = commitment

verifyPacketCommitment(c, id, height, prefix, end, sequence, commitment) ==
    /\ getClientFound(c, id) /\ validateArgs(c, id, height, prefix)
    /\ provenStore(c, id, height).packets[end][sequence] = commitment

verifyPacketAcknowledgement(c, id, height, prefix, end, sequence, ack) ==
    /\ getClientFound(c, id) /\ validateArgs(c, id, height, prefix)
    /\ provenStore(c, id, height).acks[end][sequence] = ack
=============================================================================
