----------------------------- MODULE Coordinator -----------------------------
(***************************************************************************)
(* The relayer of the test suite: pkg/testing/coordinator.go and chains.go *)
(* drive two chains through clients, connection, channel and packets, as   *)
(* TestChannel of tests/e2e does, over the contracts of IBCHandler.  What  *)
(* the coordinator knows of a chain are the header it cached last, the     *)
(* identifiers it read from logs, and what it queries.                     *)
(*                                                                         *)
(* It sends a transaction, waits until a block holds it, waits for a newer *)
(* header, and updates the client on the other chain with that header.  A  *)
(* transaction that would revert is never executed: require.NoError ends   *)
(* the test, so the model stops there.                                     *)
(***************************************************************************)
EXTENDS IBCHandler

CONSTANTS
    Source, Target,     \* the two chains
    Rounds,             \* how often TestChannel runs over the same contracts
    OtherModule,        \* another application the owner binds to the port
    TimeoutOffset,      \* blocks until a transfer times out
    MaxDisturbances     \* bound on what happens that the driver did not cause

ASSUME CoordinatorAssumption ==
    /\ Chain = {Source, Target} /\ Source # Target
    /\ Rounds \in Nat \ {0} /\ MaxDisturbances \in Nat
    /\ MaxClients >= Rounds /\ MaxConnections >= Rounds /\ MaxChannels >= Rounds

VARIABLES
    pc, stage,          \* the call of the script, and what it waits for
    receipt,            \* the transaction waited for: its chain and block
    lastHeader,         \* LastContractState: height of the cached header, or 0
    test,               \* identifiers recorded in the test helper structs
    transferPacket,     \* the packet the test reads before it relays it
    sealedClients,      \* client states per sealed block, with their heights
    disturbances

driverVars == <<pc, stage, receipt, lastHeader, test, transferPacket>>
coordinatorVars == <<vars, driverVars, sealedClients, disturbances>>

TransferPort == CHOOSE p \in Port : TRUE
TransferModule == CHOOSE m \in Module : m # OtherModule
Other(c) == IF c = Source THEN Target ELSE Source
EndOf(c) == <<TransferPort, test[c].channel>>
Success == CHOOSE ack \in Acknowledgement : TRUE

-----------------------------------------------------------------------------
(* The script: one call of the coordinator after the other.  A call updates *)
(* the client on the other chain at its end, except the first ones.         *)

Call(op, c) == [op |-> op, source |-> c]

NewCoordinator ==
    << Call("NewChain", Source), Call("NewChain", Target),
       Call("BindPort", Source), Call("RegisterClient", Source),
       Call("UpdateHeader", Source), Call("BindPort", Target),
       Call("RegisterClient", Target), Call("UpdateHeader", Target) >>
SetupClients == <<Call("CreateClient", Source), Call("CreateClient", Target)>>

\* Faulty variant: the confirmation is left out.
CreateConnectionUnconfirmed ==
    << Call("ConnOpenInit", Source), Call("ConnOpenTry", Target),
       Call("ConnOpenAck", Source) >>

CreateConnection ==
    << Call("ConnOpenInit", Source), Call("ConnOpenTry", Target),
       Call("ConnOpenAck", Source), Call("ConnOpenConfirm", Target) >>
CreateChannel ==
    << Call("ChanOpenInit", Source), Call("ChanOpenTry", Target),
       Call("ChanOpenAck", Source), Call("ChanOpenConfirm", Target) >>

\* Faulty variant: the answer is not brought back.
TransferOneWay(c) ==
    << Call("SendTransfer", c), Call("HandlePacketRecv", Other(c)) >>

Transfer(c) ==
    << Call("SendTransfer", c), Call("HandlePacketRecv", Other(c)),
       Call("HandlePacketAcknowledgement", c) >>

TestChannel ==
    NewCoordinator \o SetupClients \o CreateConnection \o CreateChannel
      \o Transfer(Source) \o Transfer(Target)

\* TestChannel, Rounds times over.
Script == [k \in 1 .. Rounds * Len(TestChannel) |->
             TestChannel[((k - 1) % Len(TestChannel)) + 1]]
Done == pc > Len(Script)
op == Script[pc].op
caller == Script[pc].source

-----------------------------------------------------------------------------
(* Queries                                                                  *)

\* The header a chain's last block has; the loop of UpdateHeader goes on until
\* it is newer than the cached one.
tip(c) == Len(blocks[c])

\* GetContractState with no height: proofs are of the height the verifying
\* client knows last.  CreateIBFT2Client stores the state root where an update
\* stores the root of the contract's storage, so no proof verifies against the
\* height a client was created with.
proofHeight(c) == getLatestHeight(c, test[c].client)
provable(c) ==
    \E h \in consensusStates[c][test[c].client] : h < proofHeight(c)

\* QueryClientProof: the client state is read now, its proof is of the height
\* of the other proof; it verifies only if they are the same.
clientProofFits(c) ==
    LET other == Other(c) IN
    sealedClients[other][proofHeight(c)][test[other].client]
      = clientStates[other][test[other].client]

\* Faulty variant: the first log instead of the last.
firstID(next) == 0

\* The identifier in the last Generated... log of the host.
getLastID(next) == next - 1

\* GetLastSentPacket: the SendPacket event with the sequence before the next.
GetLastSentPacket(c) ==
    LET sent == sendEvents[c][EndOf(c)]
        matching == {i \in DOMAIN sent :
                       sent[i].sequence = nextSequenceSends[c][EndOf(c)] - 1}
    IN sent[CHOOSE i \in matching : \A k \in matching : i <= k]

-----------------------------------------------------------------------------
(* Transactions: the handler's operation with the message the driver makes. *)

noEvent == UNCHANGED eventVars
onlyHandlerState == noEvent /\ UNCHANGED capabilities

\* The driver has deployed the handler and is its owner, the one account that
\* bindPort and registerClient accept.
BindPortTx(c) == bindPort(c, TransferPort, TransferModule) /\ noEvent
RegisterClientTx(c) ==
    /\ \E type \in ClientType : registerClient(c, type)
    /\ onlyHandlerState

CreateIBFT2Client(c) ==
    /\ \E type \in ClientType : createClient(c, type, Other(c), lastHeader[Other(c)])
    /\ onlyHandlerState

UpdateIBFT2Client(c) ==
    /\ updateClient(c, test[c].client, lastHeader[Other(c)],
                    getLatestHeight(c, test[c].client))
    /\ onlyHandlerState

MsgCounterparty(c, connectionId) ==
    [client_id |-> test[Other(c)].client, connection_id |-> connectionId,
     prefix |-> "ibc"]

ConnectionOpenInitTx(c) ==
    /\ connectionOpenInit(c, test[c].client, MsgCounterparty(c, None), 0)
    /\ onlyHandlerState

ConnectionOpenTryTx(c) ==
    /\ provable(c) /\ clientProofFits(c)
    /\ connectionOpenTry(c, test[c].client,
         MsgCounterparty(c, test[Other(c)].connection), 0, c, <<"1">>,
         proofHeight(c))
    /\ onlyHandlerState

ConnectionOpenAckTx(c) ==
    /\ provable(c) /\ clientProofFits(c)
    /\ connectionOpenAck(c, test[c].connection, c, "1",
         test[Other(c)].connection, proofHeight(c))
    /\ onlyHandlerState

ConnectionOpenConfirmTx(c) ==
    /\ provable(c)
    /\ connectionOpenConfirm(c, test[c].connection, proofHeight(c))
    /\ onlyHandlerState

MsgChannel(c, state, channelId) ==
    [state |-> state, ordering |-> "UNORDERED",
     counterparty |-> [port_id |-> TransferPort, channel_id |-> channelId],
     connection_hops |-> <<test[c].connection>>,
     version |-> CHOOSE v \in ChannelVersion : TRUE]

ChannelOpenInitTx(c) ==
    /\ \E id \in ChannelId :
         /\ channelOpenInit(c, TransferPort, id, MsgChannel(c, "INIT", None))
         /\ claimChannel(c, TransferPort, id)
    /\ noEvent

ChannelOpenTryTx(c) ==
    LET message == MsgChannel(c, "TRYOPEN", test[Other(c)].channel) IN
    /\ provable(c)
    /\ \E id \in ChannelId :
         /\ channelOpenTry(c, TransferPort, id, message, message.version,
                           proofHeight(c))
         /\ claimChannel(c, TransferPort, id)
    /\ noEvent

ChannelOpenAckTx(c) ==
    /\ provable(c)
    /\ channelOpenAck(c, TransferPort, test[c].channel,
         CHOOSE v \in ChannelVersion : TRUE, test[Other(c)].channel,
         proofHeight(c))
    /\ moduleOwnerFound(c, <<TransferPort>>)
    /\ onlyHandlerState

ChannelOpenConfirmTx(c) ==
    /\ provable(c)
    /\ channelOpenConfirm(c, TransferPort, test[c].channel, proofHeight(c))
    /\ moduleOwnerFound(c, <<TransferPort>>)
    /\ onlyHandlerState

\* ICS20's SendTransfer: the timeout is counted from the sender's own cached
\* header, and compared with the blocks of the other chain.
SendTransferTx(c) ==
    \E data \in Payload[c] :
      LET packet == [sequence |-> nextSequenceSends[c][EndOf(c)],
                     source_port |-> TransferPort,
                     source_channel |-> test[c].channel,
                     destination_port |-> TransferPort,
                     destination_channel |-> test[Other(c)].channel,
                     data |-> data,
                     timeout_height |-> lastHeader[c] + TimeoutOffset,
                     timeout_timestamp |-> 0]
      IN /\ authenticateCapability(c, EndOf(c), TransferModule)
         /\ sendPacket(c, packet)
         /\ sendEvents' = emit(sendEvents, c, EndOf(c), packet)
         /\ UNCHANGED <<capabilities, recvEvents, ackEvents>>

HandlePacketRecvTx(c, packet) ==
    /\ provable(c)
    /\ moduleOwnerFound(c, destination(packet))
    /\ recvPacket(c, packet, proofHeight(c))
    /\ writeAcknowledgement(c, destination(packet), packet.sequence, Success)
    /\ recvEvents' = emit(recvEvents, c, destination(packet), packet)
    /\ UNCHANGED <<capabilities, sendEvents, ackEvents>>

HandlePacketAcknowledgementTx(c, packet) ==
    /\ provable(c)
    /\ moduleOwnerFound(c, source(packet))
    /\ acknowledgePacket(c, packet, Success, proofHeight(c))
    /\ ackEvents' = emit(ackEvents, c, source(packet),
                         [packet |-> packet, ack |-> Success])
    /\ UNCHANGED <<capabilities, sendEvents, recvEvents>>

-----------------------------------------------------------------------------
(* The driver *)

NoTest == [client |-> None, connection |-> None, channel |-> None]

\* NewChain: the helper structs of a test start empty.
NewChain ==
    /\ stage = "call" /\ op = "NewChain"
    /\ lastHeader' = [lastHeader EXCEPT ![caller] = 0]
    /\ test' = [test EXCEPT ![caller] = NoTest]
    /\ pc' = pc + 1
    /\ UNCHANGED <<stage, receipt, transferPacket, vars>>

\* Chain.Init leaves out what an earlier test has done.
AlreadyDone ==
    /\ stage = "call"
    /\ \/ op = "BindPort" /\ moduleOwnerFound(caller, <<TransferPort>>)
       \/ op = "RegisterClient" /\ ClientType \subseteq clientRegistry[caller]
    /\ pc' = pc + 1
    /\ UNCHANGED <<stage, receipt, lastHeader, test, transferPacket, vars>>

Transaction(c) ==
    \/ op = "BindPort" /\ ~moduleOwnerFound(c, <<TransferPort>>) /\ BindPortTx(c)
    \/ op = "RegisterClient" /\ RegisterClientTx(c)
    \/ op = "CreateClient" /\ CreateIBFT2Client(c)
    \/ op = "ConnOpenInit" /\ ConnectionOpenInitTx(c)
    \/ op = "ConnOpenTry" /\ ConnectionOpenTryTx(c)
    \/ op = "ConnOpenAck" /\ ConnectionOpenAckTx(c)
    \/ op = "ConnOpenConfirm" /\ ConnectionOpenConfirmTx(c)
    \/ op = "ChanOpenInit" /\ ChannelOpenInitTx(c)
    \/ op = "ChanOpenTry" /\ ChannelOpenTryTx(c)
    \/ op = "ChanOpenAck" /\ ChannelOpenAckTx(c)
    \/ op = "ChanOpenConfirm" /\ ChannelOpenConfirmTx(c)
    \/ op = "SendTransfer" /\ SendTransferTx(c)
    \/ op = "HandlePacketRecv" /\ HandlePacketRecvTx(c, GetLastSentPacket(Other(c)))
    \/ op = "HandlePacketAcknowledgement" /\ HandlePacketAcknowledgementTx(c, transferPacket)

\* The transaction goes into the next block of its chain.
awaitReceipt(c) == receipt' = [chain |-> c, height |-> BlockNumber(c)]

Submit ==
    /\ stage = "call" /\ Transaction(caller)
    /\ awaitReceipt(caller)
    /\ transferPacket' = IF op = "HandlePacketRecv"
                         THEN GetLastSentPacket(Other(caller)) ELSE transferPacket
    /\ stage' = "receipt"
    /\ UNCHANGED <<pc, lastHeader, test>>

\* WaitForReceiptAndGet: the block with the transaction is there.
receiptFound == tip(receipt.chain) >= receipt.height

record(field, id) == test' = [test EXCEPT ![caller][field] = id]
updatesClient == op \notin {"BindPort", "RegisterClient", "CreateClient"}

WaitForReceipt ==
    /\ stage = "receipt" /\ receiptFound
    /\ CASE op = "CreateClient" ->
              record("client", getLastID(nextClientSequence[caller]))
         [] op \in {"ConnOpenInit", "ConnOpenTry"} ->
              record("connection", getLastID(nextConnectionSequence[caller]))
         [] op \in {"ChanOpenInit", "ChanOpenTry"} ->
              record("channel", getLastID(nextChannelSequence[caller]))
         [] OTHER -> UNCHANGED test
    /\ IF updatesClient
       THEN stage' = "header" /\ pc' = pc
       ELSE stage' = "call" /\ pc' = pc + 1
    /\ UNCHANGED <<receipt, lastHeader, transferPacket, vars>>

\* Faulty variant: the cached header is good enough.
anyHeader(c) == UNCHANGED lastHeader

newerHeader(c) == /\ tip(c) > lastHeader[c]
                  /\ lastHeader' = [lastHeader EXCEPT ![c] = tip(c)]

UpdateHeader ==
    /\ \/ stage = "header" /\ stage' = "update" /\ pc' = pc
       \/ stage = "call" /\ op = "UpdateHeader" /\ stage' = stage /\ pc' = pc + 1
    /\ newerHeader(caller)
    /\ UNCHANGED <<receipt, test, transferPacket, vars>>

UpdateOtherClient ==
    /\ stage = "update" /\ UpdateIBFT2Client(Other(caller))
    /\ awaitReceipt(Other(caller))
    /\ stage' = "updated"
    /\ UNCHANGED <<pc, lastHeader, test, transferPacket>>

ClientUpdated ==
    /\ stage = "updated" /\ receiptFound
    /\ stage' = "call" /\ pc' = pc + 1
    /\ UNCHANGED <<receipt, lastHeader, test, transferPacket, vars>>

DriverNext ==
    /\ ~Done
    /\ \/ NewChain \/ AlreadyDone \/ Submit \/ WaitForReceipt
       \/ UpdateHeader \/ UpdateOtherClient \/ ClientUpdated
    /\ UNCHANGED <<sealedClients, disturbances>>

-----------------------------------------------------------------------------
(* What goes on without the driver: chains seal blocks, more of them than it *)
(* waits for, and the handler's owner binds another application to the port. *)

awaited(c) ==
    /\ ~Done
    /\ \/ stage \in {"receipt", "updated"} /\ receipt.chain = c /\ ~receiptFound
       \/ stage = "header" /\ caller = c /\ tip(c) <= lastHeader[c]

Seal(c) ==
    /\ SealBlock(c) /\ noEvent
    /\ sealedClients' = [sealedClients EXCEPT ![c] = Append(@, clientStates[c])]
    /\ UNCHANGED driverVars

SealAwaited(c) == awaited(c) /\ Seal(c) /\ UNCHANGED disturbances

disturb == /\ disturbances < MaxDisturbances /\ ~Done
           /\ disturbances' = disturbances + 1

SealIdle(c) == disturb /\ ~awaited(c) /\ Seal(c)

BindOther(c) ==
    /\ disturb
    /\ moduleOwnerFound(c, <<TransferPort>>)
    /\ bindPort(c, TransferPort, OtherModule) /\ noEvent
    /\ UNCHANGED <<driverVars, sealedClients>>

CoordinatorInit ==
    /\ Init
    /\ pc = 1 /\ stage = "call"
    /\ receipt = None
    /\ lastHeader = [c \in Chain |-> 0]
    /\ test = [c \in Chain |-> NoTest]
    /\ transferPacket = None
    /\ sealedClients = [c \in Chain |-> <<clientStates[c]>>]
    /\ disturbances = 0

CoordinatorNext ==
    \/ DriverNext
    \/ \E c \in Chain : SealAwaited(c) \/ SealIdle(c) \/ BindOther(c)

CoordinatorSpec ==
    /\ CoordinatorInit
    /\ [][CoordinatorNext]_coordinatorVars
    /\ WF_coordinatorVars(DriverNext)
    /\ \A c \in Chain : WF_coordinatorVars(SealAwaited(c))

-----------------------------------------------------------------------------
(* Properties *)

\* The test never fails: every transaction the coordinator sends is accepted,
\* every proof and client update it builds from what it cached fits, in each
\* round, whenever blocks are sealed.
TestCompletes == <>Done

\* What the proofs ask of the constants: the sets that Next ranges over, which
\* the program does not limit, hold what the test sends.
InputsSuffice ==
    /\ Remotes = [c \in Chain |-> {Other(c)}]
    /\ HeaderLag > MaxDisturbances
    /\ MaxHeight > 0 /\ UINT64 > 2
    /\ TimeoutOffset \in Nat
    /\ \A h \in 0 .. MaxHeight : h + TimeoutOffset \in TimeoutHeight
    /\ 0 \in TimeoutTimestamp /\ 0 \in DelayPeriod /\ "UNORDERED" \in Ordering
    /\ None \in InitCounterpartyConnection /\ None \in InitCounterpartyChannel
    /\ \A id \in ConnectionId : <<id>> \in ConnectionHops
    /\ Port # {} /\ ChannelVersion # {}
    /\ OtherModule \in Module /\ \E m \in Module : m # OtherModule
    /\ Success \in Acknowledgement /\ Success \in Returned

\* In every round, also when the contracts hold the ends of earlier rounds, the
\* identifiers the coordinator recorded are those of two ends that are OPEN
\* and name each other and each other's client, once it goes on to use them.
OpsOf(calls) == {calls[k].op : k \in DOMAIN calls}
UsesConnection == ~Done /\ op \in OpsOf(CreateChannel) \cup OpsOf(Transfer(Source))
UsesChannel == ~Done /\ op \in OpsOf(Transfer(Source))

RecordedEndsOpen ==
    \A c \in Chain :
      LET mine == test[c]
          theirs == test[Other(c)]
      IN /\ UsesConnection =>
              LET end == connections[c][mine.connection] IN
              /\ end.state = "OPEN" /\ end.client_id = mine.client
              /\ end.counterparty.client_id = theirs.client
              /\ end.counterparty.connection_id = theirs.connection
         /\ UsesChannel =>
              LET end == channels[c][EndOf(c)] IN
              /\ end.state = "OPEN" /\ end.connection_hops = <<mine.connection>>
              /\ counterpartyEnd(end) = EndOf(Other(c))

\* A transfer the coordinator has relayed leaves nothing behind: before it goes on
\* to anything else, each packet sent over any channel of any round was received,
\* and its sender has heard of its success and dropped the commitment.  A packet
\* is looked up in all that was ever sent, and every round sends the same
\* sequences again.
Relaying == ~Done /\ (stage # "call" \/ op \in OpsOf(Tail(Transfer(Source))))

NothingOutstanding ==
    ~Relaying =>
      \A c \in Chain, end \in End :
        LET sent == sendEvents[c][end] IN
        /\ \A i \in DOMAIN sent :
             sent[i] \in Range(recvEvents[Other(c)][destination(sent[i])])
        /\ ackEvents[c][end] = [i \in DOMAIN sent |->
                                 [packet |-> sent[i], ack |-> Success]]
        /\ \A n \in Sequence : packetCommitments[c][end][n] = None
=============================================================================
