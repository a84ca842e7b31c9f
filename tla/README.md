# IBC in Solidity: TLA+ models, model checking and proofs

This directory specifies the contracts under `src/contracts` and the Go code that
drives them. For the contracts: the state a chain keeps for IBC, the light client
through which it sees the other chain, the connection and channel handshakes, the
sending, receiving and acknowledging of packets, and the transfer application on
top. For the Go code: the codec of the messages, the preparation of headers, and
the coordinator that relays between two chains. The models interleave the
transactions and blocks of several chains and let relayers submit whatever they
like. TLC checks small instances; TLAPS proves the most important invariants for
every instance.

Contents: [inventory](#inventory), [modules](#modules), [hard parts](#the-hard-parts),
[runs](#runs), [refinement](#refinement), [fairness](#fairness), [proofs](#proofs),
[findings](#findings), [noted divergences](#noted-divergences),
[what is not modelled](#what-is-not-modelled), [plan](#plan).

## Inventory

| Component | State | Operations | What makes it correct |
|---|---|---|---|
| `IBCHost.sol` + `IBCIdentifier.sol` | all protocol state: clients, consensus states, connection and channel ends, sequences, receipts, commitments, capabilities, identifier counters | setters, getters, generators, `claimCapability`, `authenticateCapability` | identifiers are never reused; what is committed is what is stored |
| `IBCClient.sol` | none of its own | `registerClient`, `createClient`, `updateClient`, `validateSelfClient` (a TODO) | consensus states are blocks of the tracked chain |
| `IBFT2Client.sol` | none: its states are bytes in the host | `checkHeaderAndUpdateState`, queries, five `verify...` functions | a header is accepted only with 2/3 of its validators' seals and enough trusted ones; a proof shows what a sealed block contains |
| `IBCConnection.sol` | none | `connectionOpenInit`, `Try`, `Ack`, `Confirm` | two OPEN ends agree and pair one to one |
| `IBCChannel.sol` | none | `channelOpenInit`, `Try`, `Ack`, `Confirm`; `sendPacket`, `recvPacket`, `writeAcknowledgement`, `acknowledgePacket` | ends agree; packets arrive once, as sent, in order where the channel is ordered; outstanding packets stay committed |
| `IBCHandler.sol`, `IBCModule.sol` | port bindings (as capabilities in the host) | entry points of all the above, `bindPort`, the application callbacks, packet events | only the owner of a channel sends on it; callbacks and checks succeed or fail together |
| `ICS20Transfer.sol`, `ICS20TransferBank.sol`, `ICS20Bank.sol` | balances per denomination and account, escrow addresses | `sendTransfer`, `onRecvPacket`, `onAcknowledgementPacket`, `mint`, `burn`, `transferFrom`, `deposit`, `withdraw` | tokens are neither created nor lost across chains |
| `MockClient.sol` | none | a client for tests that accepts everything | nothing: it verifies nothing |
| `TrieProofs.sol`, `RLP.sol`, `ECRecovery.sol`, `Bytes.sol`, `strings.sol` | none | pure functions on bytes | proofs, encodings and signatures mean what they say |
| `core/types/*.sol`, `proto/`, `pkg/ibc` | none | message records and their generated codecs, one in Solidity and one in Go | a message is read as it was written, by either codec; no bytes make a decoder panic or loop |
| `pkg/testing` (coordinator, chains) | identifiers of the clients, connections and channels it created, last headers | drives two chains through handshakes and packets | every transaction it builds from what it cached is accepted; what it records is what is open |
| `pkg/chains`, parts of `pkg/client` | none | parse headers, order commit seals, wait for receipts, read a contract's state with its block | the relayer's headers are those the light client can use |
| `pkg/contract`, `pkg/wallet`, rest of `pkg/client` | | generated bindings, keys, JSON-RPC | |

How they interact. A user, an application or a relayer calls `IBCHandler`. It
calls the libraries `IBCClient`, `IBCConnection` and `IBCChannel`, which check
the message against the host and, through `IBCClient.getClient`, against the
light client, and write the host. For channels and packets the handler also
calls the application that owns the port or the channel. Two chains share no
state: one learns of the other only by a proof against a block that its light
client has accepted. Relayers are outside the contracts and are not trusted.

## Modules

The contracts; each module of the first five extends the one above it.

| Module | Code | State and operations |
|---|---|---|
| `IBCHost` | `IBCHost.sol`, `IBCIdentifier.sol`, the message records | one variable per mapping and counter, each a function of the chain; one operator per accessor; `blocks`, the stores sealed so far; `SealBlock` |
| `IBCClient` | `IBCClient.sol`, `IBFT2Client.sol` | `registerClient`, `createClient`, `updateClient`, `validateSelfClient`; `validateArgs` and the verification functions |
| `IBCConnection` | `IBCConnection.sol` | the four handshake operations and the ends they expect on the other chain |
| `IBCChannel` | `IBCChannel.sol` | the four handshake operations and the four packet operations |
| `IBCHandler` | `IBCHandler.sol` | one action per entry point, with the inputs a caller may choose; ports, capabilities, callbacks, packet events; `Init`, `Next`, `Spec`, `FairSpec`, all packet properties |
| `PacketDelivery` | what `IBCHandler.sol` promises an application | abstract: messages sent, delivered, answered and acknowledged between the ends of open channels |
| `Handshake` | what the handshakes of `IBCConnection.sol` and `IBCChannel.sol` promise | abstract: two ends agree on their terms when the first of them opens; the other confirms |
| `ICS20Bank` | `ICS20Bank.sol`, the wallets of the tokens | `balances` per denomination and account; `transferFrom`, `mint`, `burn`, `deposit`, `withdraw` |
| `ICS20Transfer` | `ICS20Transfer.sol`, `ICS20TransferBank.sol` | `sendTransfer`, `onRecvPacket`, `onAcknowledgementPacket` over `PacketDelivery`; calls of the callbacks by others than the handler (`OutsideCall`) |
| `IBFT2Seals` | `verify` and `checkHeaderAndUpdateState` of `IBFT2Client.sol`; `pkg/chains/besu.go` | validator sets, commit seals, both thresholds, the stored set; the relayer's ordering of seals |

The Go code.

| Module | Code | State and operations |
|---|---|---|
| `Coordinator` | `pkg/testing/coordinator.go`, `chains.go`, `types.go` | extends `IBCHandler`: the script of `TestChannel`, the transaction it waits for, cached headers, recorded identifiers |
| `ProtoCodec` | the functions gogoproto generates, `ProtoBufRuntime.sol` and the generated libraries | `Size`, `Marshal`, `Unmarshal`, `skip`; `SolEncode`, `SolDecode` |
| `ChannelPB`, `ConnectionPB`, `IBFT2PB`, `MockClientPB`, `AppPB` | `pkg/ibc/*/*.pb.go` | the fields of every message, with its `Size`, `Marshal` and `Unmarshal` |
| `MessageCodec` | | a message on its way: encoded, extended by an unknown field or damaged, decoded turn by turn |

Instances and proofs.

| Module | Contents |
|---|---|
| `MCIBC` | two chains whose clients track each other, start states part of the way through the protocol, the refinement mapping to `PacketDelivery` |
| `MCCoordinator`, `MCTransfer`, `MCSeals`, `MCCodec` | the instances of the other modules |
| `IBCHandler_proofs`, `IBCConnection_proofs`, `IBCChannel_proofs`, `IBCDelivery_proofs` | theorems and proofs about `IBCHandler`, each module building on the one before |
| `IBCRefinement_proofs` | that `IBCHandler` implements `PacketDelivery` |
| `IBFT2Seals_proofs`, `ICS20Transfer_proofs` | theorems and proofs about the light client and the transfer application |
| `Coordinator_proofs` | theorems and proofs about the test driver, on top of those about `IBCHandler` |

How state and steps correspond to the code:

* A transaction is one step. An Ethereum transaction is atomic, and a failed
  `require` anywhere in it, also after a callback, reverts all of it; so a
  `require` is a guard of the action and a setter is a conjunct of it. The
  handler's call to a library, the callback of the application and the write of
  an immediate acknowledgement are in the same action.
* A chain's transactions change its current state; `SealBlock` appends the store
  to `blocks`. A proof is checked against a sealed block that the verifying
  client knows, never against the current state, and may be as old as the
  relayer likes. That lag is what makes the handshakes and timeouts hard.
* The generated identifiers `<type>-<n>`, `connection-<n>` and `channel-<n>` are
  their number `n`. `None` is the empty identifier and the unset slot.
* A consensus state is the height of the block it was made from: the height
  names the root and the time. A commitment is the data committed to; hashes and
  keys are taken to be injective. Merkle proofs and commit seals are abstracted
  to what they establish. `createClient` accepts any initial state in the code;
  in the model it is one a relayer builds from a real block of the chain.
* Packet events (`SendPacket`, `RecvPacket`, `AcknowledgePacket`) are kept per
  channel end, because the properties are about them. They are never read by a
  guard, except that an application writes late acknowledgements only for
  packets it was given.
* An application is whatever satisfies the callback interface: it may answer a
  packet at once with any acknowledgement, or with nothing and then later, and
  sends when it holds the channel's capability.
* In `ICS20Transfer` a packet is a step of `PacketDelivery`, which `IBCHandler` is
  shown to implement: the transfer application is modelled over what the handler
  promises and not over the handler again. A denomination is a trace of channels
  and a token, which is what its prefixes say; as in the code, a denomination is
  the chain's own if it does not start with the prefix of the channel in question.
  A call of the bank that reverts is a result (`Reverts`), because
  `ICS20TransferBank` catches it: `SendTransfer` requires success, `OnRecvPacket`
  answers with failure. `gifts` counts what users put into the escrow account
  outside of a transfer; it is read by a property only.
* The callbacks of `ICS20Transfer.sol` are external and accept any caller
  (lines 57 and 75). `OnRecvPacket` and `OnAcknowledgementPacket` are their calls by
  the handler, which come with the handler's checks of the packet (`Deliver` and
  `Acknowledge` of `PacketDelivery`, a timeout not yet reached, an unordered channel
  for an acknowledgement). `OutsideCall` is a call by any other account, with a packet
  it makes up: the same movements of tokens, and nothing the handler knows of.
  `outside` counts these calls. It is read by properties only, which say with it what
  they assume: where the application's books need a handler as the only caller, the
  property is an implication from `outside = 0`.
* A transfer carries the height at which it times out on the other chain, and
  `NewBlock` lets heights grow. The order of a channel is whatever `onChanOpenInit`
  and `onChanOpenTry` accept, which is either (`Orderings`).
* In `IBFT2Seals` a seal is the address that its signature recovers to and `None`
  the empty bytes. Honest validators sign the blocks of the chain and nothing
  else; at most `f(n)` of each set of `n` are faulty, the failure model of
  `docs/ibft2-light-client.md`. `IBCClient` takes over from there: its
  `updateClient` accepts blocks of the tracked chain.
* In `Coordinator` a call of the driver is cut into the steps between which the
  chains go on: the transaction, its receipt, the newer header, the transaction
  that updates the other client, and its receipt. The retries and time limits of
  the polling loops are left out: the driver waits until what it polls for is
  there. A transaction that would revert cannot be sent, so that a model that stops
  before the end of the script is a test that fails.
* In `ProtoCodec` a message is a record and a sequence of field descriptions; the
  generated functions of all messages are instances of the same few operators, as
  they are of one template. Widths are scaled: 15 bits for the 64 of a word, 8 for
  the 32 of an enumeration, with the same number of bits in the last group of a
  varint. Lengths and field numbers are truncated as Go does.
* `uint64` sequences are modulo `UINT64`. Heights have a revision number in the
  code that is always 0 in what the handler compares; it is left out.
* Definitions marked "Faulty variant" are not part of any action. Each is a
  plausible bug in the definition below it, and puts a property to the test.

## The hard parts

Every hazard is in `PROJECT.json` with its line and the properties for it.

* Stale proofs: an end is verified against any block the client ever accepted.
* `Try` always creates a new end, so one `Init` can be answered several times and
  hellos can cross: which of the ends get to OPEN, and do they pair up?
* The channel handshake starts over a connection that is not open, and
  `sendPacket` does not look at the connection's state.
* Relayers repeat, delay and reorder packets and acknowledgements, and relay
  them to the wrong channel.
* Applications that answer late race with other deliveries.
* The receiver judges a timeout by its own block, the sender by what its client
  knows of the receiver.
* `uint64` wrap-around of sequences; units of timeout timestamps.
* One escrow account for all channels, failures that are caught half-way through a
  delivery, and vouchers that go back over another channel than they came by.
* Validator sets that change between updates, thresholds rounded down, seals paired
  with validators by position, updates out of order.
* Two codecs for the same bytes; lengths that are negative or overflow an index.
* A driver that caches headers and reads identifiers from logs while the chains
  go on, and starts again on chains that hold the results of its first run.
* Liveness: what must be accepted in the end but never is.

## Runs

The runs of `MCIBC` have two chains `A` and `B`.

| Run | Module | What it varies | Checks | States |
|---|---|---|---|---|
| `connection_crossing` | `MCIBC` | from deployment (`Spec`); two connections per chain, clients up to one block behind | `ConnectionsAgree`, `TryOpenAnswersInit`, `ConnectionMovesForward`, `ImplementsHandshake` | 239,986 |
| `channel` | `MCIBC` | two channels per chain, two versions, over a connection that is only half open: several Trys, crossing hellos, old proofs | `ChannelsAgree`, `TryOpenChannelAnswersInit`, `OpenChannelHasOpenConnection`, `ChannelMovesForward`, `ImplementsChannelHandshake` | 157,196 |
| `packet` | `MCIBC` | an open channel of each ordering, two packets with two payloads, two acknowledgements, immediate or late, sequences modulo 3 | `TypeOK`, `SequencesNeverReused`, `OrderedDelivery`, `AcknowledgedOnce`, `CommittedUntilAcknowledged`, `AcknowledgementFinal` | 16,734 |
| `packet_channels` | `MCIBC` | two channels over one connection, packets both ways with the same sequences | `ReceivedOnce`, `ImplementsDelivery` | 81,848 |
| `packet_timeout` | `MCIBC` | timeouts by height and by time, idle blocks | `TimeoutFinal` | 96,002 |
| `live` | `MCIBC` | two packets on an ordered or unordered channel, fair relayer | `EveryPacketReceived`, `UnorderedPacketsAcknowledged` | 1,173 |
| `coordinator` | `MCCoordinator` | the whole script of `TestChannel`, twice over the same contracts; one idle block or one foreign binding of the port at any moment | `RecordedEndsOpen`, `ChannelOwnedByPortOwner`, `NothingOutstanding`, `TestCompletes` | 11,308 |
| `transfer` | `MCTransfer` | two units of a token, transfers and gifts, both ways over an ordered and an unordered channel with crossed identifiers, with and without a timeout; one call of a callback from outside | `NativeBacked`, `EscrowAccountsForVouchers`, `TransfersSettle` | 95,620 |
| `seals` | `MCSeals` | five chains with sets of one to six validators that grow and shrink; relayed headers, and any header that faulty validators can help to seal | `SafeAboveThird`, `NextBlockVerifiable`, `LatestIsHighest`, `RelayedWhole` | 326 |
| `codec` | `MCCodec` | all 17 messages, fields empty, short, long and at the boundaries of a varint; unknown fields; a byte replaced, removed or added | `RoundTrip`, `ContractAgrees`, `AcceptedBytesStable`, `IndexMovesForward` | 117,191 |
| `ordered_ack` | `MCIBC` | ordered channel, fair relayer | violates `EveryPacketAcknowledged` | |
| `seals_honest` | `MCSeals` | four validators, one of them faulty | violates `OnlyChainBlocks` | |

Bounds, and why they are enough:

* `MaxHeight`, the number of blocks of a chain: each handshake step needs one
  block to become visible, so 4 or 5 blocks let a handshake finish and leave
  older blocks for stale proofs. With `IdleBlocks = FALSE` a block is sealed
  only when the store changed, so that a bound on blocks is a bound on work; the
  timeout runs, where time itself matters, seal idle blocks.
* `HeaderLag`: how far behind the tip a submitted header may be. 0 in most runs,
  which still leaves clients arbitrarily far behind (they need not be updated);
  1 in `connection_crossing`, so that clients also skip and go back.
* `MaxConnections = 2` and `MaxChannels = 2` in the crossing runs: one `Init`
  answered by two `Try`s, and two `Init`s that cross, need two ends per chain and
  no more.
* `UINT64`: 3 in `packet`, so that two packets use up the sequences and the
  counter wraps around to 0; 2 where one packet per end is enough.
* The start states of `MCIBC` are states the handshakes reach, except that the
  blocks of the handshakes are left out: no packet is committed in them, so no
  packet can be verified against them, and the only difference is the number of
  the first block. `connection_crossing` and `coordinator` start from deployment.
* `transfer`: one transfer per channel end and traces of two channels are enough for
  a token to leave, to travel on over the other channel, to come back by either, and
  to fail on its way back: sent to the zero address, or to an escrow account that is
  short. At `UINT256 = 3` a third unit would overflow. A user, the escrow account and the
  zero address are the receivers a transfer can treat differently (`Receiver`). What `A`
  sends over its unordered channel may time out at height 1 of `B`, whose only further
  block may come at any moment. The packet of the one outside call (`OutsideData`)
  names native tokens of `A` over that channel: called as an acknowledgement it takes
  them out of escrow, called as a delivery it mints vouchers of them.
* `seals`: sets of three, four, five and six validators are those in which `n/3`,
  `2n/3` and `(n-1)/3` are rounded in every way; one and two are those in which the
  threshold `n/3` is 0. `MaxSeals = 4` bounds arbitrary headers and is more than a
  third of every set; relayed headers have all their seals.
* `codec`: `MCNumbers` and `MCStrings` are the values on both sides of the one-byte
  varint and the largest one; `MCDamage` has the bytes that end or continue a varint,
  keys of every wire type, a negative length and one that overflows the index.
  Damage is applied to encodings of up to 24 bytes, which every message has.
* `coordinator`: two rounds, because the second one finds the state of the first, and
  one disturbance, because what it does to a call is over when the call is;
  `MaxHeight` is more than the script needs, and `HeaderLag` more than the number of
  disturbances, so that a cached header is never too far behind the tip to be one of
  those that `updateClient` is offered. `MCInputsSuffice` has TLC evaluate on this
  instance the hypothesis of the theorems about the driver.
* Deadlock is not checked: with bounded blocks and identifiers an instance
  always comes to an end, and a chain to which nobody submits a transaction is
  no fault; the script of the coordinator ends, and that it ends only at its end is
  `TestCompletes`.

`SYMMETRY` exchanges the two chains, or the two channel versions, in runs that check
no liveness and whose constants treat both alike.

## Refinement

`PacketDelivery` says what an application may rely on: a message is delivered at
most once, as it was sent and in order if the channel is ordered, its receiver
answers once, and the sender hears of that answer once. Run `packet_channels` checks
`ImplementsDelivery`: under a mapping (`Delivery` in `MCIBC`) that shows an
application's view of a channel end, its events and written answers, every behaviour of
`IBCHandler` from open channels is one of `PacketDelivery`. Clients, blocks, proofs
and all that relayers submit in vain are stuttering steps. `ICS20Transfer` is built on
that abstract module, so that what it shows of tokens holds over the contracts.

`OpenImplementsDelivery` proves the same for any number of channels, packets, blocks
and clients, in a deployment (`OpenDeployment`) of two chains that track each other
and use one port, with something to choose from for each of the constants that the
open start state picks a value of. The instance of `packet_channels` is such a
deployment.

`Handshake` says what the two handshakes are for. Its state is the set of ends that are
open and the set of agreements, each of two ends and their terms; its only step opens
one end, which either is the first (`Agree`: neither end is bound yet) or the second
(`Confirm`). `IBCConnection` and `IBCChannel` instantiate it with the same mapping: the
open ends are those that are OPEN, and an OPEN end stands for an agreement with the end
it names on the chain its client tracks, on version and delay of a connection, on
ordering and version of a channel. That a third end cannot join, that the second to
open says what the first has said, and that none of this ever changes are no
properties of a state but of this refinement (`ImplementsHandshake` in run
`connection_crossing`, `ImplementsChannelHandshake` in run `channel`).
`ConnectionsImplementHandshake` and `ChannelsImplementHandshake` prove it between paired
chains for any number of chains, clients, ends and blocks, from deployment.

## Fairness

`FairSpec` assumes of each chain weak fairness of sealing blocks, of updating each
client, of receiving and of acknowledging each packet, and of the application's
late answers. The contracts schedule nothing themselves: progress comes from the
chain and from the relayer. The chain seals blocks by itself. The relayer of the
repository (`src/pkg/testing/coordinator.go`, lines 355-413) follows each send,
receive and acknowledgement with an update of the other side's client and goes on
to the next step of the packet. Weak fairness asks no more than that a relayer
keeps submitting what the handler would accept. No handshake step and no send is
assumed to be fair. Blocks are sealed only while fewer than `MaxHeight`; the bound
of the liveness runs is large enough for all packets, and as idle blocks are not
sealed no chain runs out of blocks for lack of patience.

`ICS20Transfer!Spec` assumes weak fairness of delivering each packet and each
acknowledgement, the same relayer seen from above: run `live` shows that on unordered
channels, the ones `TransfersSettle` is about, both follow from the fairness of
`FairSpec`. Nothing is assumed of users, of callers from outside or of `NewBlock`: a packet
may be delivered before its timeout or not.

`CoordinatorSpec` assumes weak fairness of the driver, a sequential program, and of
sealing a block while the driver waits for one: a chain with a pending transaction
seals it, and Besu's IBFT 2.0 goes on producing blocks. Idle blocks and foreign
transactions are not assumed to happen.

## Proofs

Checked by TLAPS for all values of the constants that satisfy the named
assumptions. TLC evaluates all of them on every run of their modules.

| Assumption | Says |
|---|---|
| `NumberAssumption` | bounds are naturals, `UINT64 > 1`, a block takes time |
| `InputAssumption`, `ConnectionInputAssumption`, `ChannelInputAssumption`, `ApplicationAssumption`, `HeaderLagAssumption`, `ChainAssumption` | messages carry values of the declared kinds |
| `SlotAssumption` | an unset slot holds no value |
| `PeerAssumption`, `AnswerAssumption` | the ends of channels come in pairs, packets are numbered, an answer is not the lack of one |
| `ChainsAssumption` | light client: validators of a block are distinct, more than two thirds of them seal it, a set changes by at most one address per block |
| `ListsAssumption`, `CounterAssumption` | validator lists are sequences, the counter has a width |
| `AccountAssumption` | finitely many users, of which the escrow account and the bank are none |
| `SupplyAssumption`, `BoundAssumption` | a token has no more units than a uint256 counts |
| `TransferAssumption` | packets of transfers: ends are those of finitely many channels, numbers count from one, an answer is success or failure, amounts and timeouts are naturals, receivers are accounts, a packet from outside has an amount of some denomination, the ends of a channel have the same order |

Five hypotheses are stated with the theorems that need them, and are no assumptions on
the constants, because the code enforces none of them:

* `Paired`: chains come in pairs whose clients track each other. `validateSelfClient`
  accepts anything; with a third chain `ConnectionsMutual` need not hold.
* `CountersSuffice`: every block has fewer validators than the counter of seals can
  count. It is a `uint8` (`IBFT2Client.sol:191`); with 256 validators that all sign it
  wraps around.
* `OpenDeployment`: see Refinement.
* `InputsSuffice`: the sets that the actions of `IBCHandler` draw their messages from hold
  what the test sends. The program does not limit these values, the model does; run
  `coordinator` evaluates the hypothesis on its instance.
* `SafeAboveThird` carries its own: a third of each validator set, rounded down, exceeds
  its faulty members.

| Theorem | Says |
|---|---|
| `TypeCorrect` | `Spec => []TypeOK` |
| `ConnectionsAlwaysAgree` | between paired chains, `Spec => []ConnectionsAgree` |
| `NoCrossingHellos` | between paired chains, `Spec => []TryOpenAnswersInit` |
| `PairedConnectionsMutual` | between paired chains, `Spec => []ConnectionsMutual` |
| `HandshakeForward` | between paired chains, `Spec => ConnectionMovesForward` |
| `ConnectionsImplementHandshake` | between paired chains, `Spec => ImplementsHandshake` |
| `OpenChannelsConnected` | `Spec => []OpenChannelHasOpenConnection` |
| `ChannelOwnership` | `Spec => []ChannelOwnedByPortOwner` |
| `SequencesUnique` | `Spec => []SequencesNeverReused` |
| `OutstandingCommitted` | `Spec => []CommittedUntilAcknowledged` |
| `AcknowledgementsFinal` | `Spec => AcknowledgementFinal` |
| `ChannelsAlwaysAgree` | between paired chains, `Spec => []ChannelsAgree` |
| `NoCrossingChannelHellos` | between paired chains, `Spec => []TryOpenChannelAnswersInit` |
| `ChannelHandshakeForward` | between paired chains, `Spec => ChannelMovesForward` |
| `ChannelsImplementHandshake` | between paired chains, `Spec => ImplementsChannelHandshake` |
| `TimeoutsFinal` | between paired chains, `Spec => TimeoutFinal` |
| `DeliveryInvariant` | between paired chains, `Spec => []DeliveryInv`, the inductive invariant of delivery |
| `PacketsReceivedOnce` | between paired chains, `Spec => []ReceivedOnce` |
| `OrderedPacketsInOrder` | between paired chains, `Spec => []OrderedDelivery` |
| `AnswersHeardOnce` | between paired chains, `Spec => []AcknowledgedOnce` |
| `OpenImplementsDelivery` | in an `OpenDeployment`, `SpecOpen => ImplementsDelivery` |
| `TestInvariant` | of `Coordinator`, where `InputsSuffice`: `CoordinatorSpec => []TestInv`, its inductive invariant |
| `TestEndsOpen` | of `Coordinator`, where `InputsSuffice`: `CoordinatorSpec => []RecordedEndsOpen` |
| `TestIsSafe` | of `Coordinator`, where `InputsSuffice`: `ChannelOwnedByPortOwner`, `ReceivedOnce` and `AcknowledgedOnce` always hold |
| `ClientFollowsChain` | of `IBFT2Seals`: `Spec => []SafeAboveThird` |
| `LatestHeightHighest` | of `IBFT2Seals`: `Spec => []LatestIsHighest` |
| `RelayedUpdatesWhole` | of `IBFT2Seals`: `Spec => RelayedWhole` |
| `NextBlockAccepted` | of `IBFT2Seals`, where `CountersSuffice`: `Spec => []NextBlockVerifiable` |
| `TransfersTyped` | of `ICS20Transfer`: types, what is answered was delivered and what is delivered was sent; while `outside = 0`, no denomination adds up to more than a uint256 |
| `BankBacked` | of `ICS20Transfer`, whoever calls the callbacks: `Spec => []NativeBacked` |
| `EscrowAccounted` | of `ICS20Transfer`: `Spec => []EscrowAccountsForVouchers`, which is about behaviours in which only the handler calls the callbacks |
| `VouchersFit` | of `ICS20Transfer`: while `outside = 0`, what is in flight of a denomination and its vouchers do not exceed a uint256 |

The arguments:

* `TypeCorrect` is inductive as it stands, one lemma per action and group of
  variables (`IBCHandler_proofs`).
* `ConnectionsAgree` is not inductive: an end is opened on the strength of an old
  block, so one has to know how what the block shows relates to the present.
  `ConnectionInv` adds that a client knows only blocks its chain has sealed, that
  what a sealed block shows of an end is a stage the end has passed through
  (`SealedForward`, with the transitive `MovesForward`), and that an end that is
  TRYOPEN now *or in a sealed block* answers an end that is INIT or OPEN. The last
  part is what rules out that two TRYOPEN ends acknowledge each other. An Ack then
  finds, in a block of the peer, a TRYOPEN end that names it; the peer cannot
  have moved to another counterparty since, because Confirm keeps all fields.
* `OpenChannelHasOpenConnection` needs that a channel's hop exists while the channel
  is INIT or TRYOPEN, that connections never fall back, and that the identifiers
  still to be generated are unused, so that Init and Try never overwrite an end
  (`ChannelInv`).
* `ChannelOwnedByPortOwner` follows by `OwnerInv`: an end that does not exist is
  nobody's, so the claim of a new end leaves it with one owner, and a later
  `bindPort` only appends to the modules of a port and never changes the first.
* `SequencesNeverReused` and `CommittedUntilAcknowledged` need the relation between
  `nextSequenceSend` and the number of packets sent, including the wrap-around
  (`SendsCounted`), and that only sent packets are acknowledged (`AcksWereSent`).
  `PacketInv` has both, and builds on `ChannelInv` for the claim that a new channel
  end has sent nothing.
* `ChannelsAgree` is proved as `ConnectionsAgree` is, one floor up: `AgreementInv` says
  what a sealed block may show of a channel end (`SealedChannelsForward`) and that a
  TRYOPEN end, now or in a sealed block, answers an end that is INIT or OPEN. The peer of
  a channel is found through its connection, so the argument stands on `ConnectionInv`:
  over a connection whose ends name each other, so do the channels.
* `ConnectionsImplementHandshake` and `ChannelsImplementHandshake` follow from three facts
  about a step: at most one end changes (`OneConnectionChanges`, `OneChannelChanges`);
  an end that is OPEN stays as it is, with the chain its client tracks
  (`OpenConnectionsStay`, `OpenChannelsStay`, `ClientsKept`); and before and after it
  an OPEN end and its peer name each other on the same terms (`OpenPaired`,
  `OpenChannelPaired`, from `ConnectionInv` and `AgreementInv`). When an end opens, its
  peer is OPEN, and the step is a `Confirm`, or it is not, and then no OPEN end names
  either of them, since it would be named in return: an `Agree`. Besides, the terms are of
  the declared kind: an existing connection end has one version (`VersionsChosen`), an
  existing channel end one that a message has named (`VersionsNamed`).
* `TimeoutFinal` takes a header that the sender's client knows to be a sealed block of
  the very chain that would receive the packet. Blocks only get higher and later, so
  the guard of `recvPacket` fails from then on.
* `DeliveryInv` has one part for each stage of a packet: what is sent names the two ends
  of its channel (`SentAddressed`); what a sealed block shows as committed was sent
  (`SealedPacketsSent`); what is received was sent and is counted by the receipts or by
  `nextSequenceRecv` (`ReceivedWereSent`, `ReceivedCounted`); what is answered was
  received, and stays the answer, also in sealed blocks (`AnsweredWereReceived`,
  `SealedAnswersFinal`); what is acknowledged was answered so, once (`AckedWereAnswered`,
  `AckedDistinct`). The parts about sealed blocks carry a packet and its answer across
  the lag of the clients; that the proof is about the right end follows from
  `AgreementInv`.
* `OpenImplementsDelivery` starts from `InitOpen`, which is no state of `Init`; so
  `OpenInv` establishes the parts of the invariants above for it afresh. Then there is one
  lemma per action: `sendPacket`, `recvPacket` with and without an immediate answer,
  `writeAcknowledgement` and `acknowledgePacket` are the four steps of `PacketDelivery`,
  and all others leave the mapped variables as they are.
* `TestEndsOpen` and `TestIsSafe` rest on `TestInv`. Every step of the test is one of the
  handler's `Next` (`StepRefines`), so that all of the handler's invariants hold in the test.
  For that one has to know that each call finds what it reads: `DriverInv` follows the
  24 calls of a round through the stages of a call (`StagesInOrder`). Cached headers
  are within the lag of the tip (`HeadersFresh`, which counts the disturbances so far);
  each chain's client is the last it created and tracks the other chain
  (`ClientsCreated`); the recorded ends are the last ones created, in the states that
  the calls so far have given them (`ConnectionsCreated`, `ChannelsCreated`); the
  only packet under way is the last one sent (`SentOnce`). Between a transaction and
  its receipt the identifier is in the host's log only and not yet in the test's record. The
  first part of the invariant is `DeliveryInv` of the handler: what an OPEN end says of
  the other side, and that a packet is received once, the test inherits. Rounds and disturbances are unbounded.
* `AcknowledgementFinal` follows from types and the guard of
  `writeAcknowledgement`, on both of the paths that reach it.
* `SafeAboveThird` follows by `SafetyInv`: as long as a third of each set, rounded
  down, exceeds its faulty members, every stored consensus state is of a block of the
  chain and its validators are that block's, gaps apart. A header of no block carries
  seals of faulty validators and outsiders only; the entries of the trusted set they
  mark map one to one into the faulty validators of a block (`MarkedByFaulty`, since
  the validators of a block are distinct), so that they are fewer than the threshold
  (`ForgedRejected`), whatever the width of the counter. `LatestIsHighest` is
  inductive together with the shape of the stored states (`HighestInv`), from which
  `RelayedWhole` follows because the relayer gives every validator a position among
  the seals (`AllSealsFillIn`). `NextBlockVerifiable` needs `StoredInv` besides: a
  state stored for a block of the chain has this block's validators, or gaps. More than
  two thirds of the next block's validators have sealed it, and as the set has changed by
  one address at most, a third of the trusted set, rounded down, is among them
  (`ThirdRemains`); neither count wraps around (`CounterExact`).
* `EscrowAccountsForVouchers` equates sums over finite sets of channels, users and
  packets. What such a sum does when one term changes is proved from a least
  counterexample, as the induction theorems of the library are out of reach
  (see below). The inductive invariant joins the delivery of packets (`DeliveryInv` of
  this module, with `SentCanArrive`: no denomination gets too long on the way) with
  `AccountInv`: the equation itself; that every voucher came over the channel that its
  prefix names (`VouchersCameOver`); and bounds on balances and wallets
  (`SupplyBounded`, `WalletsBounded`). The bounds and the equation need each other:
  `_mint` adds without looking for an overflow, and none occurs because what is abroad
  is covered by an escrow that fits into a uint256 (`FlightCovered`). Every send, delivery
  and acknowledgement is an instance of `TransferStep`: what the escrow account gains
  or loses is the change of what is in flight there, in flight back, and in vouchers.
  All this is under `outside = 0`: a call from outside breaks the equation.
* `NativeBacked` needs none of it, and holds whoever calls. `BackedInv` has the types and
  the bound on the wallets only: what the callbacks mint is a voucher and never a native
  denomination, or the refund of a voucher, and what they release moves between accounts
  of one denomination. Only deposits make native units, one for each token that the bank
  takes. `FullInv` is `BackedInv`, and the invariant above while `outside = 0`.

Only model-checked:

* `RoundTrip`, `ContractAgrees`, `AcceptedBytesStable` and `IndexMovesForward`: the codec
  is recursive in its messages, and the prover takes neither recursive operators nor
  induction over data.
* `EveryPacketReceived`, `UnorderedPacketsAcknowledged`, `TestCompletes` and
  `TransfersSettle`: liveness, since the prover does not handle `ENABLED` and fairness.
* `NothingOutstanding`: the invariant of the driver follows the present round only, and
  this is about the channels of all rounds.

## Findings

1. `ordered_ack`: `acknowledgePacket` requires `nextSequenceAck == 0` and the
   packet's sequence to equal it (`IBCChannel.sol:267-268`), but the handshake sets
   it to 1. No acknowledgement on an ordered channel is ever accepted; the
   commitment stays for ever.
2. `seals_honest`: `docs/ibft2-light-client.md:79` says that a third of the trusted
   validators includes an honest one when at most `(n-1)/3` are faulty. The code
   requires `n/3` rounded down (`IBFT2Client.sol:205`), which exceeds `(n-1)/3` rounded
   down only when 3 divides `n`. With four validators the one that may be faulty is
   enough. `SafeAboveThird` and its proof say when the promise holds.

## Noted divergences

Seen while modelling, with no run of their own:

* The handshake accepts the ordering `ORDER_NONE_UNSPECIFIED`; such a channel opens and
  sends, but `recvPacket` reverts on all its packets (`IBCChannel.sol:218`), against
  `Channel.proto:25-26`, "Open channels are ready to send and receive packets".
* Timeout timestamps are documented in nanoseconds (`Channel.proto:113`) and compared
  with times in seconds (`IBCChannel.sol:172`, `:205`).
* `validateSelfClient` returns true for everything (`IBCClient.sol:44-47`); with a
  third chain a connection opens whose other end is maintained with the wrong chain.
  The theorems about connections, channels and delivery therefore assume `Paired`.
* The trusting period of `docs/ibft2-light-client.md:77` (its first condition) is not in
  the code: a header is verified against a trusted block of any age.
* A header may carry fewer seals than it has validators. The stored set then has empty
  entries, and comparing a seal with one reverts: if such a header is the latest, the
  relayer cannot update the client any more, since it always trusts the latest height.
  Its own headers never do that (`RelayedWhole`), and `NextBlockVerifiable` is stated
  for a latest state without gaps.
* `verifyCommitSeals` requires more than `floor(2n/3)` seals, as does the relayer.
* `onRecvPacket` and `onAcknowledgementPacket` of the transfer application do not look
  at their caller (`ICS20Transfer.sol:57`, `:75`). The model has such calls; that the
  escrow account holds what is abroad, and that vouchers fit into a uint256, is shown as long
  as only the handler calls, and is not true of the program otherwise. That native
  units are backed, and that transfers settle, does not depend on it.
* `transferFrom` of the bank refuses the zero address and `mint` does not. As `mint` never
  reverts, a transfer fails only where escrowed tokens are released, and then its refund
  is minted: with this application at both ends, the handler never takes the branch of
  `_refundTokens` that pays from escrow (`ICS20Transfer.sol:141`).

Of note, though no finding: the branch of `connectionOpenAck` for an end in TRYOPEN
(`IBCConnection.sol:82`) and that of `channelOpenAck` (`IBCChannel.sol:89`) are never
taken, since `Try` never continues an existing end; `NoCrossingHellos` and
`NoCrossingChannelHellos` prove it. There is no operation that ends a packet that has timed out;
the tokens of a transfer that times out stay in escrow (`ExpiredOnTheWay`), and so do those
of one that fails over an ordered channel, by the first finding.

## What is not modelled

* Cryptography and byte libraries: RLP, Merkle-Patricia proofs, signature recovery,
  string slices, keys of the store. They are taken to establish what they are for.
* The operator roles of `ICS20Bank` and the allowances of ERC20: the transfer
  application is the operator, and a depositor has approved.
* The checks of `MockClient.sol`: a test double under which no protocol property can
  hold. Its messages are in the codec.
* Retries, time limits and errors of JSON-RPC in `pkg/client` and `pkg/testing`.
* Getters, text forms, descriptors and registration in the generated codecs; the
  generated contract bindings; wallets: no state and no control of their own.
* Deployment: `setIBCModule` and `onlyIBCModule`, the wiring by which only the
  handler reaches the host.
* Closing of channels, timeouts and misbehaviour: the code has none of them.

## Plan

Done, in this order: host, client, connection, channel, handler and their runs; type
correctness; the connection theorems; channels over connections; the sender's side of
packets; codecs; `PacketDelivery` and the refinement; the transfer application;
validator sets and seals with their theorems; the coordinator; the agreement of
channels, the receiver's side of packets and each step of `ImplementsDelivery`, proved;
the sums of escrow and vouchers for any number of channels; `NextBlockVerifiable` for
any chain of validator sets; the test driver, for any number of rounds and
disturbances, as a behaviour of the handler; `Handshake`, with the connection and the
channel handshake as its two implementations, proved. Next:

1. `IBCIdentifier`: injectivity of the keys of the store.
2. What the codec does to a single varint, tag and field, in a module without recursion
   that can be proved about.
