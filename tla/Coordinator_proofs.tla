-------------------------- MODULE Coordinator_proofs -------------------------
(***************************************************************************)
(* The ends that the coordinator of the test suite goes on to use are those*)
(* it opened; and since each of its steps is one of IBCHandler, what is    *)
(* proved of the handler holds of the test.                                *)
(*                                                                         *)
(* The proof follows the script.  A round of TestChannel is 24 calls; the  *)
(* invariant says, for each call after which something is there to be      *)
(* used (a header, a client, a connection, a channel, a packet), what it   *)
(* is.  A call that was submitted and not yet recorded has its identifier  *)
(* in the host's log only.                                                 *)
(***************************************************************************)
EXTENDS Coordinator, IBCDelivery_proofs

-----------------------------------------------------------------------------
(* The inductive invariant                                                 *)

\* The call of the round the driver is at, and the calls it has submitted.
Position == ((pc - 1) % 24) + 1
After(i) == ~Done /\ (Position > i \/ (Position = i /\ stage # "call"))

IdOrNone == Int \cup {None}

DriverTypeOK ==
    /\ pc \in Nat \ {0}
    /\ stage \in {"call", "receipt", "header", "update", "updated"}
    /\ lastHeader \in [Chain -> Nat]
    /\ test \in [Chain -> [client : IdOrNone, connection : IdOrNone,
                           channel : IdOrNone]]
    /\ disturbances \in 0 .. MaxDisturbances
    /\ \A c \in Chain : lastHeader[c] <= tip(c) /\ tip(c) <= MaxHeight

StagesInOrder == ~Done =>
    /\ stage # "call" => op \notin {"NewChain", "UpdateHeader"}
    /\ stage \in {"header", "update", "updated"} => updatesClient
    /\ stage = "receipt" => receipt.chain = caller

\* The cached header of a chain is of a block at most so many behind the tip as
\* were sealed without the driver's doing, and `more`.
Fresh(c, more) ==
    /\ lastHeader[c] \in 1 .. tip(c)
    /\ tip(c) <= lastHeader[c] + disturbances + more

\* Headers are fresh where clients are created or updated with them.
HeadersFresh == ~Done =>
    /\ stage = "update" => Fresh(caller, 0)
    /\ Position \in 6 .. 8 => Fresh(Source, 0)
    /\ Position = 9 /\ stage = "call" => Fresh(Source, 0) /\ Fresh(Target, 0)
    /\ Position = 9 /\ stage = "receipt" =>
         /\ Fresh(Source, 1)
         /\ receipt.height \in 0 .. lastHeader[Source] + disturbances + 1
    /\ Position = 10 /\ stage = "call" => Fresh(Source, 1)

\* What c has created last: recorded by the driver, or still in the log.
unrecorded(ops, c) == stage = "receipt" /\ op \in ops /\ caller = c
newClient(c) ==
    IF unrecorded({"CreateClient"}, c)
    THEN getLastID(nextClientSequence[c]) ELSE test[c].client
newConnection(c) ==
    IF unrecorded({"ConnOpenInit", "ConnOpenTry"}, c)
    THEN getLastID(nextConnectionSequence[c]) ELSE test[c].connection
newEnd(c) ==
    <<TransferPort, IF unrecorded({"ChanOpenInit", "ChanOpenTry"}, c)
                    THEN getLastID(nextChannelSequence[c]) ELSE test[c].channel>>

ClientsCreated ==
    \A c \in Chain : After(IF c = Source THEN 9 ELSE 10) =>
      /\ newClient(c) \in ClientId
      /\ clientStates[c][newClient(c)] # None

ConnectionCreated(c) ==
    LET end == connections[c][newConnection(c)] IN
    /\ newConnection(c) \in ConnectionId
    /\ end.state # "UNINITIALIZED_UNSPECIFIED"
    /\ end.client_id = test[c].client
    /\ end.counterparty.client_id = test[Other(c)].client

\* The end of c is in one of the states and names the end of the other chain.
ConnectionNames(c, states) ==
    LET end == connections[c][newConnection(c)] IN
    /\ end.state \in states
    /\ end.counterparty.connection_id = newConnection(Other(c))

ConnectionsCreated ==
    /\ After(11) => ConnectionCreated(Source)
    /\ After(12) => ConnectionCreated(Target)
                    /\ ConnectionNames(Target, {"TRYOPEN", "OPEN"})
    /\ After(13) => ConnectionNames(Source, {"OPEN"})
    /\ After(14) => ConnectionNames(Target, {"OPEN"})

ChannelCreated(c) ==
    LET end == channels[c][newEnd(c)] IN
    /\ newEnd(c) \in End
    /\ end.state # "UNINITIALIZED_UNSPECIFIED"
    /\ end.connection_hops = <<test[c].connection>>
    /\ end.counterparty.port_id = TransferPort

ChannelNames(c, states) ==
    LET end == channels[c][newEnd(c)] IN
    /\ end.state \in states
    /\ counterpartyEnd(end) = newEnd(Other(c))

ChannelsCreated ==
    /\ After(15) => ChannelCreated(Source)
    /\ After(16) => ChannelCreated(Target)
                    /\ ChannelNames(Target, {"TRYOPEN", "OPEN"})
    /\ After(17) => ChannelNames(Source, {"OPEN"})
    /\ After(18) => ChannelNames(Target, {"OPEN"})

\* Each end sends one packet in a round; the driver has read one to relay.
SentOnce ==
    /\ After(15) => Len(Sent(Source, newEnd(Source))) = IF After(19) THEN 1 ELSE 0
    /\ After(16) => Len(Sent(Target, newEnd(Target))) = IF After(22) THEN 1 ELSE 0
    /\ After(20) => transferPacket \in Packet

DriverInv ==
    /\ DriverTypeOK
    /\ StagesInOrder
    /\ HeadersFresh
    /\ ClientsCreated
    /\ ConnectionsCreated
    /\ ChannelsCreated
    /\ SentOnce

TestInv == DeliveryInv /\ DriverInv

-----------------------------------------------------------------------------
(* The script                                                              *)

LEMMA Chains ==
    /\ Chain = {Source, Target} /\ Source # Target
    /\ Source \in Chain /\ Target \in Chain
    /\ Other(Source) = Target /\ Other(Target) = Source
BY CoordinatorAssumption DEF Other

LEMMA TestCalls ==
    /\ Len(TestChannel) = 24
    /\ TestChannel[1] = Call("NewChain", Source)
    /\ TestChannel[2] = Call("NewChain", Target)
    /\ TestChannel[3] = Call("BindPort", Source)
    /\ TestChannel[4] = Call("RegisterClient", Source)
    /\ TestChannel[5] = Call("UpdateHeader", Source)
    /\ TestChannel[6] = Call("BindPort", Target)
    /\ TestChannel[7] = Call("RegisterClient", Target)
    /\ TestChannel[8] = Call("UpdateHeader", Target)
    /\ TestChannel[9] = Call("CreateClient", Source)
    /\ TestChannel[10] = Call("CreateClient", Target)
    /\ TestChannel[11] = Call("ConnOpenInit", Source)
    /\ TestChannel[12] = Call("ConnOpenTry", Target)
    /\ TestChannel[13] = Call("ConnOpenAck", Source)
    /\ TestChannel[14] = Call("ConnOpenConfirm", Target)
    /\ TestChannel[15] = Call("ChanOpenInit", Source)
    /\ TestChannel[16] = Call("ChanOpenTry", Target)
    /\ TestChannel[17] = Call("ChanOpenAck", Source)
    /\ TestChannel[18] = Call("ChanOpenConfirm", Target)
    /\ TestChannel[19] = Call("SendTransfer", Source)
    /\ TestChannel[20] = Call("HandlePacketRecv", Target)
    /\ TestChannel[21] = Call("HandlePacketAcknowledgement", Source)
    /\ TestChannel[22] = Call("SendTransfer", Target)
    /\ TestChannel[23] = Call("HandlePacketRecv", Source)
    /\ TestChannel[24] = Call("HandlePacketAcknowledgement", Target)
<1> DEFINE s1 == NewCoordinator \o SetupClients
           s2 == s1 \o CreateConnection
           s3 == s2 \o CreateChannel
           s4 == s3 \o Transfer(Source)
<1>1. TestChannel = s4 \o Transfer(Target)
  BY DEF TestChannel
<1> QED
  BY <1>1, Chains DEF NewCoordinator, SetupClients, CreateConnection, CreateChannel,
    Transfer

LEMMA ScriptCalls ==
    ASSUME pc \in Nat \ {0}, ~Done
    PROVE  /\ Position \in 1 .. 24
           /\ op = TestChannel[Position].op
           /\ caller = TestChannel[Position].source
<1>1. Len(TestChannel) = 24 /\ Rounds \in Nat
  BY TestCalls, CoordinatorAssumption
<1>2. /\ Len(Script) = Rounds * 24
      /\ \A k \in 1 .. Rounds * 24 : Script[k] = TestChannel[((k - 1) % 24) + 1]
  BY <1>1 DEF Script
<1>3. pc \in 1 .. Rounds * 24
  BY <1>1, <1>2 DEF Done
<1>4. Position \in 1 .. 24
  BY <1>3 DEF Position
<1> QED
  BY <1>2, <1>3, <1>4 DEF Position, op, caller

LEMMA PositionAdvances ==
    ASSUME pc \in Nat \ {0}, pc' = pc + 1
    PROVE  Position' = IF Position = 24 THEN 1 ELSE Position + 1
BY DEF Position

LEMMA CallKept ==
    ASSUME UNCHANGED pc
    PROVE  /\ UNCHANGED <<op, caller, Position>>
           /\ Done' <=> Done
BY DEF op, caller, Position, Done, Script

\* Which call it is, given its place in the round, and the other way round.
LEMMA CallPlaces ==
    ASSUME pc \in Nat \ {0}, ~Done
    PROVE  /\ Position \in 1 .. 24 /\ caller \in Chain
           /\ op = "NewChain" <=> Position \in {1, 2}
           /\ op = "BindPort" <=> Position \in {3, 6}
           /\ op = "RegisterClient" <=> Position \in {4, 7}
           /\ op = "UpdateHeader" <=> Position \in {5, 8}
           /\ op = "CreateClient" <=> Position \in {9, 10}
           /\ op = "ConnOpenInit" <=> Position = 11
           /\ op = "ConnOpenTry" <=> Position = 12
           /\ op = "ConnOpenAck" <=> Position = 13
           /\ op = "ConnOpenConfirm" <=> Position = 14
           /\ op = "ChanOpenInit" <=> Position = 15
           /\ op = "ChanOpenTry" <=> Position = 16
           /\ op = "ChanOpenAck" <=> Position = 17
           /\ op = "ChanOpenConfirm" <=> Position = 18
           /\ op = "SendTransfer" <=> Position \in {19, 22}
           /\ op = "HandlePacketRecv" <=> Position \in {20, 23}
           /\ op = "HandlePacketAcknowledgement" <=> Position \in {21, 24}
           /\ caller = Source <=>
                Position \in {1, 3, 4, 5, 9, 11, 13, 15, 17, 19, 21, 23}
           /\ caller = Target <=>
                Position \in {2, 6, 7, 8, 10, 12, 14, 16, 18, 20, 22, 24}
BY ScriptCalls, TestCalls, Chains DEF Call

\* What an action does to the driver's place in the script.
stepsOn == stage' = "call" /\ pc' = pc + 1

LEMMA DriverSteps ==
    ASSUME CoordinatorNext, pc \in Nat \ {0},
           stage \in {"call", "receipt", "header", "update", "updated"}
    PROVE  /\ ~Done
           /\ NewChain \/ AlreadyDone =>
                /\ stage = "call" /\ stepsOn
                /\ op \in {"NewChain", "BindPort", "RegisterClient"}
           /\ \/ NewChain /\ stage = "call" /\ stepsOn
              \/ AlreadyDone /\ stage = "call" /\ stepsOn
              \/ Submit /\ stage = "call" /\ stage' = "receipt" /\ pc' = pc
              \/ /\ WaitForReceipt /\ stage = "receipt"
                 /\ IF updatesClient THEN stage' = "header" /\ pc' = pc ELSE stepsOn
              \/ /\ UpdateHeader
                 /\ \/ stage = "header" /\ stage' = "update" /\ pc' = pc
                    \/ stage = "call" /\ op = "UpdateHeader" /\ stepsOn
              \/ /\ UpdateOtherClient
                 /\ stage = "update" /\ stage' = "updated" /\ pc' = pc
              \/ ClientUpdated /\ stage = "updated" /\ stepsOn
              \/ /\ \E c \in Chain : SealAwaited(c) \/ SealIdle(c) \/ BindOther(c)
                 /\ stage' = stage /\ pc' = pc /\ UNCHANGED driverVars
BY DEF CoordinatorNext, DriverNext, NewChain, AlreadyDone, Submit,
       WaitForReceipt, UpdateHeader, UpdateOtherClient, ClientUpdated,
       SealAwaited, SealIdle, BindOther, Seal, awaited, disturb, stepsOn, driverVars

\* A call is among those submitted when it was before, or by its submission.
LEMMA AfterSubmitted ==
    ASSUME DriverTypeOK, StagesInOrder, CoordinatorNext, NEW i \in 9 .. 22, After(i)'
    PROVE  /\ ~Done /\ Position \in 9 .. 24
           /\ ~NewChain /\ ~AlreadyDone
           /\ \/ After(i)
              \/ Submit /\ Position = i /\ stage' = "receipt" /\ pc' = pc
<1>1. /\ ~Done /\ ~Done' /\ pc \in Nat \ {0}
      /\ stage \in {"call", "receipt", "header", "update", "updated"}
      /\ Position' > i \/ (Position' = i /\ stage' # "call")
  BY DriverSteps DEF DriverTypeOK, After
<1>2. Position \in 1 .. 24
  BY <1>1, CallPlaces
<1>3. CASE pc' = pc
  <2>1. Position' = Position
    BY <1>3, CallKept
  <2>2. ~NewChain /\ ~AlreadyDone
    BY <1>1, <1>3, DriverSteps DEF stepsOn
  <2>3. stage' = stage \/ stage # "call" \/ (Submit /\ stage' = "receipt")
    BY <1>1, <1>3, DriverSteps DEF stepsOn
  <2>4. Position \in 9 .. 24
    BY <1>1, <1>2, <2>1
  <2>5. CASE Position > i
    BY <1>1, <2>2, <2>4, <2>5 DEF After
  <2>6. CASE Position = i
    BY <1>1, <1>3, <2>1, <2>2, <2>3, <2>4, <2>6 DEF After
  <2> QED
    BY <1>1, <2>1, <2>5, <2>6
<1>4. CASE pc' = pc + 1
  <2> stage' = "call"
    BY <1>4, DriverSteps DEF stepsOn, DriverTypeOK
  <2>1. Position' = Position + 1 /\ Position >= i
    BY <1>1, <1>2, <1>4, PositionAdvances
  <2>2. op \notin {"NewChain", "BindPort", "RegisterClient", "UpdateHeader"}
    BY <1>1, <1>2, <2>1, CallPlaces
  <2>3. stage # "call"
    BY <1>1, <1>4, <2>2, DriverSteps DEF stepsOn
  <2>4. ~NewChain /\ ~AlreadyDone
    BY <1>1, <2>3, DriverSteps
  <2> QED
    BY <1>1, <1>2, <2>1, <2>3, <2>4 DEF After
<1> QED
  BY <1>1, <1>3, <1>4, DriverSteps DEF stepsOn

-----------------------------------------------------------------------------
(* What the driver has recorded, and what is still in a log                *)

\* What goes on without the driver leaves the clients and the ends alone.
LEMMA EnvironmentFrame ==
    ASSUME NEW c \in Chain, SealAwaited(c) \/ SealIdle(c) \/ BindOther(c)
    PROVE  UNCHANGED <<driverVars, clientVars, connectionVars, channelVars,
                       sequenceVars, packetVars, eventVars>>
BY DEF SealAwaited, SealIdle, BindOther, Seal, SealBlock, noEvent, bindPort,
       driverVars

\* A call has one source, and what it created is recorded once.
LEMMA RecordsKept ==
    ASSUME DriverTypeOK, CoordinatorNext, ~NewChain, NEW c \in Chain
    PROVE  /\ ~(Submit /\ op = "CreateClient" /\ caller = c) =>
                newClient(c)' = newClient(c)
           /\ ~(Submit /\ op \in {"ConnOpenInit", "ConnOpenTry"} /\ caller = c) =>
                newConnection(c)' = newConnection(c)
           /\ ~(Submit /\ op \in {"ChanOpenInit", "ChanOpenTry"} /\ caller = c) =>
                newEnd(c)' = newEnd(c)
<1>1. /\ ~Done /\ pc \in Nat \ {0}
      /\ stage \in {"call", "receipt", "header", "update", "updated"}
  BY DriverSteps DEF DriverTypeOK
<1>2. caller \in Chain
  BY <1>1, CallPlaces
<1>3. CASE Submit
  <2>1. /\ stage = "call" /\ stage' = "receipt" /\ pc' = pc /\ test' = test
    BY <1>3 DEF Submit
  <2>2. op' = op /\ caller' = caller
    BY <2>1, CallKept
  <2> QED
    BY <1>3, <2>1, <2>2 DEF newClient, newConnection, newEnd, unrecorded
<1>4. CASE WaitForReceipt
  <2>1. stage = "receipt" /\ stage' # "receipt"
    BY <1>4 DEF WaitForReceipt
  <2>2. /\ test'[c].client = newClient(c)
        /\ test'[c].connection = newConnection(c)
        /\ <<TransferPort, test'[c].channel>> = newEnd(c)
    <3>1. CASE op = "CreateClient"
      BY <1>2, <1>4, <2>1, <3>1 DEF WaitForReceipt, record, newClient,
         newConnection, newEnd, unrecorded, DriverTypeOK
    <3>2. CASE op \in {"ConnOpenInit", "ConnOpenTry"}
      BY <1>2, <1>4, <2>1, <3>2 DEF WaitForReceipt, record, newClient,
         newConnection, newEnd, unrecorded, DriverTypeOK
    <3>3. CASE op \in {"ChanOpenInit", "ChanOpenTry"}
      BY <1>2, <1>4, <2>1, <3>3 DEF WaitForReceipt, record, newClient,
         newConnection, newEnd, unrecorded, DriverTypeOK
    <3>4. CASE op \notin {"CreateClient", "ConnOpenInit", "ConnOpenTry",
                          "ChanOpenInit", "ChanOpenTry"}
      BY <1>4, <3>4 DEF WaitForReceipt, newClient, newConnection, newEnd,
         unrecorded
    <3> QED
      BY <3>1, <3>2, <3>3, <3>4
  <2> QED
    BY <2>1, <2>2 DEF newClient, newConnection, newEnd, unrecorded
<1>5. CASE AlreadyDone \/ UpdateHeader \/ UpdateOtherClient \/ ClientUpdated
  <2>1. stage # "receipt" /\ stage' # "receipt" /\ test' = test
    BY <1>5 DEF AlreadyDone, UpdateHeader, UpdateOtherClient, ClientUpdated
  <2> QED
    BY <2>1 DEF newClient, newConnection, newEnd, unrecorded
<1>6. ASSUME NEW d \in Chain, SealAwaited(d) \/ SealIdle(d) \/ BindOther(d)
      PROVE  UNCHANGED <<newClient(c), newConnection(c), newEnd(c)>>
  <2>1. UNCHANGED <<driverVars, nextClientSequence, nextConnectionSequence,
                    nextChannelSequence>>
    BY <1>6, EnvironmentFrame DEF clientVars, connectionVars, channelVars
  <2>2. UNCHANGED <<pc, stage, test, op, caller>>
    BY <2>1, CallKept DEF driverVars
  <2> QED
    BY <2>1, <2>2 DEF newClient, newConnection, newEnd, unrecorded
<1> QED
  BY <1>1, <1>3, <1>4, <1>5, <1>6, DriverSteps

LEMMA TestKept ==
    ASSUME DriverTypeOK, CoordinatorNext, ~NewChain, NEW c \in Chain
    PROVE  /\ op # "CreateClient" => test'[c].client = test[c].client
           /\ op \notin {"ConnOpenInit", "ConnOpenTry"} =>
                test'[c].connection = test[c].connection
           /\ op \notin {"ChanOpenInit", "ChanOpenTry"} =>
                test'[c].channel = test[c].channel
<1>1. caller \in Chain
  BY DriverSteps, CallPlaces DEF DriverTypeOK
<1>2. CASE WaitForReceipt
  BY <1>1, <1>2 DEF WaitForReceipt, record, DriverTypeOK
<1>3. CASE test' = test
  BY <1>3
<1> QED
  BY <1>2, <1>3, DriverSteps
  DEF DriverTypeOK, AlreadyDone, Submit, UpdateHeader, UpdateOtherClient,
     ClientUpdated, driverVars

LEMMA Submitted ==
    ASSUME Submit
    PROVE  /\ stage = "call" /\ stage' = "receipt" /\ pc' = pc
           /\ UNCHANGED <<lastHeader, test>>
           /\ receipt' = [chain |-> caller, height |-> BlockNumber(caller)]
           /\ op = "BindPort" => BindPortTx(caller)
           /\ op = "RegisterClient" => RegisterClientTx(caller)
           /\ op = "CreateClient" => CreateIBFT2Client(caller)
           /\ op = "ConnOpenInit" => ConnectionOpenInitTx(caller)
           /\ op = "ConnOpenTry" => ConnectionOpenTryTx(caller)
           /\ op = "ConnOpenAck" => ConnectionOpenAckTx(caller)
           /\ op = "ConnOpenConfirm" => ConnectionOpenConfirmTx(caller)
           /\ op = "ChanOpenInit" => ChannelOpenInitTx(caller)
           /\ op = "ChanOpenTry" => ChannelOpenTryTx(caller)
           /\ op = "ChanOpenAck" => ChannelOpenAckTx(caller)
           /\ op = "ChanOpenConfirm" => ChannelOpenConfirmTx(caller)
           /\ op = "SendTransfer" => SendTransferTx(caller)
           /\ op = "HandlePacketRecv" =>
                /\ HandlePacketRecvTx(caller, GetLastSentPacket(Other(caller)))
                /\ transferPacket' = GetLastSentPacket(Other(caller))
           /\ op # "HandlePacketRecv" => transferPacket' = transferPacket
           /\ op = "HandlePacketAcknowledgement" =>
                HandlePacketAcknowledgementTx(caller, transferPacket)
BY DEF Submit, Transaction, awaitReceipt

-----------------------------------------------------------------------------
(* Clients and connections                                                 *)

LEMMA TestPaired == InputsSuffice => Paired
BY Chains DEF InputsSuffice, Paired

LEMMA ClientsCreatedStep ==
    ASSUME InputsSuffice, TestInv, CoordinatorNext, [Next]_vars, TypeOK'
    PROVE  ClientsCreated'
<1> SUFFICES ASSUME NEW c \in Chain, After(IF c = Source THEN 9 ELSE 10)'
             PROVE  newClient(c)' \in ClientId /\ clientStates'[c][newClient(c)'] # None
  BY DEF ClientsCreated
<1> DEFINE k == IF c = Source THEN 9 ELSE 10
<1>1. DriverTypeOK /\ StagesInOrder /\ ClientsCreated /\ ConnectionInv
  BY DEF TestInv, DriverInv, DeliveryInv, AgreementInv
<1>2. /\ ~Done /\ ~NewChain /\ pc \in Nat \ {0}
      /\ \/ After(k)
         \/ Submit /\ Position = k /\ stage' = "receipt" /\ pc' = pc
  BY <1>1, AfterSubmitted DEF DriverTypeOK
<1>3. CASE After(k)
  <2>1. newClient(c) \in ClientId /\ clientStates[c][newClient(c)] # None
    BY <1>1, <1>3 DEF ClientsCreated
  <2>2. ~(Submit /\ op = "CreateClient" /\ caller = c)
    BY <1>2, <1>3, Submitted, CallPlaces, Chains DEF After
  <2>3. newClient(c)' = newClient(c)
    BY <1>1, <1>2, <2>2, RecordsKept
  <2> QED
    BY <1>1, <2>1, <2>3, TestPaired, ClientsKept
<1>4. CASE Submit /\ Position = k /\ stage' = "receipt" /\ pc' = pc
  <2>1. op = "CreateClient" /\ caller = c
    BY <1>2, <1>4, CallPlaces, Chains
  <2>2. op' = op /\ caller' = caller
    BY <1>4, CallKept
  <2>3. newClient(c)' = nextClientSequence'[c] - 1
    BY <1>4, <2>1, <2>2 DEF newClient, unrecorded, getLastID
  <2>4. PICK type \in ClientType : createClient(c, type, Other(c), lastHeader[Other(c)])
    BY <1>4, <2>1, Submitted DEF CreateIBFT2Client
  <2>5. PICK id \in ClientId :
          /\ generateClientIdentifier(c, id)
          /\ setClientState(c, id, [chain |-> Other(c),
                                    latest_height |-> lastHeader[Other(c)]])
    BY <2>4 DEF createClient
  <2>6. id \in Nat /\ newClient(c)' = id
    BY <2>3, <2>5, NumberAssumption, <1>1
   
    DEF generateClientIdentifier, ClientId, ConnectionInv, TypeOK, HostTypeOK,
        ClientTypeOK
  <2>7. clientStates'[c][id] = [chain |-> Other(c),
                                 latest_height |-> lastHeader[Other(c)]]
    BY <1>1, <2>5
    DEF setClientState, ConnectionInv, TypeOK, HostTypeOK, ClientTypeOK
  <2>8. stage = "call" /\ HeadersFresh
    BY <1>4, Submitted DEF TestInv, DriverInv
  <2>9. Other(c) \in Chain /\ lastHeader[Other(c)] \in 1 .. tip(Other(c))
    BY <1>2, <1>4, <2>8, Chains DEF HeadersFresh, Fresh
  <2>10. lastHeader[Other(c)] \in Height
    BY <1>1, <2>9 DEF DriverTypeOK, Height
  <2> QED
    BY <2>6, <2>7, <2>9, <2>10, SlotAssumption DEF ClientState
<1> QED
  BY <1>2, <1>3, <1>4

\* The connection c has opened in this round stays the same, only further on.
LEMMA ConnectionStays ==
    ASSUME InputsSuffice, TestInv, CoordinatorNext, [Next]_vars, NEW c \in Chain,
           After(IF c = Source THEN 11 ELSE 12), ~NewChain
    PROVE  /\ newConnection(c) \in ConnectionId
           /\ newConnection(c)' = newConnection(c)
           /\ \A d \in Chain : test'[d].client = test[d].client
           /\ ConnectionCreated(c) /\ ConnectionCreated(c)'
           /\ MovesForward(connections[c][newConnection(c)],
                           connections'[c][newConnection(c)])
<1>1. /\ DriverTypeOK /\ StagesInOrder /\ ConnectionsCreated /\ ConnectionInv
      /\ pc \in Nat \ {0} /\ ~Done
  BY DriverSteps DEF TestInv, DriverInv, DeliveryInv, AgreementInv, DriverTypeOK
<1>2. Position \in 11 .. 24 /\ (c = Target => Position \in 12 .. 24)
  BY <1>1, CallPlaces, Chains DEF After
<1>3. ~(Submit /\ op \in {"ConnOpenInit", "ConnOpenTry"} /\ caller = c)
  BY <1>1, CallPlaces, Chains, Submitted DEF After
<1>4. newConnection(c)' = newConnection(c)
  BY <1>1, <1>3, RecordsKept
<1>5. op # "CreateClient"
  BY <1>1, <1>2, CallPlaces
<1>6. \A d \in Chain : test'[d].client = test[d].client
  BY <1>1, <1>5, TestKept
<1>7. ConnectionCreated(c)
  BY <1>1, Chains DEF ConnectionsCreated
<1>8. MovesForward(connections[c][newConnection(c)],
                   connections'[c][newConnection(c)])
  BY <1>1, <1>7, TestPaired, ConnectionStep DEF EndsForward, ConnectionCreated
<1>9. Other(c) \in Chain
  BY Chains
<1>10. ConnectionCreated(c)'
  BY <1>4, <1>6, <1>7, <1>8, <1>9 DEF ConnectionCreated, MovesForward, Other
<1> QED
  BY <1>4, <1>6, <1>7, <1>8, <1>10 DEF ConnectionCreated

\* What an end names it keeps, once it is TRYOPEN or OPEN.
LEMMA NamedConnectionStays ==
    ASSUME InputsSuffice, TestInv, CoordinatorNext, [Next]_vars, ~NewChain,
           After(12), NEW c \in Chain,
           NEW states \in {{"TRYOPEN", "OPEN"}, {"OPEN"}}, ConnectionNames(c, states)
    PROVE  ConnectionNames(c, states)'
<1>1. After(11) /\ Other(c) \in Chain
  BY DriverSteps, CallPlaces, Chains DEF After, TestInv, DriverInv, DriverTypeOK
<1>2. /\ newConnection(c)' = newConnection(c)
      /\ newConnection(Other(c))' = newConnection(Other(c))
      /\ MovesForward(connections[c][newConnection(c)],
                      connections'[c][newConnection(c)])
  BY <1>1, ConnectionStays, Chains
<1> QED
  BY <1>2 DEF ConnectionNames, MovesForward, Other

LEMMA ConnectionSubmitted ==
    ASSUME TestInv, CoordinatorNext, Submit, Position \in 11 .. 12,
           NEW c, c = caller
    PROVE  /\ ConnectionCreated(c)'
           /\ Position = 12 => ConnectionNames(c, {"TRYOPEN", "OPEN"})'
<1>1. /\ DriverTypeOK /\ StagesInOrder /\ pc \in Nat \ {0} /\ ~Done
      /\ connections \in [Chain -> [ConnectionId -> ConnectionEnd]]
      /\ nextConnectionSequence \in [Chain -> 0 .. MaxConnections]
  BY DriverSteps
  DEF TestInv, DriverInv, DeliveryInv, AgreementInv, DriverTypeOK,
      ConnectionInv, TypeOK, HostTypeOK, ConnectionTypeOK
<1>2. /\ c \in Chain /\ Other(c) \in Chain /\ Other(c) # c
      /\ Position = 11 => op = "ConnOpenInit"
      /\ Position = 12 => op = "ConnOpenTry" /\ c = Target
  BY <1>1, CallPlaces, Chains
<1>3. /\ test' = test /\ op' = op /\ caller' = c /\ stage' = "receipt"
  BY Submitted, CallKept
<1> DEFINE names == IF Position = 11 THEN None ELSE test[Other(c)].connection
<1>4. PICK id \in ConnectionId :
        /\ generateConnectionIdentifier(c, id)
        /\ connections'[c][id].state = IF Position = 11 THEN "INIT" ELSE "TRYOPEN"
        /\ connections'[c][id].client_id = test[c].client
        /\ connections'[c][id].counterparty = MsgCounterparty(c, names)
  <2>1. CASE Position = 11
    <3>1. PICK id \in ConnectionId :
            /\ generateConnectionIdentifier(c, id)
            /\ setConnection(c, id, [client_id |-> test[c].client,
                                     versions |-> getVersions,
                                     state |-> "INIT",
                                     delay_period |-> 0,
                                     counterparty |-> MsgCounterparty(c, None)])
      BY <1>2, <2>1, Submitted DEF ConnectionOpenInitTx, connectionOpenInit
    <3> QED
      BY <1>1, <1>2, <2>1, <3>1 DEF setConnection
  <2>2. CASE Position = 12
    <3>1. PICK id \in ConnectionId :
            /\ generateConnectionIdentifier(c, id)
            /\ setConnection(c, id, [client_id |-> test[c].client,
                                     versions |-> getVersions,
                                     state |-> "TRYOPEN",
                                     delay_period |-> 0,
                                     counterparty |-> MsgCounterparty(c,
                                       test[Other(c)].connection)])
      BY <1>2, <2>2, Submitted DEF ConnectionOpenTryTx, connectionOpenTry
    <3> QED
      BY <1>1, <1>2, <2>2, <3>1 DEF setConnection
  <2> QED
    BY <2>1, <2>2
<1>5. newConnection(c)' = id
  BY <1>1, <1>2, <1>3, <1>4, NumberAssumption
  DEF newConnection, unrecorded, getLastID, generateConnectionIdentifier, ConnectionId
<1>6. newConnection(Other(c))' = test[Other(c)].connection
  BY <1>2, <1>3 DEF newConnection, unrecorded
<1>7. ConnectionCreated(c)'
  BY <1>2, <1>3, <1>4, <1>5 DEF ConnectionCreated, MsgCounterparty, Other
<1> QED
  BY <1>2, <1>3, <1>4, <1>5, <1>6, <1>7 DEF ConnectionNames, MsgCounterparty, Other

LEMMA ConnectionOpened ==
    ASSUME TestInv, CoordinatorNext, Submit, Position \in 13 .. 14,
           NEW c, c = caller
    PROVE  ConnectionNames(c, {"OPEN"})'
<1> DEFINE id == test[c].connection
<1>1. /\ DriverTypeOK /\ StagesInOrder /\ pc \in Nat \ {0} /\ ~Done
      /\ ConnectionsCreated
      /\ connections \in [Chain -> [ConnectionId -> ConnectionEnd]]
  BY DriverSteps
  DEF TestInv, DriverInv, DeliveryInv, AgreementInv, DriverTypeOK,
      ConnectionInv, TypeOK, HostTypeOK, ConnectionTypeOK
<1>2. /\ c \in Chain /\ Other(c) \in Chain /\ Other(c) # c
      /\ Position = 13 => op = "ConnOpenAck" /\ c = Source
      /\ Position = 14 => op = "ConnOpenConfirm" /\ c = Target
      /\ op \notin {"ConnOpenInit", "ConnOpenTry"}
      /\ After(11) /\ After(12)
  BY <1>1, CallPlaces, Chains DEF After
<1>3. /\ test' = test /\ op' = op
  BY Submitted, CallKept
<1>4. \A d \in Chain : /\ newConnection(d) = test[d].connection
                       /\ newConnection(d)' = test[d].connection
  BY <1>2, <1>3 DEF newConnection, unrecorded
<1>5. id \in ConnectionId /\ connections[c][id] \in ConnectionEnd
  BY <1>1, <1>2, <1>4, Chains DEF ConnectionsCreated, ConnectionCreated
<1>6. CASE Position = 13
  <2>1. PICK version :
          connections' = [connections EXCEPT ![c][id] =
                            [connections[c][id] EXCEPT
                               !.state = "OPEN",
                               !.versions = version,
                               !.counterparty.connection_id = test[Other(c)].connection]]
    BY <1>2, <1>6, Submitted DEF ConnectionOpenAckTx, connectionOpenAck, setConnection
  <2>2. /\ connections'[c][id].state = "OPEN"
        /\ connections'[c][id].counterparty.connection_id = test[Other(c)].connection
    BY <1>1, <1>2, <1>5, <2>1 DEF ConnectionEnd, Counterparty
  <2> QED
    BY <1>2, <1>3, <1>4, <2>2 DEF ConnectionNames, Other
<1>7. CASE Position = 14
  <2>1. connections' = [connections EXCEPT ![c][id] =
                          [connections[c][id] EXCEPT !.state = "OPEN"]]
    BY <1>2, <1>7, Submitted
    DEF ConnectionOpenConfirmTx, connectionOpenConfirm, setConnection
  <2>2. /\ connections'[c][id].state = "OPEN"
        /\ connections'[c][id].counterparty = connections[c][id].counterparty
    BY <1>1, <1>2, <1>5, <2>1 DEF ConnectionEnd
  <2>3. connections[c][id].counterparty.connection_id = test[Other(c)].connection
    BY <1>1, <1>2, <1>4, <1>7 DEF ConnectionsCreated, ConnectionNames
  <2> QED
    BY <1>2, <1>3, <1>4, <2>2, <2>3 DEF ConnectionNames, Other
<1> QED
  BY <1>6, <1>7

LEMMA ConnectionsCreatedStep ==
    ASSUME InputsSuffice, TestInv, CoordinatorNext, [Next]_vars
    PROVE  ConnectionsCreated'
<1>1. DriverTypeOK /\ StagesInOrder /\ ConnectionsCreated /\ pc \in Nat \ {0}
  BY DEF TestInv, DriverInv, DriverTypeOK
<1>2. ASSUME NEW k \in 11 .. 14, After(k)'
      PROVE  /\ ~Done /\ ~NewChain
             /\ After(k) \/ (Submit /\ Position = k)
  BY <1>1, <1>2, AfterSubmitted
<1>3. ASSUME NEW k \in 11 .. 14, ~Done, Submit, Position = k
      PROVE  caller = IF k \in {11, 13} THEN Source ELSE Target
  BY <1>1, <1>3, CallPlaces
<1>4. \A k \in 13 .. 14 : After(k) \/ (~Done /\ Position = k) => After(12)
  BY <1>1, CallPlaces DEF After
<1>5. After(11)' => ConnectionCreated(Source)'
  BY <1>2, <1>3, ConnectionStays, ConnectionSubmitted, Chains
<1>6. After(12)' => ConnectionCreated(Target)'
  BY <1>2, <1>3, ConnectionStays, ConnectionSubmitted, Chains
<1>7. After(12)' => ConnectionNames(Target, {"TRYOPEN", "OPEN"})'
  BY <1>1, <1>2, <1>3, NamedConnectionStays, ConnectionSubmitted, Chains
  DEF ConnectionsCreated
<1>8. After(13)' => ConnectionNames(Source, {"OPEN"})'
  BY <1>1, <1>2, <1>3, <1>4, NamedConnectionStays, ConnectionOpened, Chains
  DEF ConnectionsCreated
<1>9. After(14)' => ConnectionNames(Target, {"OPEN"})'
  BY <1>1, <1>2, <1>3, <1>4, NamedConnectionStays, ConnectionOpened, Chains
  DEF ConnectionsCreated
<1> QED
  BY <1>5, <1>6, <1>7, <1>8, <1>9 DEF ConnectionsCreated

-----------------------------------------------------------------------------
(* Channels                                                                *)

LEMMA TransferPortType == InputsSuffice => TransferPort \in Port
BY DEF InputsSuffice, TransferPort

\* The channel c has opened in this round stays the same, only further on.
LEMMA ChannelStays ==
    ASSUME InputsSuffice, TestInv, CoordinatorNext, [Next]_vars, NEW c \in Chain,
           After(IF c = Source THEN 15 ELSE 16), ~NewChain
    PROVE  /\ newEnd(c) \in End
           /\ newEnd(c)' = newEnd(c)
           /\ ChannelCreated(c) /\ ChannelCreated(c)'
           /\ ChannelForward(channels[c][newEnd(c)], channels'[c][newEnd(c)])
<1>1. /\ DriverTypeOK /\ StagesInOrder /\ ChannelsCreated /\ AgreementInv
      /\ pc \in Nat \ {0} /\ ~Done
  BY DriverSteps DEF TestInv, DriverInv, DeliveryInv, DriverTypeOK
<1>2. Position \in 15 .. 24
  BY <1>1, CallPlaces, Chains DEF After
<1>3. ~(Submit /\ op \in {"ChanOpenInit", "ChanOpenTry"} /\ caller = c)
  BY <1>1, CallPlaces, Chains, Submitted DEF After
<1>4. newEnd(c)' = newEnd(c)
  BY <1>1, <1>3, RecordsKept
<1>5. op \notin {"ConnOpenInit", "ConnOpenTry"}
  BY <1>1, <1>2, CallPlaces
<1>6. test'[c].connection = test[c].connection
  BY <1>1, <1>5, TestKept
<1>7. ChannelCreated(c)
  BY <1>1, Chains DEF ChannelsCreated
<1>8. ChannelForward(channels[c][newEnd(c)], channels'[c][newEnd(c)])
  BY <1>1, <1>7, TestPaired, AgreementStep DEF ChannelsForward, ChannelCreated
<1>9. ChannelCreated(c)'
  BY <1>4, <1>6, <1>7, <1>8 DEF ChannelCreated, ChannelForward
<1> QED
  BY <1>4, <1>7, <1>8, <1>9 DEF ChannelCreated

LEMMA NamedChannelStays ==
    ASSUME InputsSuffice, TestInv, CoordinatorNext, [Next]_vars, ~NewChain,
           After(16), NEW c \in Chain,
           NEW states \in {{"TRYOPEN", "OPEN"}, {"OPEN"}}, ChannelNames(c, states)
    PROVE  ChannelNames(c, states)'
<1>1. After(15) /\ Other(c) \in Chain
  BY DriverSteps, CallPlaces, Chains DEF After, TestInv, DriverInv, DriverTypeOK
<1>2. /\ newEnd(c)' = newEnd(c)
      /\ newEnd(Other(c))' = newEnd(Other(c))
      /\ ChannelForward(channels[c][newEnd(c)], channels'[c][newEnd(c)])
  BY <1>1, ChannelStays, Chains
<1> QED
  BY <1>2 DEF ChannelNames, ChannelForward, counterpartyEnd, Other

\* A new end names the channel of the message, and has sent nothing.
LEMMA ChannelSubmitted ==
    ASSUME InputsSuffice, TestInv, CoordinatorNext, Submit, Position \in 15 .. 16,
           NEW c, c = caller
    PROVE  /\ ChannelCreated(c)'
           /\ Position = 16 => ChannelNames(c, {"TRYOPEN", "OPEN"})'
           /\ Len(Sent(c, newEnd(c)))' = 0
<1>1. /\ DriverTypeOK /\ StagesInOrder /\ pc \in Nat \ {0} /\ ~Done
      /\ PacketInv /\ ChannelInv
      /\ channels \in [Chain -> [End -> ChannelEnd]]
      /\ nextChannelSequence \in [Chain -> 0 .. MaxChannels]
  BY DriverSteps
  DEF TestInv, DriverInv, DeliveryInv, PacketInv, DriverTypeOK, ChannelInv,
      TypeOK, HostTypeOK, ChannelTypeOK
<1>2. /\ c \in Chain /\ Other(c) \in Chain /\ Other(c) # c
      /\ Position = 15 => op = "ChanOpenInit"
      /\ Position = 16 => op = "ChanOpenTry"
  BY <1>1, CallPlaces, Chains
<1>3. /\ test' = test /\ op' = op /\ caller' = c /\ stage' = "receipt"
  BY Submitted, CallKept
<1> DEFINE message == IF Position = 15 THEN MsgChannel(c, "INIT", None)
                      ELSE MsgChannel(c, "TRYOPEN", test[Other(c)].channel)
<1>4. PICK id \in ChannelId :
        /\ openable(c, message)
        /\ generateChannelIdentifier(c, id)
        /\ setChannel(c, <<TransferPort, id>>, message)
        /\ UNCHANGED <<connectionVars, sendEvents>>
  <2>1. CASE Position = 15
    BY <1>2, <2>1, Submitted
    DEF ChannelOpenInitTx, channelOpenInit, noEvent, eventVars
  <2>2. CASE Position = 16
    BY <1>2, <2>2, Submitted
    DEF ChannelOpenTryTx, channelOpenTry, noEvent, eventVars
  <2> QED
    BY <2>1, <2>2
<1> DEFINE end == <<TransferPort, id>>
<1>5. newEnd(c)' = end
  BY <1>1, <1>2, <1>3, <1>4, NumberAssumption
  DEF newEnd, unrecorded, getLastID, generateChannelIdentifier, ChannelId
<1>6. newEnd(Other(c))' = <<TransferPort, test[Other(c)].channel>>
  BY <1>2, <1>3 DEF newEnd, unrecorded
<1>7. end \in End
  BY TransferPortType DEF End
<1>8. channels'[c][end] = message
  BY <1>1, <1>2, <1>4, <1>7 DEF setChannel
<1>9. /\ message.state = IF Position = 15 THEN "INIT" ELSE "TRYOPEN"
      /\ message.connection_hops = <<test[c].connection>>
      /\ message.counterparty.port_id = TransferPort
      /\ Position = 16 => counterpartyEnd(message) =
                            <<TransferPort, test[Other(c)].channel>>
  BY DEF MsgChannel, counterpartyEnd
<1>10. Len(Sent(c, newEnd(c)))' = 0
  <2>1. channels[c][end].state = "UNINITIALIZED_UNSPECIFIED"
    BY <1>1, <1>2, <1>4, <1>9, NewChannel, TransferPortType
  <2>2. Len(Sent(c, end)) = 0
    BY <1>1, <1>2, <1>7, <2>1 DEF PacketInv, SendsCounted
  <2> QED
    BY <1>4, <1>5, <2>2 DEF Sent
<1> HIDE DEF message, end
<1>11. ChannelCreated(c)'
  BY <1>3, <1>5, <1>7, <1>8, <1>9 DEF ChannelCreated
<1> QED
  BY <1>3, <1>5, <1>6, <1>8, <1>9, <1>10, <1>11, CallKept, Submitted
  DEF ChannelNames, Other

LEMMA NewChannelOpened ==
    ASSUME TestInv, CoordinatorNext, Submit, Position \in 17 .. 18,
           NEW c, c = caller
    PROVE  ChannelNames(c, {"OPEN"})'
<1> DEFINE end == EndOf(c)
<1>1. /\ DriverTypeOK /\ StagesInOrder /\ pc \in Nat \ {0} /\ ~Done
      /\ ChannelsCreated
      /\ channels \in [Chain -> [End -> ChannelEnd]]
  BY DriverSteps
  DEF TestInv, DriverInv, DeliveryInv, PacketInv, DriverTypeOK, ChannelInv,
      TypeOK, HostTypeOK, ChannelTypeOK
<1>2. /\ c \in Chain /\ Other(c) \in Chain /\ Other(c) # c
      /\ Position = 17 => op = "ChanOpenAck" /\ c = Source
      /\ Position = 18 => op = "ChanOpenConfirm" /\ c = Target
      /\ op \notin {"ChanOpenInit", "ChanOpenTry"}
      /\ After(15) /\ After(16)
  BY <1>1, CallPlaces, Chains DEF After
<1>3. /\ test' = test /\ op' = op
  BY Submitted, CallKept
<1>4. \A d \in Chain : newEnd(d) = EndOf(d) /\ newEnd(d)' = EndOf(d)
  BY <1>2, <1>3 DEF newEnd, unrecorded, EndOf
<1>5. /\ end \in End /\ channels[c][end] \in ChannelEnd
      /\ channels[c][end].counterparty.port_id = TransferPort
  BY <1>1, <1>2, <1>4, Chains DEF ChannelsCreated, ChannelCreated
<1>6. CASE Position = 17
  <2>1. PICK version :
          channels' = [channels EXCEPT ![c][end] =
                         [channels[c][end] EXCEPT
                            !.state = "OPEN",
                            !.version = version,
                            !.counterparty.channel_id = test[Other(c)].channel]]
    BY <1>2, <1>6, Submitted DEF ChannelOpenAckTx, channelOpenAck, setChannel, EndOf
  <2>2. /\ channels'[c][end].state = "OPEN"
        /\ channels'[c][end].counterparty.channel_id = test[Other(c)].channel
        /\ channels'[c][end].counterparty.port_id = TransferPort
    BY <1>1, <1>2, <1>5, <2>1 DEF ChannelEnd, ChannelCounterparty
  <2> QED
    BY <1>2, <1>3, <1>4, <2>2 DEF ChannelNames, counterpartyEnd, EndOf, Other
<1>7. CASE Position = 18
  <2>1. channels' = [channels EXCEPT ![c][end] =
                       [channels[c][end] EXCEPT !.state = "OPEN"]]
    BY <1>2, <1>7, Submitted
    DEF ChannelOpenConfirmTx, channelOpenConfirm, setChannel, EndOf
  <2>2. /\ channels'[c][end].state = "OPEN"
        /\ channels'[c][end].counterparty = channels[c][end].counterparty
    BY <1>1, <1>2, <1>5, <2>1 DEF ChannelEnd
  <2>3. counterpartyEnd(channels[c][end]) = EndOf(Other(c))
    BY <1>1, <1>2, <1>4, <1>7 DEF ChannelsCreated, ChannelNames
  <2> QED
    BY <1>2, <1>3, <1>4, <2>2, <2>3 DEF ChannelNames, counterpartyEnd, Other
<1> QED
  BY <1>6, <1>7

LEMMA ChannelsCreatedStep ==
    ASSUME InputsSuffice, TestInv, CoordinatorNext, [Next]_vars
    PROVE  ChannelsCreated'
<1>1. DriverTypeOK /\ StagesInOrder /\ ChannelsCreated /\ pc \in Nat \ {0}
  BY DEF TestInv, DriverInv, DriverTypeOK
<1>2. ASSUME NEW k \in 15 .. 18, After(k)'
      PROVE  /\ ~Done /\ ~NewChain
             /\ After(k) \/ (Submit /\ Position = k)
  BY <1>1, <1>2, AfterSubmitted
<1>3. ASSUME NEW k \in 15 .. 18, ~Done, Submit, Position = k
      PROVE  caller = IF k \in {15, 17} THEN Source ELSE Target
  BY <1>1, <1>3, CallPlaces
<1>4. \A k \in 17 .. 18 : After(k) \/ (~Done /\ Position = k) => After(16)
  BY <1>1, CallPlaces DEF After
<1>5. After(15)' => ChannelCreated(Source)'
  BY <1>2, <1>3, ChannelStays, ChannelSubmitted, Chains
<1>6. After(16)' => ChannelCreated(Target)'
  BY <1>2, <1>3, ChannelStays, ChannelSubmitted, Chains
<1>7. After(16)' => ChannelNames(Target, {"TRYOPEN", "OPEN"})'
  BY <1>1, <1>2, <1>3, NamedChannelStays, ChannelSubmitted, Chains
  DEF ChannelsCreated
<1>8. After(17)' => ChannelNames(Source, {"OPEN"})'
  BY <1>1, <1>2, <1>3, <1>4, NamedChannelStays, NewChannelOpened, Chains
  DEF ChannelsCreated
<1>9. After(18)' => ChannelNames(Target, {"OPEN"})'
  BY <1>1, <1>2, <1>3, <1>4, NamedChannelStays, NewChannelOpened, Chains
  DEF ChannelsCreated
<1> QED
  BY <1>5, <1>6, <1>7, <1>8, <1>9 DEF ChannelsCreated

-----------------------------------------------------------------------------
(* Packets                                                                 *)

\* Until the next round what was submitted stays so.
LEMMA AfterStays ==
    ASSUME DriverTypeOK, CoordinatorNext, NEW i \in 9 .. 22,
           NEW k \in 9 .. 22, After(i), After(k)'
    PROVE  After(i)'
<1>1. /\ ~Done /\ ~Done' /\ pc \in Nat \ {0} /\ Position \in 1 .. 24
      /\ Position > i \/ (Position = i /\ stage # "call")
      /\ Position' > k \/ Position' = k
  BY DriverSteps, CallPlaces DEF DriverTypeOK, After
<1>2. CASE pc' = pc
  <2>1. Position' = Position
    BY <1>2, CallKept
  <2>2. stage # "call" => stage' # "call"
    BY <1>1, <1>2, DriverSteps DEF stepsOn, DriverTypeOK
  <2> QED
    BY <1>1, <2>1, <2>2 DEF After
<1>3. CASE pc' = pc + 1
  <2>1. Position' = Position + 1
    BY <1>1, <1>3, PositionAdvances
  <2> QED
    BY <1>1, <2>1 DEF After
<1> QED
  BY <1>2, <1>3, DriverSteps DEF stepsOn, DriverTypeOK

\* Only SendTransfer sends.
LEMMA SendsKept ==
    ASSUME DriverTypeOK, CoordinatorNext, ~(Submit /\ op = "SendTransfer")
    PROVE  UNCHANGED sendEvents
<1>1. CASE Submit
  <2>1. op \in {"BindPort", "RegisterClient", "CreateClient",
                "ConnOpenInit", "ConnOpenTry", "ConnOpenAck", "ConnOpenConfirm",
                "ChanOpenInit", "ChanOpenTry", "ChanOpenAck", "ChanOpenConfirm",
                "HandlePacketRecv", "HandlePacketAcknowledgement"}
    BY <1>1 DEF Submit, Transaction
  <2> USE DEF onlyHandlerState, noEvent, eventVars
  <2>2. CASE op \in {"BindPort", "RegisterClient", "CreateClient"}
    BY <1>1, <2>2, Submitted DEF BindPortTx, RegisterClientTx, CreateIBFT2Client
  <2>3. CASE op \in {"ConnOpenInit", "ConnOpenTry", "ConnOpenAck", "ConnOpenConfirm"}
    BY <1>1, <2>3, Submitted DEF ConnectionOpenInitTx, ConnectionOpenTryTx,
       ConnectionOpenAckTx, ConnectionOpenConfirmTx
  <2>4. CASE op \in {"ChanOpenInit", "ChanOpenTry", "ChanOpenAck", "ChanOpenConfirm"}
    BY <1>1, <2>4, Submitted DEF ChannelOpenInitTx, ChannelOpenTryTx,
       ChannelOpenAckTx, ChannelOpenConfirmTx
  <2>5. CASE op \in {"HandlePacketRecv", "HandlePacketAcknowledgement"}
    BY <1>1, <2>5, Submitted DEF HandlePacketRecvTx, HandlePacketAcknowledgementTx
  <2> QED
    BY <2>1, <2>2, <2>3, <2>4, <2>5
<1>2. ASSUME NEW c \in Chain, SealAwaited(c) \/ SealIdle(c) \/ BindOther(c)
      PROVE  UNCHANGED sendEvents
  BY <1>2, EnvironmentFrame DEF eventVars
<1> QED
  BY <1>1, <1>2, DriverSteps
  DEF DriverTypeOK, NewChain, AlreadyDone, WaitForReceipt, UpdateHeader,
      UpdateOtherClient, UpdateIBFT2Client, onlyHandlerState, noEvent,
      ClientUpdated, vars, eventVars

\* SendTransfer sends one packet over the caller's end of this round.
LEMMA OnePacketSent ==
    ASSUME TestInv, CoordinatorNext, Submit, op = "SendTransfer",
           NEW c \in Chain, NEW end \in End
    PROVE  Len(Sent(c, end))' =
             IF c = caller /\ end = EndOf(c) THEN Len(Sent(c, end)) + 1
             ELSE Len(Sent(c, end))
<1>1. PICK packet : sendEvents' = emit(sendEvents, caller, EndOf(caller), packet)
  BY Submitted DEF SendTransferTx
<1>2. sendEvents \in [Chain -> [End -> Seq(Packet)]]
  BY DEF TestInv, DeliveryInv, PacketInv, ChannelInv, TypeOK, EventTypeOK
<1>3. sendEvents[c][end] \in Seq(Packet)
  BY <1>2
<1>4. Len(Append(sendEvents[c][end], packet)) = Len(sendEvents[c][end]) + 1
  BY <1>3
<1> QED
  BY <1>1, <1>2, <1>4 DEF emit, Sent

\* At the k-th call c opens its end, at the s-th it sends over it.
LEMMA SentOnceStep ==
    ASSUME InputsSuffice, TestInv, CoordinatorNext, [Next]_vars,
           NEW c \in Chain, NEW k, k = (IF c = Source THEN 15 ELSE 16),
           NEW s, s = (IF c = Source THEN 19 ELSE 22),
           After(k) => Len(Sent(c, newEnd(c))) = IF After(s) THEN 1 ELSE 0,
           After(k)'
    PROVE  Len(Sent(c, newEnd(c)))' = IF After(s)' THEN 1 ELSE 0
<1>1. /\ DriverTypeOK /\ StagesInOrder /\ pc \in Nat \ {0}
      /\ k \in 9 .. 22 /\ s \in 9 .. 22 /\ k < s
  BY DEF TestInv, DriverInv, DriverTypeOK
<1>2. /\ ~Done /\ ~NewChain /\ Position \in 9 .. 24
      /\ After(k) \/ (Submit /\ Position = k /\ stage' = "receipt" /\ pc' = pc)
  BY <1>1, AfterSubmitted
<1>3. CASE ~After(k)
  <2>1. Submit /\ Position = k /\ caller = c /\ pc' = pc
    BY <1>1, <1>2, <1>3, CallPlaces, Chains
  <2>2. ~After(s)'
    BY <1>1, <2>1, CallKept DEF After
  <2> QED
    BY <2>1, <2>2, ChannelSubmitted
<1>4. CASE After(k)
  <2>1. newEnd(c)' = newEnd(c) /\ newEnd(c) \in End
    BY <1>2, <1>4, ChannelStays
  <2>2. After(s) => After(s)'
    BY <1>1, <1>4, AfterStays
  <2>3. CASE Submit /\ op = "SendTransfer"
    <3>1. /\ stage = "call" /\ newEnd(c) = EndOf(c)
          /\ stage' = "receipt" /\ Position' = Position /\ (Done' <=> Done)
      BY <2>3, Submitted, CallKept DEF newEnd, unrecorded, EndOf
    <3>2. /\ Position = 19 \/ Position = 22
          /\ Position = 19 => caller = Source
          /\ Position = 22 => caller = Target
      BY <1>1, <1>2, <2>3, CallPlaces
    <3>3. caller = c <=> Position = s
      BY <1>1, <3>2, Chains
    <3>4. After(s) <=> Position > s
      BY <1>2, <3>1 DEF After
    <3>5. After(s)' <=> Position >= s
      BY <1>1, <1>2, <3>1 DEF After
    <3>6. Len(Sent(c, newEnd(c)))' = IF caller = c THEN Len(Sent(c, newEnd(c))) + 1
                                     ELSE Len(Sent(c, newEnd(c)))
      BY <2>1, <2>3, <3>1, OnePacketSent DEF Sent
    <3>7. Len(Sent(c, newEnd(c))) = IF After(s) THEN 1 ELSE 0
      BY <1>4
    <3>8. CASE Position = s
      BY <1>1, <3>3, <3>4, <3>5, <3>6, <3>7, <3>8
    <3>9. CASE Position # s
      BY <1>1, <1>2, <3>3, <3>4, <3>5, <3>6, <3>7, <3>9
    <3> QED
      BY <3>8, <3>9
  <2>4. CASE ~(Submit /\ op = "SendTransfer")
    <3>1. UNCHANGED sendEvents
      BY <1>1, <2>4, SendsKept
    <3>2. After(s)' => After(s)
      BY <1>1, <1>2, <2>4, AfterSubmitted, CallPlaces
    <3> QED
      BY <1>4, <2>1, <2>2, <3>1, <3>2 DEF Sent
  <2> QED
    BY <2>3, <2>4
<1> QED
  BY <1>3, <1>4

\* What the driver reads to relay is the one packet of the round.
LEMMA LastSent ==
    ASSUME InputsSuffice, TestInv, NEW c \in Chain, newEnd(c) = EndOf(c),
           EndOf(c) \in End, channelFound(c, EndOf(c)), Len(Sent(c, EndOf(c))) = 1
    PROVE  GetLastSentPacket(c) \in Packet
<1> DEFINE end == EndOf(c)
           sent == sendEvents[c][end]
<1>1. sent \in Seq(Packet) /\ Len(sent) = 1
  BY DEF TestInv, DeliveryInv, PacketInv, ChannelInv, TypeOK, EventTypeOK, Sent
<1>2. DOMAIN sent = {1} /\ sent[1] \in Packet
  BY <1>1
<1>3. nextSequenceSends[c][end] = Increment(1) /\ sent[1].sequence = 1
  BY <1>2 DEF TestInv, DeliveryInv, PacketInv, SendsCounted, channelFound, Sent
<1>4. Increment(1) = 2
  BY NumberAssumption DEF Increment, InputsSuffice
<1> DEFINE matching == {i \in DOMAIN sent :
                          sent[i].sequence = nextSequenceSends[c][end] - 1}
<1>5. matching = {1}
  BY <1>2, <1>3, <1>4
<1> HIDE DEF matching
<1>6. (CHOOSE i \in matching : \A k \in matching : i <= k) = 1
  BY <1>5
<1>7. GetLastSentPacket(c) = sent[CHOOSE i \in matching : \A k \in matching : i <= k]
  BY DEF GetLastSentPacket, matching
<1> QED
  BY <1>2, <1>6, <1>7

LEMMA RelayedPacket ==
    ASSUME InputsSuffice, TestInv, ~Done, stage = "call", Position \in {20, 23}
    PROVE  GetLastSentPacket(Other(caller)) \in Packet
<1> DEFINE c == Other(caller)
<1>1. /\ DriverTypeOK /\ ChannelsCreated /\ SentOnce /\ pc \in Nat \ {0}
  BY DEF TestInv, DriverInv, DriverTypeOK
<1>2. /\ c \in Chain
      /\ After(15) /\ After(16) /\ After(19)
      /\ IF Position = 20 THEN c = Source ELSE c = Target /\ After(22)
  BY <1>1, CallPlaces, Chains DEF After
<1>3. newEnd(c) = EndOf(c)
  BY DEF newEnd, unrecorded, EndOf
<1>4. ChannelCreated(c) /\ Len(Sent(c, newEnd(c))) = 1
  BY <1>1, <1>2 DEF ChannelsCreated, SentOnce
<1> QED
  BY <1>2, <1>3, <1>4, LastSent DEF ChannelCreated, channelFound

LEMMA PacketsStep ==
    ASSUME InputsSuffice, TestInv, CoordinatorNext, [Next]_vars
    PROVE  SentOnce'
<1>1. DriverTypeOK /\ StagesInOrder /\ SentOnce /\ pc \in Nat \ {0}
  BY DEF TestInv, DriverInv, DriverTypeOK
<1>2. After(15)' => Len(Sent(Source, newEnd(Source)))' = IF After(19)' THEN 1 ELSE 0
  BY <1>1, SentOnceStep, Chains DEF SentOnce
<1>3. After(16)' => Len(Sent(Target, newEnd(Target)))' = IF After(22)' THEN 1 ELSE 0
  BY <1>1, SentOnceStep, Chains DEF SentOnce
<1>4. ASSUME After(20)' PROVE transferPacket' \in Packet
  <2>1. ~Done /\ ~NewChain /\ (After(20) \/ (Submit /\ Position = 20))
    BY <1>1, <1>4, AfterSubmitted
  <2>2. CASE Submit /\ op = "HandlePacketRecv"
    BY <1>1, <2>1, <2>2, Submitted, RelayedPacket, CallPlaces
  <2>3. CASE ~(Submit /\ op = "HandlePacketRecv")
    <3>1. After(20)
      BY <1>1, <2>1, <2>3, CallPlaces
    <3>2. transferPacket' = transferPacket
      BY <1>1, <2>1, <2>3, DriverSteps, Submitted
      DEF DriverTypeOK, AlreadyDone, WaitForReceipt, UpdateHeader,
          UpdateOtherClient, ClientUpdated, driverVars
    <3> QED
      BY <1>1, <3>1, <3>2 DEF SentOnce
  <2> QED
    BY <2>2, <2>3
<1> QED
  BY <1>2, <1>3, <1>4 DEF SentOnce

-----------------------------------------------------------------------------
(* Blocks, headers and the order of the stages                             *)

LEMMA SubmitKeepsBlocks ==
    ASSUME Submit
    PROVE  UNCHANGED blocks
<1>1. op \in {"BindPort", "RegisterClient", "CreateClient",
              "ConnOpenInit", "ConnOpenTry", "ConnOpenAck", "ConnOpenConfirm",
              "ChanOpenInit", "ChanOpenTry", "ChanOpenAck", "ChanOpenConfirm",
              "SendTransfer", "HandlePacketRecv", "HandlePacketAcknowledgement"}
  BY DEF Submit, Transaction
<1>2. CASE op \in {"BindPort", "RegisterClient", "CreateClient"}
  BY <1>2, Submitted DEF BindPortTx, bindPort, RegisterClientTx,
     registerClient, CreateIBFT2Client, createClient
<1>3. CASE op \in {"ConnOpenInit", "ConnOpenTry", "ConnOpenAck", "ConnOpenConfirm"}
  BY <1>3, Submitted DEF ConnectionOpenInitTx, connectionOpenInit,
     ConnectionOpenTryTx, connectionOpenTry, ConnectionOpenAckTx,
     connectionOpenAck, ConnectionOpenConfirmTx, connectionOpenConfirm
<1>4. CASE op \in {"ChanOpenInit", "ChanOpenTry", "ChanOpenAck", "ChanOpenConfirm"}
  BY <1>4, Submitted DEF ChannelOpenInitTx, channelOpenInit, ChannelOpenTryTx,
     channelOpenTry, ChannelOpenAckTx, channelOpenAck, ChannelOpenConfirmTx,
     channelOpenConfirm
<1>5. CASE op \in {"SendTransfer", "HandlePacketRecv", "HandlePacketAcknowledgement"}
  BY <1>5, Submitted DEF SendTransferTx, sendPacket, HandlePacketRecvTx,
     recvPacket, HandlePacketAcknowledgementTx, acknowledgePacket
<1> QED
  BY <1>1, <1>2, <1>3, <1>4, <1>5

\* A block is sealed at a time, by the environment: because the driver waits
\* for it, or as a disturbance.
sealed(c) ==
    /\ blocks' = [blocks EXCEPT ![c] = Append(@, Store(c))]
    /\ tip(c) < MaxHeight
    /\ \/ awaited(c) /\ UNCHANGED disturbances
       \/ ~awaited(c) /\ disturbances < MaxDisturbances /\ disturbances' = disturbances + 1

LEMMA BlocksSealed ==
    ASSUME DriverTypeOK, CoordinatorNext
    PROVE  \/ \E c \in Chain : sealed(c) /\ UNCHANGED driverVars
           \/ /\ UNCHANGED blocks
              /\ \/ UNCHANGED disturbances
                 \/ /\ disturbances < MaxDisturbances
                    /\ disturbances' = disturbances + 1 /\ UNCHANGED driverVars
<1>1. ASSUME NEW c \in Chain, SealAwaited(c) \/ SealIdle(c)
      PROVE  sealed(c) /\ UNCHANGED driverVars
  BY <1>1 DEF SealAwaited, SealIdle, Seal, SealBlock, disturb, sealed, tip
<1>2. ASSUME NEW c \in Chain, BindOther(c)
      PROVE  /\ UNCHANGED blocks /\ disturbances < MaxDisturbances
             /\ disturbances' = disturbances + 1 /\ UNCHANGED driverVars
  BY <1>2 DEF BindOther, bindPort, disturb
<1>3. ASSUME DriverNext PROVE UNCHANGED <<blocks, disturbances>>
  <2>1. UNCHANGED disturbances
    BY <1>3 DEF DriverNext
  <2>2. NewChain \/ AlreadyDone \/ WaitForReceipt \/ UpdateHeader \/ ClientUpdated =>
          UNCHANGED vars
    BY DEF NewChain, AlreadyDone, WaitForReceipt, UpdateHeader, ClientUpdated
  <2>3. UpdateOtherClient => UNCHANGED blocks
    BY DEF UpdateOtherClient, UpdateIBFT2Client, updateClient
  <2> QED
    BY <1>3, <2>1, <2>2, <2>3, SubmitKeepsBlocks DEF DriverNext, vars, hostVars
<1> QED
  BY <1>1, <1>2, <1>3 DEF CoordinatorNext

LEMMA TipsGrow ==
    ASSUME TypeOK, DriverTypeOK, CoordinatorNext, NEW c \in Chain
    PROVE  /\ tip(c) \in Nat /\ tip(c)' \in Nat /\ tip(c)' >= tip(c)
           /\ tip(c)' <= MaxHeight
           /\ disturbances' \in 0 .. MaxDisturbances
           /\ \/ tip(c)' = tip(c) /\ disturbances' >= disturbances
              \/ /\ tip(c)' = tip(c) + 1 /\ UNCHANGED driverVars
                 /\ \/ awaited(c) /\ disturbances' = disturbances
                    \/ disturbances' = disturbances + 1
<1>1. blocks \in [Chain -> Seq(StoreType)]
  BY DEF TypeOK, HostTypeOK, BlocksTypeOK
<1>2. \A d \in Chain : /\ Len(blocks[d]) \in Nat /\ Len(blocks[d]) <= MaxHeight
                       /\ Len(Append(blocks[d], Store(d))) = Len(blocks[d]) + 1
  BY <1>1 DEF DriverTypeOK, tip
<1>3. MaxDisturbances \in Nat /\ MaxHeight \in Nat /\ disturbances \in Nat
  BY CoordinatorAssumption, NumberAssumption DEF DriverTypeOK
<1>4. ASSUME NEW d \in Chain, sealed(d), UNCHANGED driverVars
      PROVE  /\ tip(c)' = IF c = d THEN tip(c) + 1 ELSE tip(c)
             /\ tip(d) < MaxHeight
             /\ \/ awaited(d) /\ disturbances' = disturbances
                \/ disturbances < MaxDisturbances /\ disturbances' = disturbances + 1
  BY <1>1, <1>2, <1>4 DEF sealed, tip
<1>5. UNCHANGED blocks => tip(c)' = tip(c)
  BY DEF tip
<1> QED
  BY <1>2, <1>3, <1>4, <1>5, BlocksSealed DEF DriverTypeOK, tip

LEMMA DriverTypeStep ==
    ASSUME TypeOK, DriverTypeOK, StagesInOrder, CoordinatorNext
    PROVE  DriverTypeOK'
<1>1. caller \in Chain /\ pc \in Nat \ {0}
  BY DriverSteps, CallPlaces DEF DriverTypeOK
<1>2. \A c \in Chain : /\ nextClientSequence[c] \in Int
                       /\ nextConnectionSequence[c] \in Int
                       /\ nextChannelSequence[c] \in Int
  BY DEF TypeOK, HostTypeOK, ClientTypeOK, ConnectionTypeOK, ChannelTypeOK
<1>3. pc' \in Nat \ {0}
      /\ stage' \in {"call", "receipt", "header", "update", "updated"}
  BY <1>1, DriverSteps DEF DriverTypeOK, stepsOn
<1>4. /\ lastHeader' \in [Chain -> Nat]
      /\ \A c \in Chain : lastHeader'[c] = lastHeader[c] \/ lastHeader'[c] = 0
                            \/ (lastHeader'[c] = tip(c) /\ tip(c)' = tip(c))
  <2>1. CASE NewChain
    BY <1>1, <2>1 DEF NewChain, DriverTypeOK
  <2>2. CASE UpdateHeader
    BY <1>1, <2>2, TipsGrow
    DEF UpdateHeader, newerHeader, DriverTypeOK, vars, hostVars, tip
  <2>3. CASE ~NewChain /\ ~UpdateHeader
    BY <2>3, DriverSteps DEF DriverTypeOK, AlreadyDone, Submit, WaitForReceipt,
       UpdateOtherClient, ClientUpdated, driverVars
  <2> QED
    BY <2>1, <2>2, <2>3
<1>5. test' \in [Chain -> [client : IdOrNone, connection : IdOrNone, channel : IdOrNone]]
  <2>1. CASE NewChain
    BY <1>1, <2>1 DEF NewChain, NoTest, DriverTypeOK, IdOrNone
  <2>2. CASE WaitForReceipt
    BY <1>1, <1>2, <2>2 DEF WaitForReceipt, record, getLastID, DriverTypeOK, IdOrNone
  <2>3. CASE ~NewChain /\ ~WaitForReceipt
    BY <2>3, DriverSteps DEF DriverTypeOK, AlreadyDone, Submit, UpdateHeader,
       UpdateOtherClient, ClientUpdated, driverVars
  <2> QED
    BY <2>1, <2>2, <2>3
<1>6. disturbances' \in 0 .. MaxDisturbances
  BY <1>1, TipsGrow
<1>7. \A c \in Chain : lastHeader'[c] <= tip(c)' /\ tip(c)' <= MaxHeight
  BY <1>4, TipsGrow DEF DriverTypeOK
<1> QED
  BY <1>3, <1>4, <1>5, <1>6, <1>7 DEF DriverTypeOK

LEMMA StagesStep ==
    ASSUME DriverTypeOK, StagesInOrder, CoordinatorNext
    PROVE  StagesInOrder'
<1>1. ~Done /\ pc \in Nat \ {0}
  BY DriverSteps DEF DriverTypeOK
<1>2. CASE stage' = "call"
  BY <1>2 DEF StagesInOrder
<1>3. CASE stage' # "call"
  <2>1. pc' = pc
    BY <1>1, <1>3, DriverSteps DEF stepsOn, DriverTypeOK
  <2>2. op' = op /\ caller' = caller
    BY <2>1, CallKept
  <2>3. CASE Submit
    BY <1>1, <2>2, <2>3, Submitted DEF StagesInOrder, Submit, Transaction
  <2>4. CASE ~Submit
    <3>1. receipt' = receipt \/ stage' # "receipt"
      BY <2>4, DriverSteps
      DEF DriverTypeOK, NewChain, AlreadyDone, WaitForReceipt, UpdateHeader,
          ClientUpdated, driverVars
    <3>2. /\ stage # "call"
          /\ stage' \in {"header", "update", "updated"} =>
                stage \in {"header", "update", "updated"} \/ updatesClient
          /\ stage' = "receipt" => stage = "receipt"
      BY <1>1, <1>3, <2>1, <2>4, DriverSteps DEF DriverTypeOK, stepsOn
    <3> QED
      BY <1>1, <2>2, <3>1, <3>2 DEF StagesInOrder, updatesClient
  <2> QED
    BY <2>3, <2>4
<1> QED
  BY <1>2, <1>3

LEMMA FreshKept ==
    ASSUME TypeOK, DriverTypeOK, CoordinatorNext, NEW c \in Chain,
           NEW more \in 0 .. 1, Fresh(c, more), lastHeader'[c] = lastHeader[c],
           awaited(c) => tip(c) < lastHeader[c] + disturbances + more
    PROVE  Fresh(c, more)'
<1>1. /\ tip(c) \in Nat /\ tip(c)' \in Nat /\ tip(c)' >= tip(c)
      /\ lastHeader[c] \in Nat /\ disturbances \in Nat /\ disturbances' \in Nat
      /\ \/ tip(c)' = tip(c) /\ disturbances' >= disturbances
         \/ /\ tip(c)' = tip(c) + 1
            /\ \/ awaited(c) /\ disturbances' = disturbances
               \/ disturbances' = disturbances + 1
  BY TipsGrow, CoordinatorAssumption DEF DriverTypeOK
<1>2. tip(c)' <= lastHeader'[c] + disturbances' + more
  BY <1>1 DEF Fresh
<1>3. lastHeader'[c] \in 1 .. tip(c)'
  BY <1>1 DEF Fresh
<1> QED
  BY <1>2, <1>3 DEF Fresh

LEMMA FreshUpdate ==
    ASSUME TypeOK, DriverTypeOK, CoordinatorNext, UpdateHeader, NEW c, c = caller
    PROVE  Fresh(c, 0)'
<1>1. c \in Chain
  BY DriverSteps, CallPlaces DEF DriverTypeOK
<1>2. /\ tip(c) \in Nat /\ tip(c)' = tip(c) /\ disturbances' \in Nat
      /\ lastHeader[c] \in Nat
  BY <1>1, TipsGrow, CoordinatorAssumption
  DEF DriverTypeOK, UpdateHeader, vars, hostVars, tip
<1>3. tip(c) > lastHeader[c] /\ lastHeader'[c] = tip(c)
  BY <1>1 DEF UpdateHeader, newerHeader, DriverTypeOK
<1> QED
  BY <1>2, <1>3 DEF Fresh

LEMMA HeadersStep ==
    ASSUME TypeOK, DriverTypeOK, StagesInOrder, HeadersFresh, CoordinatorNext,
           DriverTypeOK', StagesInOrder'
    PROVE  HeadersFresh'
<1>1. /\ ~Done /\ pc \in Nat \ {0} /\ Position \in 1 .. 24 /\ caller \in Chain
      /\ stage \in {"call", "receipt", "header", "update", "updated"}
  BY DriverSteps, CallPlaces DEF DriverTypeOK
<1>2. CASE UNCHANGED driverVars
  <2>1. /\ UNCHANGED <<pc, stage, receipt, lastHeader, op, caller, Position>>
        /\ ~Done'
    BY <1>1, <1>2, CallKept DEF driverVars
  <2>2. stage \in {"call", "update"} => \A c \in Chain : ~awaited(c)
    BY DEF awaited
  <2>3. Position \in 6 .. 8 => ~awaited(Source)
    BY <1>1, CallPlaces, Chains DEF awaited, StagesInOrder, updatesClient
  <2>4. stage = "update" => Fresh(caller, 0)'
    BY <1>1, <2>1, <2>2, FreshKept DEF HeadersFresh
  <2>5. Position \in 6 .. 8 => Fresh(Source, 0)'
    BY <1>1, <2>1, <2>3, FreshKept, Chains DEF HeadersFresh
  <2>6. Position = 9 /\ stage = "call" => Fresh(Source, 0)' /\ Fresh(Target, 0)'
    BY <1>1, <2>1, <2>2, FreshKept, Chains DEF HeadersFresh
  <2>7. Position = 10 /\ stage = "call" => Fresh(Source, 1)'
    BY <1>1, <2>1, <2>2, FreshKept, Chains DEF HeadersFresh
  <2>8. ASSUME Position = 9, stage = "receipt"
        PROVE  /\ Fresh(Source, 1)'
               /\ receipt'.height \in 0 .. lastHeader'[Source] + disturbances' + 1
    <3>1. /\ Fresh(Source, 1) /\ receipt.chain = caller
          /\ receipt.height \in 0 .. lastHeader[Source] + disturbances + 1
          /\ caller = Source
      BY <1>1, <2>8, CallPlaces DEF HeadersFresh, StagesInOrder
    <3>2. /\ tip(Source) \in Nat /\ lastHeader[Source] \in Nat
          /\ disturbances \in Nat /\ disturbances' \in Nat
          /\ disturbances' >= disturbances
      BY TipsGrow, Chains, CoordinatorAssumption DEF DriverTypeOK
    <3>3. awaited(Source) => tip(Source) < receipt.height
      BY <2>8, <3>1, <3>2 DEF awaited, receiptFound
    <3>4. awaited(Source) => tip(Source) < lastHeader[Source] + disturbances + 1
      BY <3>1, <3>2, <3>3
    <3>5. Fresh(Source, 1)'
      BY <2>1, <3>1, <3>4, FreshKept, Chains
    <3> QED
      BY <2>1, <3>1, <3>2, <3>5
  <2> QED
    BY <2>1, <2>4, <2>5, <2>6, <2>7, <2>8 DEF HeadersFresh
<1>3. CASE ~(UNCHANGED driverVars) /\ pc' = pc
  <2>1. /\ UNCHANGED <<op, caller, Position>> /\ ~Done'
    BY <1>1, <1>3, CallKept
  <2>2. Submit \/ WaitForReceipt \/ UpdateHeader \/ UpdateOtherClient
    BY <1>1, <1>3, DriverSteps DEF stepsOn
  <2>3. stage' = "update" => Fresh(caller, 0)'
    <3>1. stage' = "update" => UpdateHeader
      BY <1>1, <1>3, <2>2 DEF Submit, WaitForReceipt, UpdateOtherClient
    <3> QED
      BY <2>1, <3>1, FreshUpdate
  <2>4. ASSUME Position \in 6 .. 10
        PROVE  /\ Submit /\ stage = "call" /\ stage' = "receipt"
               /\ lastHeader' = lastHeader
               /\ \A c \in Chain : ~awaited(c)
    <3>1. ~updatesClient \/ op = "UpdateHeader"
      BY <1>1, <2>4, CallPlaces DEF updatesClient
    <3>2. Submit
      BY <1>1, <1>3, <2>2, <3>1
      DEF WaitForReceipt, UpdateHeader, UpdateOtherClient, StagesInOrder
    <3> QED
      BY <3>2, Submitted DEF awaited
  <2>5. Position \in 6 .. 8 => Fresh(Source, 0)'
    BY <1>1, <2>4, FreshKept, Chains DEF HeadersFresh
  <2>6. Position = 9 => Fresh(Source, 1)'
    <3>1. ASSUME Position = 9 PROVE Fresh(Source, 0)'
      BY <1>1, <2>4, <3>1, FreshKept, Chains DEF HeadersFresh
    <3>2. lastHeader'[Source] \in Nat /\ disturbances' \in Nat /\ tip(Source)' \in Nat
      BY TipsGrow, Chains, CoordinatorAssumption DEF DriverTypeOK
    <3> QED
      BY <3>1, <3>2 DEF Fresh
  <2>7. Position = 9 =>
          receipt'.height \in 0 .. lastHeader'[Source] + disturbances' + 1
    <3> SUFFICES ASSUME Position = 9
                 PROVE  receipt'.height \in 0 .. lastHeader'[Source] + disturbances' + 1
      OBVIOUS
    <3>1. /\ Submit /\ lastHeader' = lastHeader /\ caller = Source
          /\ Fresh(Source, 0)
      BY <1>1, <2>4, CallPlaces DEF HeadersFresh
    <3>2. receipt'.height = tip(Source) + 1
      BY <3>1, Submitted DEF BlockNumber, tip
    <3>3. /\ tip(Source) \in Nat /\ lastHeader[Source] \in Nat
          /\ disturbances \in Nat /\ disturbances' \in Nat
          /\ disturbances' >= disturbances
      BY TipsGrow, Chains, CoordinatorAssumption DEF DriverTypeOK
    <3> QED
      BY <3>1, <3>2, <3>3 DEF Fresh
  <2> QED
    BY <2>1, <2>3, <2>4, <2>5, <2>6, <2>7 DEF HeadersFresh
<1>4. CASE pc' = pc + 1
  <2>1. /\ stage' = "call" /\ Position' = IF Position = 24 THEN 1 ELSE Position + 1
    BY <1>1, <1>4, DriverSteps, PositionAdvances DEF stepsOn
  <2>2. ASSUME Position \in 5 .. 9
        PROVE  /\ ~NewChain
               /\ UpdateHeader <=> Position \in {5, 8}
               /\ UpdateHeader \/ lastHeader' = lastHeader
               /\ \A c \in Chain : awaited(c) => Position \in {6, 7} /\ c = Target
    <3>1. /\ ~updatesClient \/ op = "UpdateHeader"
          /\ op # "NewChain"
          /\ op = "UpdateHeader" <=> Position \in {5, 8}
          /\ op \in {"BindPort", "RegisterClient"} <=> Position \in {6, 7}
          /\ Position \in {6, 7} => caller = Target
      BY <1>1, <2>2, CallPlaces DEF updatesClient
    <3>2. /\ stage \in {"call", "receipt"}
          /\ stage = "receipt" => Position \notin {5, 8} /\ receipt.chain = caller
      BY <1>1, <3>1 DEF StagesInOrder
    <3>3. ~NewChain
      BY <3>1 DEF NewChain
    <3>4. UpdateHeader <=> op = "UpdateHeader"
      BY <1>1, <1>4, <3>1, <3>2, DriverSteps
      DEF stepsOn, AlreadyDone, UpdateHeader, driverVars
    <3>5. UpdateHeader \/ lastHeader' = lastHeader
      BY <1>1, <3>3, DriverSteps
     
      DEF AlreadyDone, Submit, WaitForReceipt, UpdateOtherClient, ClientUpdated,
          driverVars
    <3>6. stage = "receipt" => receiptFound
      BY <1>1, <1>4, <3>2, DriverSteps DEF stepsOn, WaitForReceipt, driverVars
    <3> QED
      BY <3>1, <3>2, <3>3, <3>4, <3>5, <3>6 DEF awaited
  <2>3. Position = 5 => Fresh(Source, 0)'
    BY <1>1, <2>2, FreshUpdate, CallPlaces
  <2>4. Position = 8 => Fresh(Target, 0)'
    BY <1>1, <2>2, FreshUpdate, CallPlaces
  <2>5. Position \in 6 .. 8 => Fresh(Source, 0)'
    <3> SUFFICES ASSUME Position \in 6 .. 8 PROVE Fresh(Source, 0)'
      OBVIOUS
    <3>1. lastHeader'[Source] = lastHeader[Source]
      BY <1>1, <2>2, CallPlaces, Chains DEF UpdateHeader, newerHeader, DriverTypeOK
    <3> QED
      BY <1>1, <2>2, <3>1, FreshKept, Chains DEF HeadersFresh
  <2>6. Position = 9 => Fresh(Source, 1)'
    <3> SUFFICES ASSUME Position = 9 PROVE Fresh(Source, 1)'
      OBVIOUS
    <3>1. stage = "receipt"
      BY <1>1, <1>4, <2>2, CallPlaces, DriverSteps
      DEF stepsOn, AlreadyDone, StagesInOrder, updatesClient, driverVars
    <3> QED
      BY <1>1, <2>2, <3>1, FreshKept, Chains DEF HeadersFresh
  <2> QED
    BY <1>1, <2>1, <2>3, <2>4, <2>5, <2>6 DEF HeadersFresh
<1> QED
  BY <1>1, <1>2, <1>3, <1>4, DriverSteps DEF stepsOn

-----------------------------------------------------------------------------
(* Every step of the driver is one of IBCHandler                           *)

LEMMA ProofHeightKnown ==
    ASSUME ConnectionInv, DriverTypeOK, NEW c \in Chain, NEW id \in ClientId,
           NEW height, NEW prefix, validateArgs(c, id, height, prefix)
    PROVE  height \in 1 .. MaxHeight
<1>1. /\ clientStates[c][id] # None /\ height \in consensusStates[c][id]
  BY DEF validateArgs, clientStateFound
<1>2. /\ trackedChain(c, id) \in Chain
      /\ height \in 1 .. Len(blocks[trackedChain(c, id)])
  BY <1>1, KnownClient DEF ConnectionInv, TypeOK, HostTypeOK
<1>3. Len(blocks[trackedChain(c, id)]) \in Nat
  BY <1>2 DEF ConnectionInv, TypeOK, HostTypeOK, BlocksTypeOK
<1> QED
  BY <1>2, <1>3, NumberAssumption DEF DriverTypeOK, tip

LEMMA ChannelClientKnown ==
    ASSUME AgreementInv, NEW c \in Chain, NEW end \in End,
           channels[c][end].state # "UNINITIALIZED_UNSPECIFIED"
    PROVE  channelConnection(c, end).client_id \in ClientId
<1>1. /\ channels[c][end].connection_hops[1] \in ConnectionId
      /\ channelConnection(c, end).state # "UNINITIALIZED_UNSPECIFIED"
  BY DEF AgreementInv, ChannelInv, ChannelsSupported, Supports
<1> QED
  BY <1>1 DEF AgreementInv, ConnectionInv, ConnectionsAllocated, channelConnection

\* The identifiers of the test are those of existing objects.
LEMMA TestClients ==
    ASSUME TestInv, ~Done, stage # "receipt", Position \in 11 .. 24, NEW c \in Chain
    PROVE  test[c].client \in ClientId /\ clientStates[c][test[c].client] # None
<1>1. After(9) /\ After(10)
  BY DEF After
<1>2. newClient(c) = test[c].client
  BY DEF newClient, unrecorded
<1> QED
  BY <1>1, <1>2 DEF TestInv, DriverInv, ClientsCreated

LEMMA TestConnections ==
    ASSUME TestInv, ~Done, stage # "receipt", NEW c \in Chain,
           Position \in (IF c = Source THEN 12 ELSE 13) .. 24
    PROVE  /\ test[c].connection \in ConnectionId
           /\ connections[c][test[c].connection].client_id = test[c].client
<1>1. After(IF c = Source THEN 11 ELSE 12)
  BY DEF After
<1>2. newConnection(c) = test[c].connection
  BY DEF newConnection, unrecorded
<1> QED
  BY <1>1, <1>2, Chains DEF TestInv, DriverInv, ConnectionsCreated, ConnectionCreated

LEMMA TestChannels ==
    ASSUME TestInv, ~Done, stage # "receipt", NEW c \in Chain,
           Position \in (IF c = Source THEN 16 ELSE 17) .. 24
    PROVE  /\ EndOf(c) \in End /\ test[c].channel \in ChannelId
           /\ channels[c][EndOf(c)].state # "UNINITIALIZED_UNSPECIFIED"
<1>1. After(IF c = Source THEN 15 ELSE 16)
  BY DEF After
<1>2. newEnd(c) = EndOf(c)
  BY DEF newEnd, unrecorded, EndOf
<1> QED
  BY <1>1, <1>2, Chains
  DEF TestInv, DriverInv, ChannelsCreated, ChannelCreated, EndOf, End

LEMMA SubmittedClients ==
    ASSUME InputsSuffice, TestInv, ~Done, Submit,
           op \in {"BindPort", "RegisterClient", "CreateClient"}
    PROVE  Next
<1>1. /\ pc \in Nat \ {0} /\ DriverTypeOK /\ HeadersFresh /\ stage = "call"
      /\ TypeOK
  BY Submitted DEF TestInv, DriverInv, DriverTypeOK, DeliveryInv, PacketInv, ChannelInv
<1>2. caller \in Chain /\ Other(caller) \in Chain /\ Position \in 1 .. 24
  BY <1>1, CallPlaces, Chains
<1>3. CASE op = "BindPort"
  <2>1. TransferPort \in Port /\ TransferModule \in Module
    BY DEF TransferPort, TransferModule, InputsSuffice
  <2>2. BindPort(caller) /\ UNCHANGED eventVars
    BY <1>3, <2>1, Submitted DEF BindPortTx, BindPort, noEvent
  <2> QED
    BY <1>2, <2>2 DEF ChannelNext, Next
<1>4. CASE op = "RegisterClient"
  BY <1>2, <1>4, Submitted
  DEF RegisterClientTx, RegisterClient, onlyHandlerState, noEvent, ClientNext, Next
<1>5. CASE op = "CreateClient"
  <2> DEFINE d == Other(caller)
  <2>1. Fresh(d, 0) \/ Fresh(d, 1)
    BY <1>1, <1>5, CallPlaces, Chains DEF HeadersFresh
  <2>2. /\ tip(d) \in Nat /\ lastHeader[d] \in Nat /\ HeaderLag \in Nat
        /\ disturbances \in 0 .. MaxDisturbances /\ MaxDisturbances \in Nat
        /\ HeaderLag > MaxDisturbances
    BY <1>1, <1>2, HeaderLagAssumption, CoordinatorAssumption
    DEF DriverTypeOK, TypeOK, HostTypeOK, BlocksTypeOK, tip, InputsSuffice
  <2>3. lastHeader[d] \in SubmittedHeights(d)
    BY <2>1, <2>2 DEF Fresh, SubmittedHeights, tip
  <2>4. d \in Remotes[caller]
    BY <1>2 DEF InputsSuffice
  <2>5. CreateClient(caller)
    BY <1>5, <2>3, <2>4, Submitted DEF CreateIBFT2Client, CreateClient
  <2>6. UNCHANGED <<capabilities, eventVars>>
    BY <1>5, Submitted DEF CreateIBFT2Client, onlyHandlerState, noEvent
  <2> QED
    BY <1>2, <2>5, <2>6 DEF ClientNext, Next
<1> QED
  BY <1>3, <1>4, <1>5

LEMMA UpdateRefines ==
    ASSUME InputsSuffice, TestInv, ~Done, UpdateOtherClient
    PROVE  Next
<1> DEFINE c == Other(caller)
           id == test[c].client
<1>1. /\ pc \in Nat \ {0} /\ DriverTypeOK /\ HeadersFresh /\ StagesInOrder
      /\ stage = "update" /\ TypeOK /\ ConnectionInv
  BY DEF TestInv, DriverInv, DriverTypeOK, DeliveryInv, PacketInv, ChannelInv,
         AgreementInv, UpdateOtherClient
<1>2. /\ caller \in Chain /\ c \in Chain /\ Position \in 11 .. 24
      /\ Other(c) = caller
  BY <1>1, CallPlaces, Chains DEF StagesInOrder, updatesClient
<1>3. id \in ClientId /\ clientStates[c][id] # None
  BY <1>1, <1>2, TestClients
<1>4. clientStates[c][id].chain = caller
  BY <1>1, <1>2, <1>3, KnownClient
  DEF trackedChain, InputsSuffice, ConnectionInv, TypeOK, HostTypeOK
<1>5. lastHeader[caller] \in SubmittedHeights(caller)
  <2>1. Fresh(caller, 0)
    BY <1>1 DEF HeadersFresh
  <2>2. /\ tip(caller) \in Nat /\ lastHeader[caller] \in Nat /\ HeaderLag \in Nat
        /\ disturbances \in 0 .. MaxDisturbances /\ MaxDisturbances \in Nat
        /\ HeaderLag > MaxDisturbances
    BY <1>1, <1>2, HeaderLagAssumption, CoordinatorAssumption
    DEF DriverTypeOK, TypeOK, HostTypeOK, BlocksTypeOK, tip, InputsSuffice
  <2> QED
    BY <2>1, <2>2 DEF Fresh, SubmittedHeights, tip
<1>6. updateClient(c, id, lastHeader[caller], getLatestHeight(c, id))
  BY <1>2 DEF UpdateOtherClient, UpdateIBFT2Client
<1>7. getLatestHeight(c, id) \in consensusStates[c][id]
  BY <1>6 DEF updateClient, checkHeader
<1>8. UpdateClient(c, id)
  BY <1>3, <1>4, <1>5, <1>6, <1>7 DEF UpdateClient, clientStateFound
<1> QED
  BY <1>2, <1>3, <1>8
  DEF UpdateOtherClient, UpdateIBFT2Client, onlyHandlerState, noEvent, ClientNext, Next

LEMMA SubmittedConnections ==
    ASSUME InputsSuffice, TestInv, ~Done, Submit,
           op \in {"ConnOpenInit", "ConnOpenTry", "ConnOpenAck", "ConnOpenConfirm"}
    PROVE  Next
<1>1. /\ pc \in Nat \ {0} /\ DriverTypeOK /\ stage = "call" /\ ConnectionInv
  BY Submitted DEF TestInv, DriverInv, DriverTypeOK, DeliveryInv, AgreementInv
<1>2. /\ caller \in Chain /\ Other(caller) \in Chain /\ Position \in 11 .. 14
      /\ op \in {"ConnOpenAck", "ConnOpenConfirm"} =>
           Position \in (IF caller = Source THEN 12 ELSE 13) .. 24
  BY <1>1, CallPlaces, Chains
<1>3. test[caller].client \in ClientId /\ test[Other(caller)].client \in ClientId
  BY <1>1, <1>2, TestClients
<1>4. "1" \in Version /\ "ibc" \in Prefix /\ 0 \in DelayPeriod
      /\ None \in InitCounterpartyConnection
  BY InputAssumption DEF InputsSuffice
<1> DEFINE refined == /\ \/ ConnectionOpenInit(caller) \/ ConnectionOpenTry(caller)
                         \/ ConnectionOpenAck(caller) \/ ConnectionOpenConfirm(caller)
                      /\ UNCHANGED <<capabilities, eventVars>>
<1>5. ASSUME op = "ConnOpenInit" PROVE refined
  <2>1. ConnectionOpenInit(caller)
    BY <1>3, <1>4, <1>5, Submitted
    DEF ConnectionOpenInitTx, MsgCounterparty, ConnectionOpenInit
  <2> QED
    BY <1>5, <2>1, Submitted DEF ConnectionOpenInitTx, onlyHandlerState, noEvent
<1>6. ASSUME op = "ConnOpenTry" PROVE refined
  <2> DEFINE peer == MsgCounterparty(caller, test[Other(caller)].connection)
  <2>1. connectionOpenTry(caller, test[caller].client, peer, 0, caller, <<"1">>,
                          proofHeight(caller))
    BY <1>6, Submitted DEF ConnectionOpenTryTx
  <2>2. /\ validateArgs(caller, test[caller].client, proofHeight(caller), peer.prefix)
        /\ peer.connection_id \in ConnectionId
    BY <2>1 DEF connectionOpenTry, verifyConnectionState
  <2>3. proofHeight(caller) \in 1 .. MaxHeight
    BY <1>1, <1>2, <1>3, <2>2, ProofHeightKnown
  <2>4. ConnectionOpenTry(caller)
    BY <1>2, <1>3, <1>4, <2>1, <2>2, <2>3 DEF MsgCounterparty, ConnectionOpenTry
  <2> QED
    BY <1>6, <2>4, Submitted DEF ConnectionOpenTryTx, onlyHandlerState, noEvent
<1>7. ASSUME op = "ConnOpenAck" PROVE refined
  <2> DEFINE id == test[caller].connection
  <2>1. id \in ConnectionId /\ connections[caller][id].client_id = test[caller].client
    BY <1>1, <1>2, <1>7, TestConnections
  <2>2. connectionOpenAck(caller, id, caller, "1", test[Other(caller)].connection,
                          proofHeight(caller))
    BY <1>7, Submitted DEF ConnectionOpenAckTx
  <2>3. /\ validateArgs(caller, test[caller].client, proofHeight(caller),
                        connections[caller][id].counterparty.prefix)
        /\ test[Other(caller)].connection \in ConnectionId
    BY <2>1, <2>2 DEF connectionOpenAck, verifyConnectionState
  <2>4. proofHeight(caller) \in 1 .. MaxHeight
    BY <1>1, <1>2, <1>3, <2>3, ProofHeightKnown
  <2>5. ConnectionOpenAck(caller)
    BY <1>2, <1>4, <2>1, <2>2, <2>3, <2>4 DEF ConnectionOpenAck
  <2> QED
    BY <1>7, <2>5, Submitted DEF ConnectionOpenAckTx, onlyHandlerState, noEvent
<1>8. ASSUME op = "ConnOpenConfirm" PROVE refined
  <2> DEFINE id == test[caller].connection
  <2>1. id \in ConnectionId /\ connections[caller][id].client_id = test[caller].client
    BY <1>1, <1>2, <1>8, TestConnections
  <2>2. connectionOpenConfirm(caller, id, proofHeight(caller))
    BY <1>8, Submitted DEF ConnectionOpenConfirmTx
  <2>3. validateArgs(caller, test[caller].client, proofHeight(caller),
                     connections[caller][id].counterparty.prefix)
    BY <2>1, <2>2 DEF connectionOpenConfirm, verifyConnectionState
  <2>4. proofHeight(caller) \in 1 .. MaxHeight
    BY <1>1, <1>2, <1>3, <2>3, ProofHeightKnown
  <2>5. ConnectionOpenConfirm(caller)
    BY <2>1, <2>2, <2>4 DEF ConnectionOpenConfirm
  <2> QED
    BY <1>8, <2>5, Submitted DEF ConnectionOpenConfirmTx, onlyHandlerState, noEvent
<1>9. refined
  BY <1>5, <1>6, <1>7, <1>8
<1> QED
  BY <1>2, <1>9 DEF ConnectionNext, Next

\* The height a proof for an existing channel end is of.
LEMMA ChannelProofHeight ==
    ASSUME AgreementInv, DriverTypeOK, NEW c \in Chain, NEW end \in End,
           channels[c][end].state # "UNINITIALIZED_UNSPECIFIED",
           NEW height, NEW prefix,
           validateArgs(c, channelConnection(c, end).client_id, height, prefix)
    PROVE  height \in 1 .. MaxHeight
BY ChannelClientKnown, ProofHeightKnown DEF AgreementInv

\* What the driver proposes is among the channels a message may propose.
LEMMA ProposedChannel ==
    ASSUME InputsSuffice, NEW c \in Chain, test[c].connection \in ConnectionId
    PROVE  /\ MsgChannel(c, "INIT", None) \in ChannelInput("INIT")
           /\ \A id \in ChannelId :
                MsgChannel(c, "TRYOPEN", id) \in ChannelInput("TRYOPEN")
<1>1. /\ TransferPort \in Port /\ "UNORDERED" \in Ordering
      /\ <<test[c].connection>> \in ConnectionHops
      /\ (CHOOSE v \in ChannelVersion : TRUE) \in ChannelVersion
      /\ None \in InitCounterpartyChannel
  BY TransferPortType DEF InputsSuffice
<1> QED
  BY <1>1 DEF MsgChannel, ChannelInput

LEMMA SubmittedChannels ==
    ASSUME InputsSuffice, TestInv, ~Done, Submit,
           op \in {"ChanOpenInit", "ChanOpenTry", "ChanOpenAck", "ChanOpenConfirm"}
    PROVE  Next
<1>1. /\ pc \in Nat \ {0} /\ DriverTypeOK /\ stage = "call" /\ AgreementInv
      /\ ConnectionInv
  BY Submitted DEF TestInv, DriverInv, DriverTypeOK, DeliveryInv, AgreementInv
<1>2. /\ caller \in Chain /\ Other(caller) \in Chain /\ Position \in 15 .. 18
      /\ op = "ChanOpenTry" =>
           Position \in (IF Other(caller) = Source THEN 16 ELSE 17) .. 24
      /\ op \in {"ChanOpenAck", "ChanOpenConfirm"} =>
           /\ Position \in (IF caller = Source THEN 16 ELSE 17) .. 24
           /\ Position \in (IF Other(caller) = Source THEN 16 ELSE 17) .. 24
  BY <1>1, CallPlaces, Chains
<1>3. /\ test[caller].client \in ClientId /\ test[caller].connection \in ConnectionId
      /\ connections[caller][test[caller].connection].client_id = test[caller].client
  BY <1>1, <1>2, TestClients, TestConnections
<1>4. /\ TransferPort \in Port
      /\ (CHOOSE v \in ChannelVersion : TRUE) \in ChannelVersion
  BY TransferPortType DEF InputsSuffice
<1> DEFINE refined == /\ \/ ChannelOpenInit(caller) \/ ChannelOpenTry(caller)
                         \/ ChannelOpenAck(caller) \/ ChannelOpenConfirm(caller)
                      /\ UNCHANGED eventVars
<1>5. ASSUME op = "ChanOpenInit" PROVE refined
  <2>1. MsgChannel(caller, "INIT", None) \in ChannelInput("INIT")
    BY <1>2, <1>3, ProposedChannel
  <2>2. ChannelOpenInit(caller)
    BY <1>4, <1>5, <2>1, Submitted DEF ChannelOpenInitTx, ChannelOpenInit
  <2> QED
    BY <1>5, <2>2, Submitted DEF ChannelOpenInitTx, noEvent
<1>6. ASSUME op = "ChanOpenTry" PROVE refined
  <2> DEFINE message == MsgChannel(caller, "TRYOPEN", test[Other(caller)].channel)
  <2>1. test[Other(caller)].channel \in ChannelId
    BY <1>1, <1>2, <1>6, TestChannels
  <2>2. message \in ChannelInput("TRYOPEN")
    BY <1>2, <1>3, <2>1, ProposedChannel
  <2>3. PICK id \in ChannelId :
          /\ channelOpenTry(caller, TransferPort, id, message, message.version,
                            proofHeight(caller))
          /\ claimChannel(caller, TransferPort, id)
    BY <1>6, Submitted DEF ChannelOpenTryTx
  <2>4. /\ message.connection_hops[1] = test[caller].connection
        /\ message.version \in ChannelVersion
    BY <1>4 DEF MsgChannel
  <2>5. validateArgs(caller, test[caller].client, proofHeight(caller),
                     connections[caller][test[caller].connection].counterparty.prefix)
    BY <1>3, <2>3, <2>4 DEF channelOpenTry, verifyChannelState
  <2>6. proofHeight(caller) \in 1 .. MaxHeight
    BY <1>1, <1>2, <1>3, <2>5, ProofHeightKnown
  <2>7. ChannelOpenTry(caller)
    BY <1>4, <2>2, <2>3, <2>4, <2>6 DEF ChannelOpenTry
  <2> QED
    BY <1>6, <2>7, Submitted DEF ChannelOpenTryTx, noEvent
<1>7. ASSUME op \in {"ChanOpenAck", "ChanOpenConfirm"} PROVE refined
  <2> DEFINE end == <<TransferPort, test[caller].channel>>
             prefix == channelConnection(caller, end).counterparty.prefix
  <2>1. /\ end \in End /\ test[caller].channel \in ChannelId
        /\ test[Other(caller)].channel \in ChannelId
        /\ channels[caller][end].state # "UNINITIALIZED_UNSPECIFIED"
    BY <1>1, <1>2, <1>7, TestChannels DEF EndOf
  <2>2. op = "ChanOpenAck" =>
          channelOpenAck(caller, TransferPort, test[caller].channel,
            CHOOSE v \in ChannelVersion : TRUE, test[Other(caller)].channel,
            proofHeight(caller))
    BY Submitted DEF ChannelOpenAckTx
  <2>3. op = "ChanOpenConfirm" =>
          channelOpenConfirm(caller, TransferPort, test[caller].channel,
                             proofHeight(caller))
    BY Submitted DEF ChannelOpenConfirmTx
  <2>4. validateArgs(caller, channelConnection(caller, end).client_id,
                     proofHeight(caller), prefix)
    BY <1>7, <2>2, <2>3 DEF channelOpenAck, channelOpenConfirm, verifyChannelState
  <2>5. proofHeight(caller) \in 1 .. MaxHeight
    BY <1>1, <1>2, <2>1, <2>4, ChannelProofHeight
  <2>6. /\ moduleOwnerFound(caller, <<TransferPort>>)
        /\ UNCHANGED <<capabilities, eventVars>>
    BY <1>7, Submitted
    DEF ChannelOpenAckTx, ChannelOpenConfirmTx, onlyHandlerState, noEvent
  <2>7. op = "ChanOpenAck" => ChannelOpenAck(caller)
    BY <1>4, <2>1, <2>2, <2>5, <2>6 DEF ChannelOpenAck
  <2>8. op = "ChanOpenConfirm" => ChannelOpenConfirm(caller)
    BY <1>4, <2>1, <2>3, <2>5, <2>6 DEF ChannelOpenConfirm
  <2> QED
    BY <1>7, <2>6, <2>7, <2>8
<1>8. refined
  BY <1>5, <1>6, <1>7
<1> QED
  BY <1>2, <1>8 DEF ChannelNext, Next

LEMMA SubmittedTransfers ==
    ASSUME InputsSuffice, TestInv, ~Done, Submit, op = "SendTransfer"
    PROVE  SendPacket(caller)
<1>1. /\ pc \in Nat \ {0} /\ DriverTypeOK /\ stage = "call"
      /\ TypeOK
  BY Submitted DEF TestInv, DriverInv, DriverTypeOK, DeliveryInv, AgreementInv,
     ConnectionInv
<1>2. /\ caller \in Chain /\ Other(caller) \in Chain
      /\ Position \in (IF caller = Source THEN 16 ELSE 17) .. 24
      /\ Position \in (IF Other(caller) = Source THEN 16 ELSE 17) .. 24
  BY <1>1, CallPlaces, Chains
<1>3. /\ EndOf(caller) \in End /\ test[caller].channel \in ChannelId
      /\ test[Other(caller)].channel \in ChannelId
  BY <1>1, <1>2, TestChannels
<1>4. TransferPort \in Port /\ TransferModule \in Module
  BY TransferPortType DEF InputsSuffice, TransferModule
<1>5. lastHeader[caller] + TimeoutOffset \in TimeoutHeight /\ 0 \in TimeoutTimestamp
  <2>1. lastHeader[caller] \in 0 .. MaxHeight
    BY <1>1, <1>2, NumberAssumption
    DEF DriverTypeOK, TypeOK, HostTypeOK, BlocksTypeOK, tip
  <2> QED
    BY <2>1 DEF InputsSuffice
<1> DEFINE transfer(data) ==
             [sequence |-> nextSequenceSends[caller][EndOf(caller)],
              source_port |-> TransferPort,
              source_channel |-> test[caller].channel,
              destination_port |-> TransferPort,
              destination_channel |-> test[Other(caller)].channel,
              data |-> data,
              timeout_height |-> lastHeader[caller] + TimeoutOffset,
              timeout_timestamp |-> 0]
<1>6. PICK data \in Payload[caller] :
        /\ authenticateCapability(caller, EndOf(caller), TransferModule)
        /\ sendPacket(caller, transfer(data))
        /\ sendEvents' = emit(sendEvents, caller, EndOf(caller), transfer(data))
        /\ UNCHANGED <<capabilities, recvEvents, ackEvents>>
  BY Submitted DEF SendTransferTx
<1>7. source(transfer(data)) = EndOf(caller)
  BY DEF source, EndOf
<1>8. nextSequenceSends[caller][EndOf(caller)] \in Sequence \ {0}
  BY <1>1, <1>2, <1>3, <1>6, <1>7
  DEF sendPacket, TypeOK, HostTypeOK, SequenceTypeOK, Sequence
<1>9. transfer(data) \in
        [sequence : Sequence \ {0}, source_port : Port,
         source_channel : ChannelId, destination_port : Port,
         destination_channel : ChannelId, data : Payload[caller],
         timeout_height : TimeoutHeight, timeout_timestamp : TimeoutTimestamp]
  BY <1>3, <1>4, <1>5, <1>6, <1>8
<1> QED
  BY <1>4, <1>6, <1>7, <1>9 DEF SendPacket

LEMMA SubmittedReceipts ==
    ASSUME InputsSuffice, TestInv, ~Done, Submit, op = "HandlePacketRecv"
    PROVE  \E packet \in Packet : RecvPacket(caller, packet)
<1> DEFINE packet == GetLastSentPacket(Other(caller))
           end == destination(packet)
           prefix == channelConnection(caller, end).counterparty.prefix
<1>1. /\ pc \in Nat \ {0} /\ DriverTypeOK /\ stage = "call" /\ AgreementInv
  BY Submitted DEF TestInv, DriverInv, DriverTypeOK, DeliveryInv
<1>2. caller \in Chain /\ Position \in {20, 23}
  BY <1>1, CallPlaces
<1>3. packet \in Packet
  BY <1>1, <1>2, RelayedPacket
<1>4. end \in End
  BY <1>3 DEF destination, Packet, End
<1>5. /\ moduleOwnerFound(caller, end)
      /\ recvPacket(caller, packet, proofHeight(caller))
      /\ writeAcknowledgement(caller, end, packet.sequence, Success)
      /\ recvEvents' = emit(recvEvents, caller, end, packet)
      /\ UNCHANGED <<capabilities, sendEvents, ackEvents>>
  BY Submitted DEF HandlePacketRecvTx
<1>6. /\ channels[caller][end].state = "OPEN"
      /\ validateArgs(caller, channelConnection(caller, end).client_id,
                      proofHeight(caller), prefix)
  BY <1>5 DEF recvPacket, verifyPacketCommitment
<1>7. proofHeight(caller) \in 1 .. MaxHeight
  BY <1>1, <1>2, <1>4, <1>6, ChannelProofHeight
<1>8. Success \in Returned /\ Success # None
  BY SlotAssumption DEF InputsSuffice
<1> HIDE DEF packet
<1> QED
  BY <1>3, <1>5, <1>7, <1>8 DEF RecvPacket

LEMMA SubmittedAcknowledgements ==
    ASSUME InputsSuffice, TestInv, ~Done, Submit, op = "HandlePacketAcknowledgement"
    PROVE  \E packet \in Packet : AcknowledgePacket(caller, packet)
<1> DEFINE end == source(transferPacket)
           prefix == channelConnection(caller, end).counterparty.prefix
<1>1. /\ pc \in Nat \ {0} /\ DriverTypeOK /\ stage = "call" /\ AgreementInv
      /\ SentOnce
  BY Submitted DEF TestInv, DriverInv, DriverTypeOK, DeliveryInv
<1>2. caller \in Chain /\ Position \in {21, 24}
  BY <1>1, CallPlaces
<1>3. transferPacket \in Packet
  BY <1>1, <1>2 DEF SentOnce, After
<1>4. end \in End
  BY <1>3 DEF source, Packet, End
<1>5. /\ moduleOwnerFound(caller, end)
      /\ acknowledgePacket(caller, transferPacket, Success, proofHeight(caller))
      /\ ackEvents' = emit(ackEvents, caller, end,
                           [packet |-> transferPacket, ack |-> Success])
      /\ UNCHANGED <<capabilities, sendEvents, recvEvents>>
  BY Submitted DEF HandlePacketAcknowledgementTx
<1>6. /\ channels[caller][end].state = "OPEN"
      /\ validateArgs(caller, channelConnection(caller, end).client_id,
                      proofHeight(caller), prefix)
  BY <1>5 DEF acknowledgePacket, verifyPacketAcknowledgement
<1>7. proofHeight(caller) \in 1 .. MaxHeight
  BY <1>1, <1>2, <1>4, <1>6, ChannelProofHeight
<1>8. Success \in Acknowledgement
  BY DEF InputsSuffice
<1> QED
  BY <1>3, <1>5, <1>7, <1>8 DEF AcknowledgePacket

\* Each step of the test is one of the handler's.
LEMMA StepRefines ==
    ASSUME InputsSuffice, TestInv, [CoordinatorNext]_coordinatorVars
    PROVE  [Next]_vars
<1>1. CASE UNCHANGED coordinatorVars
  BY <1>1 DEF coordinatorVars
<1>2. CASE DriverNext
  <2>1. ~Done
    BY <1>2 DEF DriverNext
  <2>2. CASE Submit
    <3>1. caller \in Chain
      BY <2>1, CallPlaces DEF TestInv, DriverInv, DriverTypeOK
    <3>2. op \in {"SendTransfer", "HandlePacketRecv", "HandlePacketAcknowledgement"} =>
            PacketNext(caller)
      BY <2>1, <2>2, SubmittedTransfers, SubmittedReceipts, SubmittedAcknowledgements
      DEF PacketNext
    <3> QED
      BY <2>1, <2>2, <3>1, <3>2, SubmittedClients, SubmittedConnections,
         SubmittedChannels DEF Submit, Transaction, Next
  <2>3. CASE UpdateOtherClient
    BY <2>1, <2>3, UpdateRefines
  <2>4. CASE NewChain \/ AlreadyDone \/ WaitForReceipt \/ UpdateHeader \/ ClientUpdated
    BY <2>4 DEF NewChain, AlreadyDone, WaitForReceipt, UpdateHeader, ClientUpdated
  <2> QED
    BY <1>2, <2>2, <2>3, <2>4 DEF DriverNext
<1>3. ASSUME NEW c \in Chain, SealAwaited(c) \/ SealIdle(c)
      PROVE  Next
  BY <1>3 DEF SealAwaited, SealIdle, Seal, noEvent, Next
<1>4. ASSUME NEW c \in Chain, BindOther(c)
      PROVE  Next
  <2>1. TransferPort \in Port /\ OtherModule \in Module
    BY TransferPortType DEF InputsSuffice
  <2>2. BindPort(c) /\ UNCHANGED eventVars
    BY <1>4, <2>1 DEF BindOther, noEvent, BindPort
  <2> QED
    BY <2>2 DEF ChannelNext, Next
<1> QED
  BY <1>1, <1>2, <1>3, <1>4 DEF CoordinatorNext

-----------------------------------------------------------------------------
(* The theorems                                                            *)

LEMMA TestInit == InputsSuffice /\ CoordinatorInit => TestInv
<1> SUFFICES ASSUME InputsSuffice, CoordinatorInit PROVE TestInv
  OBVIOUS
<1>1. DeliveryInv /\ TypeOK
  BY DeliveryInit DEF CoordinatorInit, DeliveryInv, AgreementInv, ConnectionInv
<1>2. \A c \in Chain : tip(c) = 1
  BY DEF CoordinatorInit, Init, HostInit, tip
<1>3. pc = 1 /\ stage = "call" /\ Position = 1
  BY DEF CoordinatorInit, Position
<1>4. DriverTypeOK
  <2>1. MaxDisturbances \in Nat /\ MaxHeight \in Nat /\ MaxHeight > 0
    BY CoordinatorAssumption, NumberAssumption DEF InputsSuffice
  <2> QED
    BY <1>2, <1>3, <2>1 DEF CoordinatorInit, DriverTypeOK, NoTest, IdOrNone
<1>5. \A i \in 9 .. 22 : ~After(i)
  BY <1>3 DEF After
<1>6. StagesInOrder /\ HeadersFresh
  BY <1>3 DEF StagesInOrder, HeadersFresh
<1>7. ClientsCreated /\ ConnectionsCreated /\ ChannelsCreated /\ SentOnce
  BY <1>5 DEF ClientsCreated, ConnectionsCreated, ChannelsCreated, SentOnce
<1> QED
  BY <1>1, <1>4, <1>6, <1>7 DEF TestInv, DriverInv

LEMMA TestStep ==
    InputsSuffice /\ TestInv /\ [CoordinatorNext]_coordinatorVars => TestInv'
<1> SUFFICES ASSUME InputsSuffice, TestInv, [CoordinatorNext]_coordinatorVars
             PROVE  TestInv'
  OBVIOUS
<1>1. [Next]_vars
  BY StepRefines
<1>2. DeliveryInv /\ DriverInv
  BY DEF TestInv
<1>3. DeliveryInv'
  BY <1>1, <1>2, TestPaired, DeliveryStep
<1>4. TypeOK /\ TypeOK'
  BY <1>2, <1>3 DEF DeliveryInv, AgreementInv, ConnectionInv
<1>5. CASE CoordinatorNext
  <2>1. DriverTypeOK' /\ StagesInOrder'
    BY <1>2, <1>4, <1>5, DriverTypeStep, StagesStep DEF DriverInv
  <2>2. HeadersFresh'
    BY <1>2, <1>4, <1>5, <2>1, HeadersStep DEF DriverInv
  <2>3. ClientsCreated' /\ ConnectionsCreated' /\ ChannelsCreated' /\ SentOnce'
    BY <1>1, <1>4, <1>5, ClientsCreatedStep, ConnectionsCreatedStep,
       ChannelsCreatedStep, PacketsStep
  <2> QED
    BY <1>3, <2>1, <2>2, <2>3 DEF TestInv, DriverInv
<1>6. CASE UNCHANGED coordinatorVars
  <2>1. UNCHANGED <<pc, stage, receipt, lastHeader, test, transferPacket,
                    disturbances, blocks, clientStates, connections, channels,
                    nextClientSequence, nextConnectionSequence,
                    nextChannelSequence, sendEvents>>
    BY <1>6 DEF coordinatorVars, driverVars, vars, hostVars, clientVars,
       connectionVars, channelVars, eventVars
  <2>2. UNCHANGED <<op, caller, Position>> /\ (Done' <=> Done)
    BY <2>1, CallKept
  <2>3. \A i \in 9 .. 22 : After(i)' <=> After(i)
    BY <2>1, <2>2 DEF After
  <2>4. \A c \in Chain :
          UNCHANGED <<newClient(c), newConnection(c), newEnd(c), Sent(c, newEnd(c))>>
    BY <2>1, <2>2 DEF newClient, newConnection, newEnd, unrecorded, getLastID, Sent
  <2>5. DriverTypeOK' /\ StagesInOrder'
    BY <1>2, <2>1, <2>2 DEF DriverInv, DriverTypeOK, StagesInOrder, updatesClient, tip
  <2>6. HeadersFresh'
    BY <1>2, <2>1, <2>2 DEF DriverInv, HeadersFresh, Fresh, tip
  <2>7. ClientsCreated'
    BY <1>2, <2>1, <2>3, <2>4 DEF DriverInv, ClientsCreated
  <2>8. ConnectionsCreated'
    BY <1>2, <2>1, <2>3, <2>4, Chains
    DEF DriverInv, ConnectionsCreated, ConnectionCreated, ConnectionNames
  <2>9. ChannelsCreated'
    BY <1>2, <2>1, <2>3, <2>4, Chains
    DEF DriverInv, ChannelsCreated, ChannelCreated, ChannelNames, counterpartyEnd
  <2>10. SentOnce'
    BY <1>2, <2>1, <2>3, <2>4, Chains DEF DriverInv, SentOnce
  <2> QED
    BY <1>3, <2>5, <2>6, <2>7, <2>8, <2>9, <2>10 DEF TestInv, DriverInv
<1> QED
  BY <1>5, <1>6

\* Whatever blocks are sealed meanwhile and whoever binds to the port, chains.go
\* and coordinator.go record and cache what they go on to use: TestInv holds
\* after every transaction, receipt and header of the test.
THEOREM TestInvariant == InputsSuffice => (CoordinatorSpec => []TestInv)
<1> SUFFICES ASSUME InputsSuffice PROVE CoordinatorSpec => []TestInv
  OBVIOUS
<1>1. CoordinatorInit => TestInv
  BY TestInit
<1>2. TestInv /\ [CoordinatorNext]_coordinatorVars => TestInv'
  BY TestStep
<1> QED
  BY <1>1, <1>2, PTL DEF CoordinatorSpec

\* After the handshakes the coordinator goes on with OPEN ends that name each
\* other: the identifiers that getLastID reads from the host's logs are those of
\* its own ends, also when another application is bound or blocks are sealed
\* between a transaction and its receipt.
THEOREM TestEndsOpen == InputsSuffice => (CoordinatorSpec => []RecordedEndsOpen)
<1> SUFFICES ASSUME InputsSuffice PROVE CoordinatorSpec => []RecordedEndsOpen
  OBVIOUS
<1>1. ASSUME TestInv PROVE RecordedEndsOpen
  <2> SUFFICES ASSUME NEW c \in Chain
               PROVE  /\ UsesConnection =>
                           LET end == connections[c][test[c].connection] IN
                           /\ end.state = "OPEN" /\ end.client_id = test[c].client
                           /\ end.counterparty.client_id = test[Other(c)].client
                           /\ end.counterparty.connection_id = test[Other(c)].connection
                      /\ UsesChannel =>
                           LET end == channels[c][EndOf(c)] IN
                           /\ end.state = "OPEN"
                           /\ end.connection_hops = <<test[c].connection>>
                           /\ counterpartyEnd(end) = EndOf(Other(c))
    BY DEF RecordedEndsOpen
  <2>1. /\ pc \in Nat \ {0} /\ ConnectionsCreated /\ ChannelsCreated
    BY <1>1 DEF TestInv, DriverInv, DriverTypeOK
  <2>2. /\ OpsOf(CreateChannel) = {"ChanOpenInit", "ChanOpenTry", "ChanOpenAck",
                                   "ChanOpenConfirm"}
        /\ OpsOf(Transfer(Source)) = {"SendTransfer", "HandlePacketRecv",
                                      "HandlePacketAcknowledgement"}
    BY DEF OpsOf, CreateChannel, Transfer, Call
  <2>3. ASSUME UsesConnection
        PROVE  /\ ConnectionCreated(c) /\ ConnectionNames(c, {"OPEN"})
               /\ newConnection(c) = test[c].connection
               /\ newConnection(Other(c)) = test[Other(c)].connection
    <3>1. /\ ~Done /\ Position \in 15 .. 24
          /\ op \notin {"ConnOpenInit", "ConnOpenTry"}
      BY <2>1, <2>2, <2>3, CallPlaces DEF UsesConnection
    <3>2. After(11) /\ After(12) /\ After(13) /\ After(14)
      BY <3>1 DEF After
    <3> QED
      BY <2>1, <3>1, <3>2, Chains DEF ConnectionsCreated, newConnection, unrecorded
  <2>4. ASSUME UsesChannel
        PROVE  /\ ChannelCreated(c) /\ ChannelNames(c, {"OPEN"})
               /\ newEnd(c) = EndOf(c) /\ newEnd(Other(c)) = EndOf(Other(c))
    <3>1. /\ ~Done /\ Position \in 19 .. 24
          /\ op \notin {"ChanOpenInit", "ChanOpenTry"}
      BY <2>1, <2>2, <2>4, CallPlaces DEF UsesChannel
    <3>2. After(15) /\ After(16) /\ After(17) /\ After(18)
      BY <3>1 DEF After
    <3> QED
      BY <2>1, <3>1, <3>2, Chains DEF ChannelsCreated, newEnd, unrecorded, EndOf
  <2> QED
    BY <2>3, <2>4 DEF ConnectionCreated, ConnectionNames, ChannelCreated, ChannelNames
<1> QED
  BY <1>1, TestInvariant, PTL

\* What holds whatever users and relayers submit to IBCHandler.sol holds of the
\* test: its channels belong to the application of the port, and each transfer is
\* received and its answer heard at most once.
THEOREM TestIsSafe ==
    InputsSuffice =>
      (CoordinatorSpec =>
         [](ChannelOwnedByPortOwner /\ ReceivedOnce /\ AcknowledgedOnce))
<1> SUFFICES ASSUME InputsSuffice
             PROVE  CoordinatorSpec =>
                      [](ChannelOwnedByPortOwner /\ ReceivedOnce /\ AcknowledgedOnce)
  OBVIOUS
<1>1. CoordinatorInit => Init
  BY DEF CoordinatorInit
<1>2. TestInv /\ [CoordinatorNext]_coordinatorVars => [Next]_vars
  BY StepRefines
<1>3. CoordinatorSpec => []TestInv
  BY TestInvariant
<1>4. CoordinatorSpec => Spec
  BY <1>1, <1>2, <1>3, PTL DEF CoordinatorSpec, Spec
<1>5. Spec => [](ChannelOwnedByPortOwner /\ ReceivedOnce /\ AcknowledgedOnce)
  <2>1. /\ Spec => []ReceivedOnce
        /\ Spec => []AcknowledgedOnce
    BY TestPaired, PacketsReceivedOnce, AnswersHeardOnce
  <2> QED
    BY <2>1, ChannelOwnership, PTL
<1> QED
  BY <1>4, <1>5
=============================================================================
