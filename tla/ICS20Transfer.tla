---------------------------- MODULE ICS20Transfer ----------------------------
(***************************************************************************)
(* contracts/app/ICS20Transfer.sol and ICS20TransferBank.sol: transfers of *)
(* tokens over the channels of PacketDelivery, which IBCHandler implements.*)
(* A token that leaves its chain is escrowed and a voucher of it minted on *)
(* the other; a voucher that goes back is burned and its token released.   *)
(* All channels escrow in one account.  Both ends of every channel are this*)
(* application; a channel may be ordered.                                  *)
(*                                                                         *)
(* The callbacks onRecvPacket and onAcknowledgementPacket are external and *)
(* do not look at who calls them.  OnRecvPacket and OnAcknowledgementPacket*)
(* are their calls by the handler, for a packet it has found sent or       *)
(* answered; OutsideCall is a call by any other account, with a packet of  *)
(* its own choice.                                                         *)
(***************************************************************************)
EXTENDS ICS20Bank, PacketDelivery

CONSTANTS
    Amount,         \* amounts of a step
    Receiver,       \* accounts that users send tokens to
    TimeoutHeight,  \* TimeoutHeight[e]: heights that a transfer over e may time
                    \* out at, 0 for never
    OutsideData,    \* OutsideData[e]: data of packets over e in calls that do
                    \* not come from the handler
    Orderings,      \* what ordered may be
    MaxSends,       \* bound on the transfers over one channel end
    MaxHeight,      \* MaxHeight[c]: bound on the blocks of c
    MaxOutside      \* bound on the calls that do not come from the handler

Success == "0x01"
Failure == "0x00"

\* The ends of PacketDelivery are those of the channels of all chains.
ASSUME TransferAssumption ==
    /\ IsFiniteSet(ChannelId)
    /\ Endpoint = Chain \X ChannelId
    /\ MaxSends \in Nat /\ Number = 1..MaxSends
    /\ Answer = {Success, Failure}
    /\ Amount \subseteq Nat /\ Receiver \subseteq Account
    /\ TimeoutHeight \in [Endpoint -> SUBSET Nat]
    /\ OutsideData \in [Endpoint -> SUBSET [denom : Denom, amount : Nat,
                                           sender : Account, receiver : Account]]
    /\ \A order \in Orderings, e \in Endpoint : order[e] = order[Peer[e]]

VARIABLES
    height,         \* height[c]: block.number of chain c
    gifts,          \* gifts[c][denom]: what users gave to the escrow account
                    \* without a transfer over a channel; not in the code
    outside         \* how often a callback was called by another account than
                    \* the handler; not in the code
vars == <<bankVars, deliveryVars, height, gifts, outside>>

chainOf(e) == e[1]
channelOf(e) == e[2]

startsWith(denom, channel) == denom.trace # <<>> /\ denom.trace[1] = channel
prefixed(channel, denom) == [denom EXCEPT !.trace = <<channel>> \o @]
beyond(denom) == [denom EXCEPT !.trace = Tail(@)]

give(c, account, denom, amount) ==
    gifts' = IF account = Escrow THEN [gifts EXCEPT ![c][denom] = @ + amount]
                                 ELSE gifts

-----------------------------------------------------------------------------
\* sendPacket requires a timeout above the height that its client knows of the
\* other chain; a client may be any number of blocks behind, down to height 0,
\* so that this refuses none.
SendTransfer(c, user, denom, amount, receiver, channel, timeout) ==
    LET result == IF startsWith(denom, channel)
                  THEN burn(balances[c], user, denom, amount)
                  ELSE transferFrom(balances[c], user, Escrow, denom, amount)
    IN  /\ Len(sent[<<c, channel>>]) < MaxSends
        /\ startsWith(denom, channel) \/ Len(denom.trace) < MaxTrace
        /\ ~ result.reverted
        /\ balances' = [balances EXCEPT ![c] = result.balances]
        /\ Send(<<c, channel>>, [denom |-> denom, amount |-> amount,
                                 sender |-> user, receiver |-> receiver,
                                 timeout |-> timeout])
        /\ UNCHANGED <<wallets, height, gifts, outside>>

\* What onRecvPacket does with a packet from the channel source that names e
\* as its destination: the denomination the tokens are received as, and whether
\* they could be moved.
receivedAs(e, source, data) ==
    IF startsWith(data.denom, source) THEN beyond(data.denom)
    ELSE prefixed(channelOf(e), data.denom)

movedFor(e, source, data) ==
    LET denom == receivedAs(e, source, data) IN
    IF startsWith(data.denom, source)
    THEN transferFrom(balances[chainOf(e)], Escrow, data.receiver, denom, data.amount)
    ELSE mint(balances[chainOf(e)], data.receiver, denom, data.amount)

\* Faulty variant: whatever happened is reported as success.
answerSuccess(result) == Success

\* A revert of the bank is caught and becomes a failure acknowledgement.
answerTo(result) == IF result.reverted THEN Failure ELSE Success

\* recvPacket of the handler does not accept a packet that has timed out.
TimedOut(e, data) == data.timeout # 0 /\ height[chainOf(e)] >= data.timeout

OnRecvPacket(e, n) ==
    /\ n \in DOMAIN sent[Peer[e]]
    /\ LET data == sent[Peer[e]][n]
           source == channelOf(Peer[e])
           result == movedFor(e, source, data)
       IN  /\ ~ TimedOut(e, data)
           /\ Deliver(e, n, answerTo(result))
           /\ IF result.reverted THEN UNCHANGED <<balances, gifts>>
              ELSE /\ balances' = [balances EXCEPT ![chainOf(e)] = result.balances]
                   /\ give(chainOf(e), data.receiver, receivedAs(e, source, data),
                           data.amount)
    /\ UNCHANGED <<wallets, height, outside>>

\* Faulty variant: vouchers are looked for in the escrow account, too.
refundFromEscrow(e, data) ==
    transferFrom(balances[chainOf(e)], Escrow, data.sender, data.denom, data.amount)

refundTokens(e, data) ==
    IF startsWith(data.denom, channelOf(e))
    THEN mint(balances[chainOf(e)], data.sender, data.denom, data.amount)
    ELSE transferFrom(balances[chainOf(e)], Escrow, data.sender, data.denom, data.amount)

isFailure(acknowledgement) == acknowledgement # Success

\* acknowledgePacket of the handler accepts nothing over an ordered channel.
OnAcknowledgementPacket(e, n) ==
    /\ ~ ordered[e]
    /\ Acknowledge(e, n)
    /\ IF isFailure(answers[Peer[e]][n])
       THEN LET result == refundTokens(e, sent[e][n]) IN
            /\ ~ result.reverted
            /\ balances' = [balances EXCEPT ![chainOf(e)] = result.balances]
       ELSE UNCHANGED balances
    /\ UNCHANGED <<wallets, height, gifts, outside>>

\* A callback called by another account than the handler: it does with the
\* balances what it does for the handler, and the handler knows nothing of it.
OutsideCall(e, result) ==
    /\ outside < MaxOutside
    /\ outside' = outside + 1
    /\ ~ result.reverted
    /\ balances' = [balances EXCEPT ![chainOf(e)] = result.balances]
    /\ UNCHANGED <<wallets, deliveryVars, height, gifts>>

NewBlock(c) ==
    /\ height[c] < MaxHeight[c]
    /\ height' = [height EXCEPT ![c] = @ + 1]
    /\ UNCHANGED <<bankVars, deliveryVars, gifts, outside>>

-----------------------------------------------------------------------------
\* onChanOpenInit and onChanOpenTry accept either order; both ends of a channel
\* have the same.
Init == /\ BankInit
        /\ DeliveryInit
        /\ ordered \in Orderings
        /\ height = [c \in Chain |-> 0]
        /\ gifts = [c \in Chain |-> [denom \in Denom |-> 0]]
        /\ outside = 0

UserNext(c, user) ==
    \E amount \in Amount, receiver \in Receiver :
      \/ \E token \in Token :
           \/ /\ Deposit(c, user, token, amount, receiver)
              /\ give(c, receiver, native(token), amount)
              /\ UNCHANGED <<deliveryVars, height, outside>>
           \/ /\ Withdraw(c, user, token, amount, receiver)
              /\ UNCHANGED <<deliveryVars, height, gifts, outside>>
      \/ \E denom \in Denom :
           \/ /\ TransferFrom(c, user, receiver, denom, amount)
              /\ give(c, receiver, denom, amount)
              /\ UNCHANGED <<deliveryVars, height, outside>>
           \/ \E channel \in ChannelId : \E timeout \in TimeoutHeight[<<c, channel>>] :
                SendTransfer(c, user, denom, amount, receiver, channel, timeout)

PacketNext ==
    \E e \in Endpoint, n \in 1..MaxSends :
      \/ OnRecvPacket(e, n)
      \/ OnAcknowledgementPacket(e, n)

OutsideNext ==
    \E e \in Endpoint : \E data \in OutsideData[e] :
      \/ \E source \in ChannelId :
           /\ receivedAs(e, source, data) \in Denom
           /\ OutsideCall(e, movedFor(e, source, data))
      \/ OutsideCall(e, refundTokens(e, data))

Next == \/ \E c \in Chain, user \in User : UserNext(c, user)
        \/ PacketNext
        \/ OutsideNext
        \/ \E c \in Chain : NewBlock(c)

\* The relayer delivers every packet and every acknowledgement that would be
\* accepted for good.
Fairness == \A e \in Endpoint, n \in 1..MaxSends :
              /\ WF_vars(OnRecvPacket(e, n))
              /\ WF_vars(OnAcknowledgementPacket(e, n))

Spec == Init /\ [][Next]_vars /\ Fairness

-----------------------------------------------------------------------------
(* Properties                                                              *)

\* A packet that was neither received, nor failed and refunded.
InFlight(e, n) ==
    \/ ~ Delivered(Peer[e], n)
    \/ answers[Peer[e]][n] = Failure /\ ~ Acked(e, n)

AmountOf(e, n, denom) ==
    IF n \in DOMAIN sent[e] /\ sent[e][n].denom = denom /\ InFlight(e, n)
    THEN sent[e][n].amount
    ELSE 0

AmountInFlight(e, denom) == SumFunction([n \in Number |-> AmountOf(e, n, denom)])

\* What is abroad of a denomination that left over e: the vouchers of it, and
\* what is on the way there and back.
Abroad(e, denom) ==
    LET voucher == prefixed(channelOf(Peer[e]), denom) IN
    AmountInFlight(e, denom)
      + (IF voucher \in Denom
         THEN AmountInFlight(Peer[e], voucher) + Supply(chainOf(Peer[e]), voucher)
         ELSE 0)

\* The escrow account, shared by all channels, holds of each denomination what
\* is abroad of it over the channels, next to what users gave to it.
EscrowIsAbroad ==
    \A c \in Chain, denom \in Denom :
      balances[c][denom][Escrow] = gifts[c][denom] +
        SumFunction([channel \in {ch \in ChannelId : ~ startsWith(denom, ch)} |->
                       Abroad(<<c, channel>>, denom)])

\* Transfers neither create nor lose tokens, so that every voucher can go back
\* and every failed transfer be refunded, PROVIDED that nobody but the handler
\* has called the callbacks.  That is an assumption on the accounts of the
\* chain: onRecvPacket and onAcknowledgementPacket (ICS20Transfer.sol:57, :75)
\* accept any caller, and one call with a packet that was not sent breaks the
\* equation.  What timed out, or failed over an ordered channel, is in flight
\* for good.
EscrowAccountsForVouchers == outside = 0 => EscrowIsAbroad

ExpiredOnTheWay(e, n) ==
    n \in DOMAIN sent[e] /\ ~ Delivered(Peer[e], n) /\ TimedOut(Peer[e], sent[e][n])

\* A transfer over an unordered channel comes to an end that its sender hears
\* of, whoever it is sent to: it arrives or is refunded.  Unless it times out
\* before it is received, when its tokens stay in escrow for good.  Over an
\* ordered channel nobody hears anything.  The end comes also when calls from
\* outside have left the escrow account short: what then cannot be released was
\* burned by its sender, whose refund is minted and needs no escrow.
TransfersSettle ==
    \A e \in Endpoint, n \in 1..MaxSends :
      n \in DOMAIN sent[e] /\ ~ ordered[e]
        ~> Acked(e, n) \/ ExpiredOnTheWay(e, n)
=============================================================================
