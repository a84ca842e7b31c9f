----------------------------- MODULE MCTransfer -----------------------------
(***************************************************************************)
(* Two chains with two channels, whose identifiers are crossed: channel 0  *)
(* of A is channel 1 of B.  The token contracts have the same addresses on *)
(* both chains.                                                            *)
(***************************************************************************)
EXTENDS ICS20Transfer

CONSTANTS A, B

MCEndpoint == Chain \X ChannelId
MCPeer == [e \in MCEndpoint |-> <<IF e[1] = A THEN B ELSE A, 1 - e[2]>>]
MCMessage == [denom : Denom, amount : Amount, sender : User, receiver : Account,
              timeout : {0, 1}]
MCNumber == 1..MaxSends
MCAnswer == {Success, Failure}
MCMinted == [c \in Chain |-> IF c = A THEN 2 ELSE 0]

\* Channel 0 of A is ordered, channel 1 is not.
MCOrderings == {[e \in MCEndpoint |-> e \in {<<A, 0>>, <<B, 1>>}]}

\* What A sends over its channel 1 may time out on B.
MCTimeoutHeight == [e \in MCEndpoint |-> IF e = <<A, 1>> THEN {0, 1} ELSE {0}]
MCMaxHeight == [c \in Chain |-> IF c = B THEN 1 ELSE 0]

\* A packet with a token of A, over that channel of A.
MCOutsideData == [e \in MCEndpoint |->
    IF e = <<A, 1>>
    THEN {[denom |-> native(token), amount |-> 1, sender |-> user, receiver |-> user] :
            token \in Token, user \in User}
    ELSE {}]
=============================================================================
