----------------------------- MODULE ICS20Bank ------------------------------
(***************************************************************************)
(* contracts/app/ICS20Bank.sol on every chain: balances per denomination   *)
(* and account, and the deposit and withdrawal of ERC20 tokens.            *)
(*                                                                         *)
(* A denomination is a token with the trace of the channels its vouchers   *)
(* came through: "port/channel-1/port/channel-0/0x..." is                  *)
(* [trace |-> <<1, 0>>, token |-> ...].  An application has one port.      *)
(***************************************************************************)
EXTENDS Integers, Sequences, FiniteSets, Functions

CONSTANTS
    Chain,          \* the chains
    User,           \* accounts of users, the same addresses on each chain
    Escrow,         \* the account of the ICS20TransferBank contract
    Bank,           \* the account of the ICS20Bank contract
    Zero,           \* the zero address
    Token,          \* addresses of token contracts, also the same
    Minted,         \* Minted[c]: ERC20 tokens a user of c starts with
    ChannelId,      \* numbers of channels
    MaxTrace,       \* bound on the channels a voucher comes through
    UINT256         \* uint256 arithmetic is modulo UINT256

Account == User \cup {Escrow, Bank, Zero}
Denom == [trace : UNION {[1..k -> ChannelId] : k \in 0..MaxTrace}, token : Token]
native(token) == [trace |-> <<>>, token |-> token]

\* The contracts are not users.
ASSUME AccountAssumption ==
    /\ IsFiniteSet(User)
    /\ Escrow \notin User /\ Bank \notin User

ASSUME BoundAssumption == MaxTrace \in Nat /\ UINT256 \in Nat

\* No token has more units than a uint256 counts.
ASSUME SupplyAssumption ==
    /\ Minted \in [Chain -> Nat]
    /\ \A c \in Chain : Minted[c] * Cardinality(User) < UINT256

VARIABLES
    balances,       \* balances[c][denom][account]
    wallets         \* wallets[c][token][account]: ERC20 balances

bankVars == <<balances, wallets>>

\* The bank reverts, or the new balances of the chain are these.
Reverts == [reverted |-> TRUE]
Balances(b) == [reverted |-> FALSE, balances |-> b]

\* Faulty variant: both balances are read before either is written.
transferFromRead(b, from, to, denom, amount) ==
    IF to = Zero \/ b[denom][from] < amount THEN Reverts
    ELSE Balances([b EXCEPT ![denom][from] = @ - amount,
                            ![denom][to] = (b[denom][to] + amount) % UINT256])

\* The requires of transferFrom but the one on the caller, who is the owner
\* of the tokens or the operator.
transferFrom(b, from, to, denom, amount) ==
    IF to = Zero \/ b[denom][from] < amount THEN Reverts
    ELSE LET taken == [b EXCEPT ![denom][from] = @ - amount]
         IN  Balances([taken EXCEPT ![denom][to] = (@ + amount) % UINT256])

mint(b, account, denom, amount) ==
    Balances([b EXCEPT ![denom][account] = (@ + amount) % UINT256])

burn(b, account, denom, amount) ==
    IF b[denom][account] < amount THEN Reverts
    ELSE Balances([b EXCEPT ![denom][account] = @ - amount])

\* A token contract moves tokens it has been found to have.
transfer(w, from, to, token, amount) ==
    LET taken == [w EXCEPT ![token][from] = @ - amount]
    IN  [taken EXCEPT ![token][to] = @ + amount]

-----------------------------------------------------------------------------
\* A user moves tokens of its own in the bank.
TransferFrom(c, user, to, denom, amount) ==
    LET result == transferFrom(balances[c], user, to, denom, amount) IN
    /\ ~ result.reverted
    /\ balances' = [balances EXCEPT ![c] = result.balances]
    /\ UNCHANGED wallets

\* The user has approved the amount.
Deposit(c, user, token, amount, receiver) ==
    /\ wallets[c][token][user] >= amount
    /\ wallets' = [wallets EXCEPT ![c] = transfer(@, user, Bank, token, amount)]
    /\ balances' = [balances EXCEPT ![c] =
                      mint(@, receiver, native(token), amount).balances]

\* An ERC20 token refuses transfers to the zero address.
Withdraw(c, user, token, amount, receiver) ==
    LET result == burn(balances[c], user, native(token), amount) IN
    /\ ~ result.reverted
    /\ receiver # Zero
    /\ wallets[c][token][Bank] >= amount
    /\ balances' = [balances EXCEPT ![c] = result.balances]
    /\ wallets' = [wallets EXCEPT ![c] = transfer(@, Bank, receiver, token, amount)]

BankInit ==
    /\ balances = [c \in Chain |-> [denom \in Denom |-> [a \in Account |-> 0]]]
    /\ wallets = [c \in Chain |-> [token \in Token |->
                    [a \in Account |-> IF a \in User THEN Minted[c] ELSE 0]]]

Supply(c, denom) == SumFunction(balances[c][denom])

\* What the bank owes can be withdrawn from it: for every unit of a token in
\* an account, escrowed ones included, the bank holds one of the token.
NativeBacked ==
    \A c \in Chain, token \in Token :
      Supply(c, native(token)) <= wallets[c][token][Bank]
=============================================================================
