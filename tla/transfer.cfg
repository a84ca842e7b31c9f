\* Two units of a token, over an ordered and an unordered channel between two
\* chains, and one call of a callback that does not come from the handler.
CONSTANTS
    A = A
    B = B
    Chain = {A, B}
    User = {alice}
    Escrow = escrow
    Bank = bank
    Zero = zero
    Token = {token}
    Minted <- MCMinted
    ChannelId = {0, 1}
    MaxTrace = 2
    UINT256 = 3
    Endpoint <- MCEndpoint
    Peer <- MCPeer
    Message <- MCMessage
    Number <- MCNumber
    Answer <- MCAnswer
    None = None
    Amount = {1}
    Receiver = {alice, escrow, zero}
    TimeoutHeight <- MCTimeoutHeight
    OutsideData <- MCOutsideData
    MaxSends = 1
    MaxHeight <- MCMaxHeight
    Orderings <- MCOrderings
    MaxOutside = 1
SPECIFICATION Spec
INVARIANTS NativeBacked EscrowAccountsForVouchers
PROPERTIES TransfersSettle
CHECK_DEADLOCK FALSE
