\* Packets both ways on two channels over one connection, each ordered or unordered.
CONSTANTS
    A = A
    B = B
    None = None
    Chain = {A, B}
    Remotes <- MCRemotes
    ClientType = {"ibft2"}
    Port = {"transfer"}
    Module = {m1}
    Version = {"1"}
    Prefix = {"ibc"}
    DelayPeriod = {0}
    Ordering = {"UNORDERED", "ORDERED"}
    ChannelVersion = {"ics20-1"}
    ConnectionHops <- MCHops
    Data = {d1}
    Acknowledgement = {ok}
    TimeoutHeight = {0}
    TimeoutTimestamp = {0}
    UINT64 = 2
    BlockPeriod = 1
    MaxClients = 1
    MaxConnections = 1
    MaxChannels = 2
    MaxHeight = 4
    IdleBlocks = FALSE
    HeaderLag = 0
    InitCounterpartyChannel = {None}
    InitCounterpartyConnection = {None}
    Payload <- MCPayloadAll
    Returned = {ok}
SPECIFICATION SpecOpen
INVARIANTS ReceivedOnce
PROPERTIES ImplementsDelivery
SYMMETRY MCSymmetry
CHECK_DEADLOCK FALSE
