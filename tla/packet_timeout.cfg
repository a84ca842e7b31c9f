\* Packets with timeouts while the chains seal idle blocks.
CONSTANTS
    A = A
    B = B
    None = None
    Chain = {A, B}
    Remotes <- MCRemotes
    ClientType = {"ibft2"}
    Port = {"transfer"}
    Module = {m1}
    Version = {"1"}
    Prefix = {"ibc"}
    DelayPeriod = {0}
    Ordering = {"UNORDERED", "ORDERED"}
    ChannelVersion = {"ics20-1"}
    ConnectionHops <- MCHops
    Data = {d1}
    Acknowledgement = {ok}
    TimeoutHeight = {0, 4}
    TimeoutTimestamp = {0, 9}
    UINT64 = 2
    BlockPeriod = 2
    MaxClients = 1
    MaxConnections = 1
    MaxChannels = 1
    MaxHeight = 6
    IdleBlocks = TRUE
    HeaderLag = 0
    InitCounterpartyChannel = {None}
    InitCounterpartyConnection = {None}
    Payload <- MCPayloadA
    Returned = {ok}
SPECIFICATION SpecOpen
PROPERTIES TimeoutFinal
CHECK_DEADLOCK FALSE
