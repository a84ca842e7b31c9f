\* Ordered channel: the acknowledgement never arrives.
CONSTANTS
    A = A
    B = B
    None = None
    Chain = {A, B}
    Remotes <- MCRemotes
    ClientType = {"ibft2"}
    Port = {"transfer"}
    Module = {m1}
    Version = {"1"}
    Prefix = {"ibc"}
    DelayPeriod = {0}
    Ordering = {"ORDERED"}
    ChannelVersion = {"ics20-1"}
    ConnectionHops <- MCHops
    Data = {d1}
    Acknowledgement = {ok}
    TimeoutHeight = {0}
    TimeoutTimestamp = {0}
    UINT64 = 2
    BlockPeriod = 1
    MaxClients = 1
    MaxConnections = 1
    MaxChannels = 1
    MaxHeight = 8
    IdleBlocks = FALSE
    HeaderLag = 0
    InitCounterpartyChannel = {None}
    InitCounterpartyConnection = {None}
    Payload <- MCPayloadA
    Returned = {ok, None}
SPECIFICATION FairSpecOpen
PROPERTIES EveryPacketAcknowledged
CHECK_DEADLOCK FALSE
