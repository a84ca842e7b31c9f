\* TestChannel of the end-to-end tests, twice over the same contracts.
CONSTANTS
    A = A
    B = B
    Chain = {A, B}
    Source = A
    Target = B
    Rounds = 2
    OtherModule = m2
    TimeoutOffset = 1000
    MaxDisturbances = 1
    None = None
    Remotes <- MCRemotes
    ClientType = {"ibft2"}
    Port = {"transfer"}
    Module = {m1, m2}
    Version = {"1"}
    Prefix = {"ibc"}
    DelayPeriod = {0}
    Ordering = {"UNORDERED"}
    ChannelVersion = {"ics20-1"}
    ConnectionHops <- MCHops
    Data = {d1}
    Acknowledgement = {ok}
    TimeoutHeight <- MCTimeouts
    TimeoutTimestamp = {0}
    UINT64 = 3
    BlockPeriod = 1
    MaxClients = 2
    MaxConnections = 2
    MaxChannels = 2
    MaxHeight = 34
    IdleBlocks = TRUE
    HeaderLag = 2
    InitCounterpartyChannel = {None}
    InitCounterpartyConnection = {None}
    Payload <- MCPayload
    Returned = {ok}
SPECIFICATION CoordinatorSpec
INVARIANTS RecordedEndsOpen ChannelOwnedByPortOwner NothingOutstanding
PROPERTIES TestCompletes
CHECK_DEADLOCK FALSE
