\* Two channels per chain of two versions over a connection half opened: several Trys
\* for one Init, crossing hellos, stale proofs.
CONSTANTS
    A = A
    B = B
    None = None
    Chain = {A, B}
    Remotes <- MCRemotes
    ClientType = {"ibft2"}
    Port = {"transfer"}
    Module = {m1}
    Version = {"1"}
    Prefix = {"ibc"}
    DelayPeriod = {0}
    Ordering = {"UNORDERED"}
    ChannelVersion = {v1, v2}
    ConnectionHops <- MCHops
    Data = {}
    Acknowledgement = {}
    TimeoutHeight = {0}
    TimeoutTimestamp = {0}
    UINT64 = 2
    BlockPeriod = 1
    MaxClients = 1
    MaxConnections = 1
    MaxChannels = 2
    MaxHeight = 4
    IdleBlocks = FALSE
    HeaderLag = 0
    InitCounterpartyChannel = {None}
    InitCounterpartyConnection = {None}
    Payload <- MCNoPayload
    Returned = {}
SPECIFICATION SpecHalfConnected
SYMMETRY MCVersionSymmetry
INVARIANTS ChannelsAgree TryOpenChannelAnswersInit OpenChannelHasOpenConnection
PROPERTIES ChannelMovesForward ImplementsChannelHandshake
CHECK_DEADLOCK FALSE
