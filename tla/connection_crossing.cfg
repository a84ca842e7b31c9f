\* Two connections per chain: several Trys for one Init, crossing hellos, stale proofs.
CONSTANTS
    A = A
    B = B
    None = None
    Chain = {A, B}
    Remotes <- MCRemotes
    ClientType = {"ibft2"}
    Port = {"transfer"}
    Module = {}
    Version = {"1"}
    Prefix = {"ibc"}
    DelayPeriod = {0}
    Ordering = {}
    ChannelVersion = {}
    ConnectionHops = {}
    Data = {}
    Acknowledgement = {}
    TimeoutHeight = {0}
    TimeoutTimestamp = {0}
    UINT64 = 2
    BlockPeriod = 1
    MaxClients = 1
    MaxConnections = 2
    MaxChannels = 0
    MaxHeight = 5
    IdleBlocks = FALSE
    HeaderLag = 1
    InitCounterpartyChannel = {None}
    InitCounterpartyConnection = {None}
    Payload <- MCNoPayload
    Returned = {}
SPECIFICATION Spec
INVARIANTS ConnectionsAgree TryOpenAnswersInit
PROPERTIES ConnectionMovesForward ImplementsHandshake
SYMMETRY MCSymmetry
CHECK_DEADLOCK FALSE
