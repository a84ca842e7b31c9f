\* Sets of one to six validators that grow and shrink; relayed and arbitrary headers.
CONSTANTS
    a = a
    b = b
    c = c
    d = d
    e = e
    g = g
    None = None
    Outsider = Outsider
    Chains <- MCChains
    OtherLists <- MCLists
    MaxSeals = 4
    UINT8 = 256
SPECIFICATION Spec
INVARIANTS SafeAboveThird NextBlockVerifiable LatestIsHighest
PROPERTIES RelayedWhole
CHECK_DEADLOCK FALSE
