\* Four validators, one of them faulty: f(4) = 1, and the threshold is 4 / 3 = 1.
CONSTANTS
    a = a
    b = b
    c = c
    d = d
    e = e
    g = g
    None = None
    Outsider = Outsider
    Chains <- MCFour
    OtherLists <- MCLists
    MaxSeals = 4
    UINT8 = 256
SPECIFICATION Spec
INVARIANTS OnlyChainBlocks
CHECK_DEADLOCK FALSE
