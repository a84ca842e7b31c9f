\* Every message, with unknown fields, one damaged byte, or cut short.
CONSTANTS
    WordBits = 15
    EnumBits = 8
    Kind <- MCKind
    Numbers <- MCNumbers
    Enums <- MCEnums
    Strings <- MCStrings
    Unknown <- MCUnknown
    Damage <- MCDamage
    MaxDamaged = 24
SPECIFICATION Spec
INVARIANTS RoundTrip ContractAgrees AcceptedBytesStable
PROPERTIES IndexMovesForward
CHECK_DEADLOCK FALSE
