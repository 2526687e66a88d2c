SPECIFICATION WordSpec
CONSTANTS
    ByteBits = 2
    Bytes = 2
    LimbMod = 8
CHECK_DEADLOCK FALSE
INVARIANT ModularExact
INVARIANT ExpExact
INVARIANT DivisionExact
INVARIANT ShiftsExact
