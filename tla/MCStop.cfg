SPECIFICATION Spec
CONSTANTS
    Starts <- MCExample
    Opaque = {0, 3}
    CAP = 4
    WordMod = 65536
    AddressMod = 32768
    LimbMod = 8192
CHECK_DEADLOCK FALSE
PROPERTY NothingRunsAfterStop
