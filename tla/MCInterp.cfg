SPECIFICATION Spec
CONSTANTS
    Starts <- MCStarts
    Opaque = {0, 3}
    CAP = 4
    WordMod = 65536
    AddressMod = 32768
    LimbMod = 8192
CHECK_DEADLOCK FALSE
INVARIANT TypeOK
INVARIANT PcAtInstruction
INVARIANT GasIsAccountedFor
PROPERTY RangesInMemory
PROPERTY RunEnds
