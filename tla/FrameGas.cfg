SPECIFICATION Spec
CONSTANTS
    GasLimit = 1000
    OpCost = {100}
    MemoryCost = {0}
    Requested = {100, 1000000}
    PrecompileCost = {15, 600}
    Deposit = {200}
    CreateGas = 300
    HashCost = {0}
CHECK_DEADLOCK FALSE
INVARIANT TypeOK
INVARIANT GasNeverCreated
INVARIANT ParentKeepsA64th
INVARIANT DepthBoundedByGas
