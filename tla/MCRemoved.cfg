SPECIFICATION Spec
CONSTANTS
    a = a
    lib = lib
    n = n
    Address = {a, lib, n}
    ZeroAddress = zero
    Origin = origin
    Slot = {s}
    Word = {1}
    Value = {0, 1}
    Genesis <- MCGenesis
    TxTarget = {a}
    TopBalances <- MCEmptyBalances
    NewAddresses <- MCNewAddresses
    MaxNonce = 2
    MaxDepth = 2
    MaxOps = 5
CHECK_DEADLOCK FALSE
INVARIANT RemovedStaysRemoved
