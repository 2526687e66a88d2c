SPECIFICATION SimSpec
CONSTANTS
    a = a
    lib = lib
    n = n
    Address = {a, lib, n}
    ZeroAddress = zero
    Origin = origin
    Slot = {s}
    Word = {0, 1}
    Value = {0, 1}
    Genesis <- MCGenesis
    TxTarget = {a}
    TopBalances <- MCTopBalances
    NewAddresses <- MCNewAddresses
    MaxNonce = 2
    MaxDepth = 3
    MaxOps = 5
    Caller = {a}
    SimTarget = {a, lib}
    SimValue = {0, 1}
    NoRoute = NoRoute
    NoResult = NoResult
CHECK_DEADLOCK FALSE
INVARIANT TypeOK
INVARIANT DelegateKeepsContext
INVARIANT ExistingCodeSurvives
INVARIANT DiffIsTheChange
PROPERTY FailedFrameLeavesNoTrace
PROPERTY StaticContextIsReadOnly
