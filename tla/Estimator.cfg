SPECIFICATION SearchSpec
CONSTANTS
    BlockGasLimit = 6
    Intrinsic = {0, 1, 3}
    Explicit = {0, 1, 2, 5, 8}
    U64Max = 7
CHECK_DEADLOCK FALSE
INVARIANT EstimateIsEnough
INVARIANT EstimateIsTight
PROPERTY SearchEnds
