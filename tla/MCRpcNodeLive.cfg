SPECIFICATION FairSpec
CONSTANTS
    Request = {"r1", "r2", "r3"}
    Nobody = Nobody
    NoTx = NoTx
    NoRoot = NoRoot
    Sender <- MCSender
    Tx <- MCTx
    MinTip = 0
    BlockGasLimit = 3
    Sends <- MCOnePerRequest
    Miners = {}
    Readers = {}
    HangUps = {}
    AutoMineValues = {}
    InitNonce <- MCInitNonce
    InitBalance <- MCAmpleBalance
    Credits = {}
    WordMod = 4
PROPERTIES
    MiningFinishes
    ReadyIsMined
CHECK_DEADLOCK FALSE
