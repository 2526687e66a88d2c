SPECIFICATION Spec
CONSTANTS
    Request = {r1, r2, r3}
    Nobody = Nobody
    NoTx = NoTx
    NoRoot = NoRoot
    Sender <- MCSender
    Tx <- MCTx
    MinTip = 0
    BlockGasLimit = 2
    Sends <- MCSends
    Miners <- MCMiners
    Readers <- MCReaders
    HangUps <- MCHangUps
    AutoMineValues = {TRUE, FALSE}
    InitNonce <- MCInitNonce
    InitBalance <- MCInitBalance
    Credits = {1}
    WordMod = 4
SYMMETRY Symmetry
INVARIANTS
    BalancesAccountedFor
    NonceCountsReceipts
    AcceptedAccountedFor
    RootIsCurrent
    BlockAnswerNotStale
    MismatchOnlyForUnseenSender
PROPERTIES
    PublishesEventStream
    HeadsInOrder
CHECK_DEADLOCK FALSE
