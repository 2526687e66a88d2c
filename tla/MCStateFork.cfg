SPECIFICATION ForkSpec
CONSTANTS
    alice = alice
    bob = bob
    carol = carol
    dave = dave
    s1 = s1
    Written = {alice, bob}
    KeyPaths <- MCKeyPaths
    SlotPath <- MCSlotPath
    Address <- MCAddress
    Slot <- MCSlot
    Word = {0, 1}
    ZeroWord = 0
    Nonce = {0, 1}
    NewNonce = {1}
    Balance = {0}
    Code = {"empty"}
    EmptyCode = "empty"
    Absent = Absent
    InitialBase <- MCBase
    MaxSnapshots = 2
INVARIANTS
    SnapshotIdsArePositions
    RootIgnoresOrder
    TrieHoldsAccounts
PROPERTIES
    RefinesWorldStack
CHECK_DEADLOCK FALSE
