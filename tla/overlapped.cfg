CONSTANTS
    Nil = Nil
    a1 = a1
    a2 = a2
    slot1 = slot1
    slot2 = slot2
    balance = balance
    scratch = scratch
    box = box
    Paths = {slot1, scratch}
    Txs = {1, 2}
    SYSTEM = 9
    BlockBound = {scratch}
    BoundContainers = {}
    Accounts = {a1}
    AccountOf <- MCAccountOf
    StoragePaths = {slot1, scratch}
    CacheCapacity = 2
    MaxCells = 2
    MaxBatch = 1
    MaxGenerations = 2
    MaxBlocks = 1
SPECIFICATION OverlappedSpec
INVARIANT TypeOK
INVARIANT OverlayLatest
