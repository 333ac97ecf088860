CONSTANTS
    Nil = Nil
    a1 = a1
    a2 = a2
    slot1 = slot1
    slot2 = slot2
    balance = balance
    scratch = scratch
    box = box
    Paths = {slot1, scratch, box}
    Txs = {1, 2}
    SYSTEM = 9
    BlockBound = {scratch}
    BoundContainers = {box}
    Accounts = {a1, a2}
    AccountOf <- MCAccountOf
    StoragePaths = {slot1, scratch, box}
    CacheCapacity = 1
    MaxCells = 2
    MaxBatch = 2
    MaxGenerations = 1
    MaxBlocks = 2
SPECIFICATION FairSpec
INVARIANT StorageHoldsLatest
INVARIANT ReadsLatest
INVARIANT EthRootsResolvable
PROPERTY EventuallyStored
