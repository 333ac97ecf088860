CONSTANTS
    Nil = Nil
    a1 = a1
    a2 = a2
    slot1 = slot1
    slot2 = slot2
    balance = balance
    scratch = scratch
    box = box
    Paths = {slot1}
    Txs = {1, 2}
    SYSTEM = 9
    BlockBound = {}
    BoundContainers = {}
    Accounts = {a1}
    AccountOf <- MCAccountOf
    StoragePaths = {slot1}
    CacheCapacity = 1
    MaxCells = 2
    MaxBatch = 1
    MaxGenerations = 2
    MaxBlocks = 1
SPECIFICATION Spec
INVARIANT StorageHoldsLatest
