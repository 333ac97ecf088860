CONSTANTS
    Nil = Nil
    a1 = a1
    a2 = a2
    slot1 = slot1
    slot2 = slot2
    balance = balance
    scratch = scratch
    box = box
    Paths = {slot1, balance}
    Txs = {1, 2}
    SYSTEM = 9
    BlockBound = {}
    BoundContainers = {}
    Accounts = {a1}
    AccountOf <- MCAccountOf
    StoragePaths = {slot1}
    CacheCapacity = 1
    MaxCells = 3
    MaxBatch = 1
    MaxGenerations = 2
    MaxBlocks = 2
SPECIFICATION Spec
INVARIANT RejectedNeverVisible
INVARIANT ReadsLatest
INVARIANT StorageLatest
INVARIANT EthLatest
INVARIANT OneCellPerPath
INVARIANT SameWritesFiled
PROPERTY FiledCellsFrozen
