CONSTANTS
    Nil = Nil
    a1 = a1
    slot1 = slot1
    balance = balance
    Paths = {slot1}
    Txs = {1}
    SYSTEM = 9
    BlockBound = {}
    BoundContainers = {}
    Accounts = {a1}
    AccountOf <- MCAccountOf
    StoragePaths = {slot1}
    CacheCapacity = 1
    MaxCells = 1
    MaxBatch = 1
    MaxGenerations = 2
    MaxBlocks = 1
    MaxRestarts = 1
    MaxFailures = 1
SPECIFICATION FaultSpec
PROPERTY EthPersistent
