CONSTANTS
    Nil = Nil
    NoCell = NoCell
    Absent = Absent
    Present = Present
    account = account
    root = root
    balance = balance
    box = box
    e1 = e1
    e2 = e2
    v1 = v1
    v2 = v2
    Paths = {root, box, e1, e2}
    Parent <- MCParent
    AccountOf <- MCAccountOf
    SysPaths = {root}
    ContainerRoots = {root}
    Containers = {root, box}
    Vals = {v1}
    SubMayDelete = FALSE
    MayRevert = FALSE
    Watched = {}
SPECIFICATION Spec
INVARIANT TypeOK
INVARIANT ListedHaveValues
PROPERTY MapSpec
SYMMETRY Elements
