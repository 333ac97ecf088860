CONSTANTS
    r1 = r1
    r2 = r2
    r3 = r3
    lost = lost
    c1 = c1
    c2 = c2
    Roots = {r1, r2, r3, lost}
    StoredRoots = {r1, r2, r3}
    Clients = {c1, c2}
    maxCached = 2
    MaxCalls = 4
SPECIFICATION Spec
INVARIANT TypeOK
INVARIANT CacheBounded
INVARIANT OlderCountedMore
INVARIANT VisitsNotInvented
SYMMETRY ClientSymmetry
