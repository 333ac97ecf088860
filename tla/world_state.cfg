CONSTANTS
    Nil = Nil
    Unset = Unset
    NoSnapshot = NoSnapshot
    a1 = a1
    a2 = a2
    c0 = c0
    c1 = c1
    Addresses = {a1, a2}
    Slots <- MCSlots
    Writes <- MCWrites
    Keys <- MCKeys
    Digits = {0, 1}
    HashLen = 2
    Vals = {0, 1}
    Zero = 0
    Codes = {c0, c1}
    EmptyCode = c0
    MaxBatch = 1
    MaxPrecommits = 3
    MaxOpens = 2
SYMMETRY MCSymmetry
SPECIFICATION Spec
CHECK_DEADLOCK FALSE
INVARIANT TypeOK
INVARIANT ReadsAsWritten
INVARIANT RootsReadBack
INVARIANT HasAgreesWithGet
INVARIANT ProofsVerify
INVARIANT OnlyTrueClaimsVerify
