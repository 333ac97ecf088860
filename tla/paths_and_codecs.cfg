CONSTANTS
    Names = {"storage", "native", "container", "nonce", "balance", "code", "0xa1", "0xA1"}
    HexOf <- MCHexOf
    MaxTokens = 6
    Values <- MCValues
SPECIFICATION Spec
INVARIANT DefaultsCreated
INVARIANT SegmentsFound
INVARIANT ParentIsLongest
INVARIANT MembershipAgrees
INVARIANT ReadWhereWritten
INVARIANT NoAlias
INVARIANT EthPathsAgree
INVARIANT RoundTrip
INVARIANT OnlyDeletionsEmpty
CHECK_DEADLOCK FALSE
