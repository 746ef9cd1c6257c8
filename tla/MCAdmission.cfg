SPECIFICATION Spec
CONSTANTS
    P = 5
    STAKE_PER_SLOT = 1
    RateHash <- MCRateHash
    BYTE_BITS = 2
    HASH_BYTES = 2
    MaxNonce = 15
    PowHash <- MCPowHash
    MessageX <- MCMessageX
    Stakers = {1, 2}
    StakeOf <- MCStakeOf
    Messages <- MCMessages
    AnchorsValid <- MCAnchors
    DifficultyBits = 2
    MaxEpoch = 1
    MaxSends = 3
INVARIANTS
    SlashNamesTheReuser
    AdmissionsWithinQuota
    FairUseAdmitted
    AcceptedIsAuthentic
    CanonicalWire
    PruningIsSafe
    PuzzleThreshold
