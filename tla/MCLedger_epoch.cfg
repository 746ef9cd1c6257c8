SPECIFICATION RSpec
CONSTANTS
    ANCHOR_WINDOW = 2
    EPOCH_LENGTH = 2
    Bodies <- QuotaBodies
    Genesis <- MCGenesis
    GenesisSupply = 5
    Shares <- DescriptorShares
    MaxHeight = 3
    MaxTxs = 1
    e0 = 7
    e_tail = 2
    half_life = 2
    SCALE = 64
    Weights <- OneValidator
INVARIANTS
    SignedForCurrentEpochAdmitted
