SPECIFICATION RSpec
CONSTANTS
    ANCHOR_WINDOW = 2
    EPOCH_LENGTH = 2
    Bodies <- LedgerBodies
    Genesis <- MCGenesis
    GenesisSupply = 5
    Shares <- DescriptorShares
    MaxHeight = 3
    MaxTxs = 2
    e0 = 7
    e_tail = 2
    half_life = 2
    SCALE = 64
    Weights <- TwoValidators
INVARIANTS
    TypeOK
    NoDoubleSpend
    SpentExactly
    AnchorWindowExact
    RootsArePrefixes
    AcceptedOnSealedAnchor
    PositionsLocateOutputs
    SupplyAudits
    SupplyBackedByLeaves
    OneTxPerSlot
PROPERTIES
    AnchorsMoveOnlyAtSeal
    AppendOnly
    RebroadcastNeverReachesQuota
    KeepsContract
