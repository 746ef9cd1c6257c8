SPECIFICATION Spec
CONSTANTS
    ANCHOR_WINDOW = 2
    EPOCH_LENGTH = 2
    Bodies <- TwinBodies
    Genesis <- MCGenesis
    GenesisSupply = 5
    Shares <- OneUnitEach
    MaxHeight = 3
    MaxTxs = 2
    Replicas = {1, 2}
    Rank <- RankOf
INVARIANTS
    SubmissionOrderIrrelevant
