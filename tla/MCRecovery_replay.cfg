SPECIFICATION Spec
CONSTANTS
    ANCHOR_WINDOW = 1
    EPOCH_LENGTH = 2
    Bodies <- RestartBodies
    Genesis <- MCGenesis
    GenesisSupply = 5
    Shares <- OneUnitEach
    MaxHeight = 3
    MaxTxs = 1
    MaxCrashes = 1
INVARIANTS
    ReplayYieldsSameRoot
