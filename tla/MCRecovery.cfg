SPECIFICATION Spec
CONSTANTS
    ANCHOR_WINDOW = 2
    EPOCH_LENGTH = 2
    Bodies <- RestartBodies
    Genesis <- MCGenesis
    GenesisSupply = 5
    Shares <- OneUnitEach
    MaxHeight = 3
    MaxTxs = 1
    MaxCrashes = 2
INVARIANTS
    NoDoubleSpendAcrossRestart
    SupplySurvivesRestart
    RestartTransparent
    StoreIsOneSnapshot
    RestartHeals
