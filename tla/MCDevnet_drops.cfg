SPECIFICATION Spec
CONSTANTS
    ANCHOR_WINDOW = 2
    EPOCH_LENGTH = 2
    Bodies = {}
    Genesis <- MCGenesis
    GenesisSupply = 4
    Shares <- MCShares
    MaxHeight = 3
    MaxTxs = 2
    Wallets = {1, 2}
    TREE_DEPTH = 5
    MAX_MONEY = 8
    GenesisNotes <- MCNotes
    Amounts = {1, 3}
INVARIANTS
    DropsOnlySpentNotes
