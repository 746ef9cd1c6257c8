SPECIFICATION Spec
CONSTANTS
    Wallets = {1, 2}
    TREE_DEPTH = 2
    MAX_MONEY = 8
    Notes <- MCNotes
    Payments = {1, 2}
    MaxLeaves = 5
    MaxMutations = 2
INVARIANTS
    PathsBindLeaves
    WitnessBelongsToItsRoot
    AllCaught
    ExpectedConstraintFires
