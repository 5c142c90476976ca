CONSTANTS
    Blocks = {b1, b2, b3}
    Unused = Unused
    JournalSize = 5
    MaxTransaction = 3
    MaxTransactions = 4
    MaxCrashes = 2
SPECIFICATION Spec
INVARIANT JournalTypeOK
INVARIANT OneNewest
INVARIANT Recoverable
