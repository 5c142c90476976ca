CONSTANTS
    Chunks = {0, 1, 2, 3, 4, 5}
    Bit = {0, 1}
    LeafSize = 9
    Sectors = {1, 2, 3, 4, 5, 6, 7, 8, 9, 10, 11, 12, 13, 14, 15, 16, 17, 18}
    StoreChunks = {1, 2, 3, 4, 5, 6, 7, 8, 9, 10, 11, 12}
    Pool <- PoolOfEach
    AllocPerNode = 2
    MaxLevels = 3
SPECIFICATION Spec
INVARIANT LookupFinds
CONSTRAINT OneExceptionEach
