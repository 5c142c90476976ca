CONSTANTS
    Chunks = {0, 1, 2, 3}
    Bit = {0, 1}
    LeafSize = 9
    Sectors = {1, 2, 3, 4, 5, 6, 7, 8, 9, 10, 11, 12}
    StoreChunks = {1, 2, 3, 4, 5, 6, 7, 8}
    Pool <- PoolOfEach
    AllocPerNode = 2
    MaxLevels = 2
SPECIFICATION Spec
INVARIANT RestartFinds
