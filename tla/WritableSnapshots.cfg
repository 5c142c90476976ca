CONSTANTS
    Tags = {t1, t2}
    Clients = {c1}
    NoTag = NoTag
    MaxSnapshots = 2
    MaxCount = 1
    Prios = {0}
    Chunks = {k1}
    Data = {d1, d2}
    StoreChunks = {1, 2, 3}
    WritableTags = {t1, t2}
    Blank = Blank
    NoReq = NoReq
    MaxGranted = 2
SYMMETRY Symmetry
SPECIFICATION Spec
PROPERTY ImplementsVolume
