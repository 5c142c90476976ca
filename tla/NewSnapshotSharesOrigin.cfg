CONSTANTS
    Tags = {t1, t2}
    Clients = {c1}
    NoTag = NoTag
    MaxSnapshots = 2
    MaxCount = 1
    Prios = {0}
    Chunks = {k1}
    Data = {d1, d2}
    StoreChunks = {1}
    WritableTags = {t1, t2}
    Blank = Blank
    NoReq = NoReq
    MaxGranted = 1
SYMMETRY Symmetry
SPECIFICATION Spec
PROPERTY NewSnapshotSharesOrigin
