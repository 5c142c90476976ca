CONSTANTS
    Tags = {t1, t2}
    Clients = {c1}
    NoTag = NoTag
    MaxSnapshots = 2
    MaxCount = 1
    Prios = {0}
    Chunks = {k1, k2}
    Data = {d1}
    StoreChunks = {1, 2}
    WritableTags = {t1, t2}
    Blank = Blank
    NoReq = NoReq
    MaxGranted = 1
SPECIFICATION FairSpec
INVARIANT StoreTypeOK
INVARIANT ShareExclusive
INVARIANT StoreAccounted
PROPERTY UniqueStaysUnique
PROPERTY RequestAnswered
