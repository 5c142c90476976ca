CONSTANTS
    Readers = {r1, r2}
    Writes = {w1, w2}
    Chunks = {k1, k2}
    Requests = {{k1}, {k1, k2}}
    BucketOf <- OneBucket
    Flushed = {r1}
    MaxReads = 2
    MaxRestarts = 1
SPECIFICATION FairSpec
INVARIANT LocksTypeOK
INVARIANT ChainsSound
INVARIANT HoldsMatchReads
INVARIANT PendingCounted
INVARIANT ReadsExcludeWrites
PROPERTY AnsweredWhileUp
