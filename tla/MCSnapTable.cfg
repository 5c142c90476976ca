CONSTANTS
    Tags = {t1, t2, t3}
    Clients = {c1, c2}
    NoTag = NoTag
    MaxSnapshots = 2
    MaxCount = 2
    Prios = {0, 127}
SYMMETRY Symmetry
SPECIFICATION TableSpec
INVARIANT TableTypeOK
INVARIANT TableConsistent
INVARIANT DiskConsistent
INVARIANT IdleBitsUncounted
INVARIANT UseCountFits
INVARIANT NoPhantomUse
INVARIANT VictimRule
PROPERTY InUseKept
