CONSTANTS
    Requests = {r1}
    MaxConnects = 2
SPECIFICATION FairSpec
CHECK_DEADLOCK FALSE
PROPERTY RequestsServed
