CONSTANTS
    Requests = {r1}
    MaxConnects = 2
SPECIFICATION FairSpec
CHECK_DEADLOCK FALSE
INVARIANT ClientTypeOK
INVARIANT CompletedOnce
INVARIANT ReleasedOnce
INVARIANT QueuedWhileReady
PROPERTY AgentLossEnds
PROPERTY ServedWhenConnected
PROPERTY DestroyEnds
