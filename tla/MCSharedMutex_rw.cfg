SPECIFICATION FairSpec
CONSTANTS
    Threads = {p, q, r, s}
    NoThread = NoThread
    MaxReaders = 3
    MaxDepth = 2
INVARIANT StateMatchesHolders
PROPERTIES
    ImplementsRWLock
    SleepersWake
