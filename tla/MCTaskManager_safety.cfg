SPECIFICATION MCSpec
CONSTANTS
    Tasks = {t1, t2, t3}
    NoTask = NoTask
    Clients = {main}
    Workers = {w1, w2}
    NoThread = NoThread
    MaxPrio = 1
    Prios = {0, 2}
    MaxCaps = 1
    MaxBlocked = 2
    FewTasks = {t1, t2, t3}
    Programs = {"nested"}
SYMMETRY Symmetry
CHECK_DEADLOCK FALSE
INVARIANTS
    TypeOK
    QueuesConsistent
    ReferencesAlive
    ExactlyOnePlace
    WaitingTasksHaveClosure
    DependentsOfDeadAreDead
    ShutdownInterruptsRunning
    ShutdownReleasesAll
    InterruptReachesDependents
PROPERTY
    ImplementsTaskSpec
