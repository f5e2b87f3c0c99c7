SPECIFICATION MCFairSpec
CONSTANTS
    Tasks = {t1, t2, t3}
    NoTask = NoTask
    Clients = {main, c2}
    Workers = {w1, w2}
    NoThread = NoThread
    MaxPrio = 1
    Prios = {0}
    MaxCaps = 1
    MaxBlocked = 1
    FewTasks = {t1, t2}
    Programs = {"nested", "flat"}
CHECK_DEADLOCK FALSE
PROPERTIES
    EveryGetReturns
    EveryTaskFinishes
    ShutdownTerminates
