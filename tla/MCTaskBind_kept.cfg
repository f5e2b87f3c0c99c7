SPECIFICATION BindSpec
CONSTANTS
    Tasks = {t1, t2, t3}
    NoTask = NoTask
    Clients = {main}
    Workers = {w1, w2}
    NoThread = NoThread
    MaxPrio = 1
    Prios = {0, 1}
    MaxCaps = 1
    MaxBlocked = 0
    KeepBinds = TRUE
SYMMETRY Symmetry
CHECK_DEADLOCK FALSE
INVARIANTS
    BindTasksAlive
    BindExactlyOnePlace
    BindSourceIsDone
