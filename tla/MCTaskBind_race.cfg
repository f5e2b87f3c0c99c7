SPECIFICATION BindSpec
CONSTANTS
    Tasks = {t1, t2, t3}
    NoTask = NoTask
    Clients = {main}
    Workers = {w1, w2}
    NoThread = NoThread
    MaxPrio = 0
    Prios = {0}
    MaxCaps = 1
    MaxBlocked = 0
    KeepBinds = TRUE
SYMMETRY Symmetry
CHECK_DEADLOCK FALSE
INVARIANTS
    ReturnedTaskHasImp
