\* The program may end.  Threads that are stuck fail ForcingEnds.
CHECK_DEADLOCK FALSE
SPECIFICATION FairThunkSpec
CONSTANTS
    main = main
    w1 = w1
    o1 = o1
    o2 = o2
    o3 = o3
    Null = Null
    Box = Box
    Threads = {main, w1}
    Main = main
    Objs = {o1, o2, o3}
    MaxRefs = 2
    LocalStores = FALSE
INVARIANTS ThunkCountsAreExact OneEvaluator
PROPERTY ForcingEnds
