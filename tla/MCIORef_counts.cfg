\* The program may run out of addresses: cycles through references are never freed.
CHECK_DEADLOCK FALSE
SPECIFICATION MCSpec
CONSTANTS
    main = main
    w1 = w1
    o1 = o1
    o2 = o2
    o3 = o3
    Null = Null
    Box = Box
    Threads = {main, w1}
    Main = main
    Objs = {o1, o2, o3}
    MaxRefs = 2
    LocalStores = FALSE
    MaxIORefs = 1
    SwapEmpty = FALSE
SYMMETRY Symmetry
INVARIANTS RefCountsAreExact MTReachesNoST STObjectsAreLocal NothingLeaks
PROPERTY UpdatesAreUnseen
