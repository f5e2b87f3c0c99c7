SPECIFICATION MapSpec
CONSTANTS
    main = main
    w1 = w1
    o1 = o1
    o2 = o2
    o3 = o3
    o4 = o4
    Null = Null
    Box = Box
    Threads = {main, w1}
    Main = main
    Objs = {o1, o2, o3, o4}
    MaxRefs = 2
    LocalStores = FALSE
SYMMETRY Symmetry
INVARIANT NothingRefersToFreed
