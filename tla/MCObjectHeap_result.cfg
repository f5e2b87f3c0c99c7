SPECIFICATION Spec
CONSTANTS
    main = main
    w1 = w1
    o1 = o1
    o2 = o2
    o3 = o3
    Null = Null
    Box = Box
    Threads = {main, w1}
    Main = main
    Objs = {o1, o2, o3}
    MaxRefs = 2
    LocalStores = TRUE
SYMMETRY Symmetry
INVARIANT STObjectsAreLocal
