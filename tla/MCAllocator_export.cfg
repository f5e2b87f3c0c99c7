SPECIFICATION Spec
CONSTANTS
    main = main
    t1 = t1
    t2 = t2
    s1 = s1
    s2 = s2
    s3 = s3
    None = None
    Threads = {main, t1, t2}
    Main = main
    Segments = {s1, s2, s3}
    PagesPerSegment = 2
    ObjsPerPage = 2
    MaxToExport = 0
    MaxLive = 3
    MaxPages = 2
    MaxCut = 3
    LateStarts = FALSE
SYMMETRY Symmetry
INVARIANT ImportListIsOwn
