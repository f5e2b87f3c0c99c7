SPECIFICATION Spec
CONSTANTS
    main = main
    t1 = t1
    s1 = s1
    s2 = s2
    s3 = s3
    s4 = s4
    s5 = s5
    None = None
    Threads = {main, t1}
    Main = main
    Segments = {s1, s2, s3, s4, s5}
    PagesPerSegment = 1
    ObjsPerPage = 1
    MaxToExport = 0
    MaxLive = 5
    MaxPages = 1
    MaxCut = 2
    LateStarts = FALSE
SYMMETRY Symmetry
INVARIANT NewPageInSegment
