SPECIFICATION Spec
CONSTANTS
    main = main
    t1 = t1
    s1 = s1
    s2 = s2
    None = None
    Threads = {main, t1}
    Main = main
    Segments = {s1, s2}
    PagesPerSegment = 3
    ObjsPerPage = 2
    MaxToExport = 1
    MaxLive = 4
    MaxPages = 2
    MaxCut = 4
    LateStarts = FALSE
SYMMETRY Symmetry
INVARIANTS ObjectsConserved PageListsWellFormed SegmentsHaveOneOwner
