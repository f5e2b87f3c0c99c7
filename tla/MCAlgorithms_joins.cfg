SPECIFICATION MCSpec
CONSTANTS
    Subjects = {"ir"}
    Keys = {1, 2, 3, 4, 5, 6}
    Data = {0, 1}
    Params = {1, 2}
    MaxLevelDepth = 3
    MaxUniverse = 2
    FVars = {x, y}
    MaxBVar = 2
    MaxTermSize = 6
    Exprs <- MCExprs
    HashOf <- MCHashOf
    MaxCalls = 3
    PVars = {p, q}
    Ctors <- MCCtors
    MaxBodySize = 6
SYMMETRY MCSymmetry
INVARIANT ResetAfterLastUse
