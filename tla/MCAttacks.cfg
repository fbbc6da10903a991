SPECIFICATION AttacksSpec
CONSTANTS
    c1 = c1
    g1 = g1
    g2 = g2
    ContCols = {c1}
    Groups = {g1, g2}
    Size <- MCSize
    One = 4
    Calls <- MCCalls
    Steps = 2
    Rounds = 4
    Looks = 1
    Dists = {0, 1, 2}
INVARIANTS
    InEpsilonBall
    CategoriesAreRight
    FlipsNeedStrongSteps
    SnapsAgree
    NearestSuccessIsKept
CHECK_DEADLOCK FALSE
