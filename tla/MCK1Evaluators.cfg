SPECIFICATION EvalSpec
CONSTANTS
    NumCont = 1
    Size <- MCSize
    One = 2
    Nets <- MCNets
    Epsilon = 1
    MaxK = 3
INVARIANTS
    EnumerationIsTheBall
    BreaksAreWithinBudget
    ExhaustiveMissesNothing
    CertificatesAreSound
    CrownIsBetween
CHECK_DEADLOCK FALSE
