SPECIFICATION CwSpec
CONSTANTS
    Rounds = 4
    Looks = 1
    Dists = {0, 1, 2}
INVARIANT
    BracketNarrows
CHECK_DEADLOCK FALSE
