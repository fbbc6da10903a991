SPECIFICATION Spec
CONSTANTS
    Datasets = {"nsl", "cicids2017"}
    Nsl = "nsl"
    AllTraining <- MCAllTraining
    Members = 2
    Starts = 3
    Kills = 2
INVARIANTS
    HardenedFitsItsBase
    CompletedIsTrained
    BootableStays
CHECK_DEADLOCK FALSE
