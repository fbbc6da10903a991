SPECIFICATION FairSpec
CONSTANTS
  d1 = d1
  d2 = d2
  Drivers <- MCDrivers
  NumSeeds = 2
  NumMethods = 1
  MaxFaults = 1
INVARIANTS
  CheckpointsAreSound
  ScoresAreCurrent
PROPERTIES
  WholeIsKept
  SweepIsTrained
CHECK_DEADLOCK FALSE
