\* Neither script is started more often than its bound, so the model ends.
SPECIFICATION EvaluationsSpec
CHECK_DEADLOCK FALSE
CONSTANTS
  NumBatches = 4
  Tasks = {t1, t2}
  t1 = t1
  t2 = t2
  Limits <- MCLimits
  MaxRuns = 4
  Jobs <- MCJobs
  EmptyAt <- MCEmptyAt
  Refs <- MCRefs
  Workers = 2
  Saves = 2
  Starts = 2
  Kills = 1
INVARIANTS
  CountersAreExact
  FinishedRunIsComplete
  OneWorkerPerJob
  AllDoneIsComplete
