SPECIFICATION FairSpec
CONSTANTS
  j1 = j1
  j2 = j2
  Jobs <- MCJobs
  FailingJobs <- MCFailing
  MaxDials = 2
  MaxFaults = 2
INVARIANTS
  JobNotLost
  ReportsFollowDeliveries
PROPERTIES
  ImplementsAtLeastOnce
  QueuedJobIsReported
CHECK_DEADLOCK FALSE
