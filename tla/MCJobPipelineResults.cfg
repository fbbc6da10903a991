SPECIFICATION FairSpec
CONSTANTS
  j1 = j1
  j2 = j2
  Jobs <- MCJobs
  FailingJobs <- MCFailing
  MaxDials = 2
  MaxFaults = 2
PROPERTIES
  ResultsReachGateway
CHECK_DEADLOCK FALSE
