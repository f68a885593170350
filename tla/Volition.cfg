SPECIFICATION FairSpec
CONSTANTS
  Streams = {s1, s2}
  Capacity = 2
  MaxLead = 1
  MaxWait = 2
  MaxLate = 1
  MaxCommits = 3
INVARIANTS PendingExact ReportedOnce
PROPERTIES EveryCommitReported ShutdownStops
CHECK_DEADLOCK FALSE
