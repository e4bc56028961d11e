SPECIFICATION FairSpec
CONSTANTS
  us = us
  Venues = {us}
  Pipeline <- ShortPipeline
  Keep = 2
  MaxRuns = 3
  Faults = {"agent", "shutdown", "crash"}
INVARIANTS
  ClosedMeansSettled
  RetentionBound
PROPERTIES
  HistoryStands
  EveryRunSettles
  DeskComesFree
  EveryBookSnapshotted
\* an idle desk need not do anything once MaxRuns runs were started
CHECK_DEADLOCK FALSE
