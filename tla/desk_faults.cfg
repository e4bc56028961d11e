SPECIFICATION Spec
CONSTANTS
  us = us
  Venues = {us}
  Pipeline <- FullPipeline
  Keep = 1
  MaxRuns = 2
  Faults = {"agent", "store", "shutdown", "crash"}
INVARIANTS
  SingleDesk
  ActiveRowKept
  SnapshotsHaveRows
  StreamBehindStore
PROPERTIES
  LedgerSpec
\* an idle desk need not do anything once MaxRuns runs were started
CHECK_DEADLOCK FALSE
