SPECIFICATION FairSpec
CONSTANTS
  l1 = l1
  l2 = l2
  ingest = ingest
  policy = policy
  Listeners = {l1, l2}
  Stages = {ingest, policy}
  MaxHistory = 1
  MaxRuns = 2
  MaxEvents = 2
INVARIANTS
  NoListenerLeft
  NothingMissed
PROPERTIES
  FeedSpec
  EveryStreamEnds
\* all runs may be over and all requests served
CHECK_DEADLOCK FALSE
