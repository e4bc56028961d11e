SPECIFICATION Spec
CONSTANTS
  us = us
  nse = nse
  Venues = {us, nse}
  Pipeline <- ShortPipeline
  Keep = 2
  MaxRuns = 3
  Faults = {"agent"}
PROPERTIES
  BookNeverBlank
\* an idle desk need not do anything once MaxRuns runs were started
CHECK_DEADLOCK FALSE
