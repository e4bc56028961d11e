SPECIFICATION Spec
CONSTANTS
  us = us
  nse = nse
  t1 = t1
  balanced = balanced
  h1 = h1
  Venues = {us, nse}
  Times = {t1}
  Appetites = {balanced}
  HasInterval = TRUE
  Savers = {h1}
  Edits = {"schedule", "market", "appetite"}
  Faults = {"restart"}
  MaxFires = 1
  MaxManual = 1
  MaxEdits = 2
INVARIANTS
  RecordedRight
  FailuresNotified
  JobsMatch
\* no job need fire and no admin do anything
CHECK_DEADLOCK FALSE
