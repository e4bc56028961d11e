SPECIFICATION FairSpec
CONSTANTS
  us = us
  t1 = t1
  balanced = balanced
  h1 = h1
  Venues = {us}
  Times = {t1}
  Appetites = {balanced}
  HasInterval = TRUE
  Savers = {h1}
  Edits = {"closed", "schedule"}
  Faults = {"store", "restart"}
  MaxFires = 2
  MaxManual = 1
  MaxEdits = 1
INVARIANTS
  EachFireOnce
  OneRunPerFire
PROPERTIES
  EveryFireHandled
\* no job need fire and no admin do anything
CHECK_DEADLOCK FALSE
