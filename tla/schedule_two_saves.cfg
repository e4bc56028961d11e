SPECIFICATION Spec
CONSTANTS
  us = us
  t1 = t1
  balanced = balanced
  h1 = h1
  h2 = h2
  Venues = {us}
  Times = {t1}
  Appetites = {balanced}
  HasInterval = FALSE
  Savers = {h1, h2}
  Edits = {"schedule"}
  Faults = {}
  MaxFires = 0
  MaxManual = 0
  MaxEdits = 2
INVARIANTS
  JobsMatch
\* no job need fire and no admin do anything
CHECK_DEADLOCK FALSE
