SPECIFICATION Spec
CONSTANTS
  Profiles <- PROFILES
  Sectors <- MCSectors
  Raws <- MCRaws
  MaxRuns = 2
INVARIANTS
  PolicyDisposes
  NoNameSkipped
  ViewIsExact
  TighterShrinks
  ChangesComplete
