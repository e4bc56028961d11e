SPECIFICATION Spec
CONSTANTS
  us = us
  nse = nse
  amd = amd
  tcs = tcs
  ann = ann
  t1 = t1
  t2 = t2
  calm = calm
  bold = bold
  Users = {ann}
  Tickers = {amd, tcs}
  Threads = {t1, t2}
  Venues = {us, nse}
  Appetites = {calm, bold}
  DefaultMarket = us
  DefaultAppetite = calm
  DefaultUniverse <- OneEach
  MaxUniverse = 2
  WatchLimit = 1
  MaxRequests = 3
  Actions = {"accumulate", "avoid"}
  Outcomes <- Moves
  Admins = {ann}
  Keep = 1
  MaxRuns = 3
  MaxAlarms = 1
  MaxEvents = 3
  Faults = {"store", "unreadable", "notify", "restart"}
SYMMETRY Interchangeable
INVARIANTS
  ChoicesStored
  WatchBounded
  UniverseKept
  WatchersTold
  NewestKept
PROPERTIES
  NoticesTrue
\* no request or run need come
CHECK_DEADLOCK FALSE
