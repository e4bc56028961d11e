SPECIFICATION FairSpec
CONSTANTS
  amd = amd
  jpm = jpm
  None = None
  Tickers = {amd, jpm}
  Feeds = {"filings", "candle"}
  Keys = {"finnhub", "alphavantage"}
  Edgar = TRUE
  ForceDemo = FALSE
  Concurrency = 2
  Retries = 1
  CacheTTL = 1
  FailureRetry = 0
  Listed = {amd}
  Providers = {"heuristic", "gateway", "cursor"}
  Cap = 2
  DemoNews = {amd}
  DemoFilings = {}
  Evidence <- Names
  MaxRuns = 2
  MaxLost = 1
INVARIANTS
  CausesKnown
  AgentsDeleted
PROPERTIES
  MapKept
  RunConcludes
\* no run need begin
CHECK_DEADLOCK FALSE
