SPECIFICATION Spec
CONSTANTS
  amd = amd
  jpm = jpm
  None = None
  Tickers = {amd}
  Feeds = {"candle"}
  Keys = {"finnhub", "alphavantage"}
  Edgar = TRUE
  ForceDemo = FALSE
  Concurrency = 1
  Retries = 0
  CacheTTL = 1
  FailureRetry = 0
  Listed = {amd}
  Providers = {"heuristic", "gateway"}
  Cap = 2
  DemoNews = {amd}
  DemoFilings = {}
  Evidence <- Names
  MaxRuns = 1
  MaxLost = 0
INVARIANTS
  BookReadable
\* no run need begin
CHECK_DEADLOCK FALSE
