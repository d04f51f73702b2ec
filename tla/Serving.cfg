\* Two requests fed at once, some of them lost, and resets; two symbols in the
\* basket, trades up to a second late; two requests handled at once; pages of
\* one and two alerts.
SPECIFICATION SpecOfOne
CONSTANTS
  Threads = {t1, t2}
  MaxWindow = 2
  BufferCap = 3
  BatchCap = 2
  TcnThrottle = 1
  RequestsFail = TRUE
  Fallbacks = TRUE
  Resets = TRUE
  MaxOverlap = 3
  MaxTicks = 5
  MaxNow = 3
  Anchor = BTC
  Basket = {ETH, SOL}
  WindowBins = 3
  SustainBins = 2
  Cooldown = 1
  MaxLateness = 1
  MaxSeconds = 5
  Emails = {e}
  Browsers = {b}
  Handlers = {h1, h2}
  MaxSessions = 2
  Window = 2
  AuthMax = 1
  AlertMax = 2
  Limits = {1, 2}
  MaxAlerts = 4
  MaxClock = 2
INVARIANTS TypesOK NoTickTwice ReadyIsFullUnlessReset SeriesAligned SustainedLowAlerts
           SessionsAreSound PagesLoseNothing
\* The bounded behaviours come to their end.
CHECK_DEADLOCK FALSE
