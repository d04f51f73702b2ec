\* One unit of time is the 500 ms throttle; the longer intervals keep their
\* order (throttle < abort < fallback; bucket = cooldown) but are shortened.
CONSTANTS
    UseTcn = TRUE
    Anchor = BTC
    Watchlist = {ETH}
    MaxScore = 2
    Threshold = 1
    TcnThrottle = 1
    FallbackAfter = 2
    FallbackFor = 3
    FailureLimit = 3
    AlertCooldown = 2
    DedupBucket = 2
    MaxReading = 2
SPECIFICATION Spec
INVARIANTS TypeOK OneAlertPerDedupKey FallbackBounded AvailableBelowLimit
PROPERTY FallbackEnds
