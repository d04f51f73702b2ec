SPECIFICATION Spec
CONSTANTS
    Days = {"crash", "held"}
    CrashDays = {"crash"}
    HeldOut = {"held"}
    MaxEpochs = 2
    MaxRuns = 1
    MaxTicks = 5
    CrashPct = 2
    RecoveryPct = 1
    PeakWindow = 2
    Grace = 1
    Cooldown = 1
    WindowSize = 2
    NormWindow = 3
    Lookahead = 2
INVARIANTS
    CoveredWindowsAreKept
CHECK_DEADLOCK FALSE
