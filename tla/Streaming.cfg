\* A tab; a page and others; the live programs in all their configurations.
SPECIFICATION SpecOfOne
CONSTANTS
  Tabs = {"t1"}
  StaleAfter = 3
  BeatEvery = 1
  Pages = {"page"}
  Others = TRUE
  Days = {"a"}
  Length = 2
  Speeds = {1, 2}
  MaxInTransit = 3
  Window = 2
  NormWindow = 3
INVARIANTS TypesOK ShowsTheFeed ViewContinues BlindOnlyWhileRecent EveryChannelIsTried
           EnabledStage4NeverAlerts
PROPERTIES SilenceIsReported ReplayEnds KeepsScoring StopEnds
\* A live program that was stopped has ended.
CHECK_DEADLOCK FALSE
