SPECIFICATION Spec
CONSTANTS
  Symbols = {"BTCUSDT"}
  Dates = {"2021-05-19"}
  Patterns = 2
  MaxMishaps = 1
  Forever = FALSE
  MaxRecords = 2
  MaxFailures = 1
INVARIANTS TypeOK FilesAreSound
           RecordsAreKept
PROPERTIES KeptOnceWritten RunsEnd
CHECK_DEADLOCK FALSE
