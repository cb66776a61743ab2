SPECIFICATION HistorySpec
CONSTANTS
  Cap = 2
  MaxRuns = 2
  MaxCrashes = 0
PROPERTY ReapsOnlyLeftovers
CHECK_DEADLOCK FALSE
