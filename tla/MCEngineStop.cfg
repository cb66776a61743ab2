\* The engine on one workflow.
CONSTANTS
  MaxQueue = 1
  MaxIds = 1
  MaxDirect = 1
  Workflows <- OnlyFlatLoop
  Branches = {b1}
SPECIFICATION EngineRun
INVARIANT StoppedIsCancelled
CHECK_DEADLOCK FALSE
