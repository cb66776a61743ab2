\* The engine on one workflow.
CONSTANTS
  MaxQueue = 1
  MaxIds = 1
  MaxDirect = 1
  Workflows <- OnlyNestedLoops
  Branches = {b1}
SPECIFICATION EngineRun
INVARIANT UnhandledErrorFails
CHECK_DEADLOCK FALSE
