\* What runs workflows: the queue, the engine and one Parallel node.
CONSTANTS
  MaxQueue = 2
  MaxIds = 5
  MaxDirect = 2
  Workflows <- AllWorkflows
  Branches = {b1, b2, b3}
SPECIFICATION RunsSpec
INVARIANTS
  NoStrandedWork
  WaitInOrder
  QueuedIsWaiting
  BoundedOvershoot
  EngineTypeOK
  NothingRunsAtCleanup
  OnlyStopCancels
  LoneLoopErrorsFail
  FirstDecisiveRecordWins
  HandleIsEarned
  ReturnIsClean
  CancelledForCause
PROPERTIES
  OutcomeIsFinal
  StartInOrder
  EveryRequestLeaves
  ImplementsRunQueue
  LoneLoopsEndForCause
  StopSettles
  SettledNodeReturns
CHECK_DEADLOCK FALSE
