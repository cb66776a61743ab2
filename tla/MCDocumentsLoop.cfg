\* A loop whose iteration count the subworkflow after it takes for an input.
CONSTANTS
  Workflows = {"w1", "w2"}
  NodeIds = {"start", "loop", "leaf"}
  Start = "start"
  Containers = {"loop"}
  Links <- MCLinks
  Looks = {"plain", "fancy"}
  Initial <- MCInitial
  Blank <- MCBlank
  Stale = "stale"
  Top = "top"
  NoDoc = NoDoc
  Gone = Gone
  HistoryLimit = 1
  Selectable = {"leaf"}
  MaxActs = 3
  MaxSaves = 2
  WorkflowIds = {"a", "b", "c"}
  TriggerIds = {"t1", "t2"}
  Library <- MCLibrary
  UserFiles <- MCUserFiles
  Saves = {"s1", "s2", "s3", "s4"}
  Save <- MCSave
  NoFile = NoFile
  TornFile = TornFile
  Flows <- MCFlows
  Mains = {"one"}
  NoNode = NoNode
  MaxIterations = 2
  Cap = 1
  MaxRuns = 3
  MaxCrashes = 1
SPECIFICATION TemplatesRun
INVARIANT LoopOutputsResolve
CHECK_DEADLOCK FALSE
