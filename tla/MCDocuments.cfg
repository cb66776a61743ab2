\* What a workflow document goes through: the editor, the files, the templates, the run records.
CONSTANTS
  Workflows = {"w1", "w2"}
  NodeIds = {"start", "loop", "leaf"}
  Start = "start"
  Containers = {"loop"}
  Links <- MCLinks
  Looks = {"plain", "fancy"}
  Initial <- MCInitial
  Blank <- MCBlank
  Stale = "stale"
  Top = "top"
  NoDoc = NoDoc
  Gone = Gone
  HistoryLimit = 1
  Selectable = {"leaf"}
  MaxActs = 3
  MaxSaves = 2
  WorkflowIds = {"a", "b", "c"}
  TriggerIds = {"t1", "t2"}
  Library <- MCLibrary
  UserFiles <- MCUserFiles
  Saves = {"s1", "s2", "s3", "s4"}
  Save <- MCSave
  NoFile = NoFile
  TornFile = TornFile
  Flows <- MCFlows
  Mains = {"one", "two", "team", "ring"}
  NoNode = NoNode
  MaxIterations = 2
  Cap = 1
  MaxRuns = 3
  MaxCrashes = 1
SPECIFICATION DocumentsSpec
INVARIANTS EditedGraphsAreWhole CleanIsSaved FilesHold LintIsRight NoTornRecord CapHolds
PROPERTIES EditsGetSaved PrunesOldest
CHECK_DEADLOCK FALSE
