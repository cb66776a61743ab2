SPECIFICATION ServicesSpec
CONSTANTS
  ChildCalls = {k1, k2}
  k1 = k1
  k2 = k2
  Streams <- MCStreams
  Manifests <- MCManifests
  Calls = {c1, c2, c3, c4, c5, c6, c7}
  Repos = {r1, r2}
  Node <- MCNode
  Transport <- MCTransport
  UseTree <- MCUseTree
  RepoOf <- MCRepoOf
  Ref <- MCRef
  c1 = c1
  c2 = c2
  c3 = c3
  c4 = c4
  c5 = c5
  c6 = c6
  c7 = c7
  r1 = r1
  r2 = r2
  n1 = n1
  n2 = n2
  main = main
  NoRepo = NoRepo
  NoRef = NoRef
  Outputs <- MCOutputs
  ToolIds = {"x", "y"}
  Builtins <- MCBuiltins
  ConnIds <- MCConnIds
  Contents <- MCContents
  Writers = {"w1", "w2", "w3"}
  Job <- MCJob
  Fetches = {"f1", "f2"}
  Absent = Absent
  Broken = Broken
  NoValue = NoValue
  Decisions <- MCDecisions
  Replies <- MCReplies
  TriggerIds = {ta, tb}
  PluginFiles <- MCPluginFiles
  Edits = {p1, d1, p2}
  Edit <- MCEdit
  Hits = {h1, h2, h3}
  Hit <- MCHit
  Initial <- MCInitial
  NoTrigger = NoTrigger
  TornFile = TornFile
  ta = ta
  tb = tb
  p1 = p1
  d1 = d1
  p2 = p2
  h1 = h1
  h2 = h2
  h3 = h3
  MaxQueue = 1
  MaxIds = 2
  MaxDirect = 1
  MaxEntries = 1
  RunEnds = {"succeeded"}
  MaxPolls = 2
  EventCap = 2
  MaxRuns = 2
  MaxEvents = 3
  MaxConnects = 2
INVARIANTS
  NoStrayTimer
  RegistryIsExact
  HttpEndsWell
  TreesHold
  OutputIsWhole
  ListsAreFresh
  VerdictsAreSound
  TriggersHold
  BrowserFollows
PROPERTIES
  KilledCallReturns
  HttpKillReturns
  TurnsCome
  PollsAdvance
CHECK_DEADLOCK FALSE
