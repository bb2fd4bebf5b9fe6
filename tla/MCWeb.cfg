SPECIFICATION WebSpec
CONSTANTS
  Screens <- AllScreens
  Rows = {1, 2}
  Nodes = {"n1"}
  All = "all"
  Queries = {"all", "failed"}
  Cursors = {0, 1, 2, 5}
  Bound <- SmallBounds
  NoGraph = NoGraph
  Capacity = 2
  Graphs = {g1, g2, bad}
  Invalid = {bad}
  Settings = {s1, s2}
  Defaults = s1
  Triggers = {t0, t1}
  NoTriggers = t0
  Saves = {a}
  MaxEdits = 2
  MaxVersions = 2
  MaxLoads = 2
SYMMETRY GraphSymmetry
INVARIANTS
  WebTypeOK
  ListsShowServer
  SpinnersHaveRequests
  ShapeKept
  CleanShowsStored
  
  
  WritesKeepRules
  
 
CHECK_DEADLOCK FALSE
