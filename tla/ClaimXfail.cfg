SPECIFICATION Spec
CONSTANTS
  Suites <- ClaimSuites
  Gate <- gate
  Keeps <- keeps
  Worlds <- MCWorlds
  MaxPokes = 2
  Orders <- MCOrders
  Content <- ContentOf
  CopyInto <- CopyOf
  InPlace <- restore_in_place
  Processes = 2
  ImportPaths <- MCPaths
  Modules <- MCModules
  Windows <- MCWindows
  Trees <- MCTrees
  MaxChanges = 1
  MaxLaunches = 2
  Layouts <- MCLayouts
  Patches <- MCPatches
  ProjectFilters <- MCProject
  Lanes = {1, 2}
  MaxRuns = 3
  MaxTreeEdits = 2
INVARIANT XfailMeansTheSame
CHECK_DEADLOCK FALSE
