SPECIFICATION Spec
CONSTANTS
  mod = mod
  src = src
  a = a
  b = b
  Files <- MCFiles
  Contents <- MCContents
  Missing = Missing
  NoHash = NoHash
  ConfigFiles = {}
  Ids <- MCIds
  Candidates <- MCIds
  Expansions <- MCExpansions
  Reporter <- MCReporter
  ModuleOf <- MCModuleOf
  Outcomes <- MCOutcomes
  WorkerFault = WorkerFault
  Deselected = Deselected
  NoRecord = NoRecord
  Absent = Absent
  Collects <- MCCollects
  Result <- MCResult
  CacheEnabled = TRUE
  MaxEdits = 2
  MaxRuns = 3
INVARIANT CacheIsHonest
CHECK_DEADLOCK FALSE
