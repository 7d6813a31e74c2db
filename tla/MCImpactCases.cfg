SPECIFICATION Spec
CONSTANTS
  mod = mod
  cfg = cfg
  p = p
  p1 = p1
  p2 = p2
  q = q
  Files <- MCFiles
  Contents <- MCContents
  Missing = Missing
  NoHash = NoHash
  ConfigFiles <- MCConfigFiles
  Ids <- MCIds
  Candidates <- MCCandidates
  Expansions <- MCExpansions
  Reporter <- MCReporter
  ModuleOf <- MCModuleOf
  Outcomes <- MCOutcomes
  WorkerFault = WorkerFault
  Deselected = Deselected
  NoRecord = NoRecord
  Absent = Absent
  Collects <- MCCollects
  Result <- MCResult
  CacheEnabled = FALSE
  MaxEdits = 2
  MaxRuns = 2
INVARIANTS DeselectedIsFresh ServedIsComplete
PROPERTIES WarmRunIsQuiet
CHECK_DEADLOCK FALSE
