SPECIFICATION StorageSpec
CONSTANTS
  Key = {"a", "j.doe", "j_doe"}
  Path <- MCPath
  Backends = {"file", "sqlite"}
  MaxOps = 3
  Torn = Torn
  NoSnapshot = NoSnapshot
  NoKey = NoKey
  Unpromised = Unpromised
  Steps = 4
  AskingStep = 2
  MaxTurns = 2
  MaxEdits = 2
  MaxCrashes = 1
  Paths <- MCPaths
  MaxVisits = 2
  MaxCalls = 3
INVARIANTS
  HistoryTellsTheStory
  TraceTellsTheRun
PROPERTIES
  StoresKeepTheirPromise
CHECK_DEADLOCK FALSE
