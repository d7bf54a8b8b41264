SPECIFICATION Spec
CONSTANTS
  UpdateKinds = {"private", "group"}
  MaxUpdates = 2
  BatchLimit = 2
  MaxDeaths = 2
  MaxStarts = 3
  MaxFailures = 1
  MaxSlow = 1
  MaxJobs = 3
  MaxWorkerDeaths = 2
  Sessions = {1, 2}
  CommandConfigs <- MCCommands
  MaxRounds = 4
  Examples = 3
  MaxCommandTrouble = 2
  MaxRuns = 3
  Retries = 1
  SinkSets = {{"http"}, {"dashboard"}}
  PageSize = 1
  MaxTrouble = 3
INVARIANTS
  RunsAreIndependent
CHECK_DEADLOCK FALSE
