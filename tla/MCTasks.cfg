SPECIFICATION Spec
CONSTANTS
  MaxInputs = 3
  NoNode = NoNode
  NoCheckpoint = NoCheckpoint
  Nothing = Nothing
  Lengths <- MCLengths
  Cases <- AllCases
  Absent = Absent
  Chunks = 4
  MaxConcurrency = 2
  LoopRounds = 3
  NodeAttempts = 3
  Endpoints = {"stops", "relays", "server"}
  MaxPosts = 2
  MaxLeaves = 1
INVARIANTS
  VisitsAreWhole
  MergedOrUntouched
  LastAttemptIsWhole
PROPERTIES
  SubFlowCompletes
  StreamsEnd
CHECK_DEADLOCK FALSE
