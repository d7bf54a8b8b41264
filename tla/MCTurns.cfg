SPECIFICATION Spec
CONSTANTS
  Caller = {c1, c2}
  MaxTurns = 3
  Replies = {"message", "output"}
  Transient = TRUE
  NoNode = NoNode
  NoCheckpoint = NoCheckpoint
  NoTurn = NoTurn
  Question = {"city", "date"}
  Tool = {"search", "pay", "wipe"}
  Approver <- MCApprover
  Batches <- MCBatches
  MaxRounds = 3
  MaxAgentTurns = 2
  Nowhere = Nowhere
  Unrecorded = Unrecorded
  Nothing = Nothing
  Endpoints = {"stops", "relays", "server"}
  MaxPosts = 3
  MaxLeaves = 1
  MaxText = 7
  MaxMembers = 3
  MaxBlocks = 3
  McpRun = {1, 2}
  ToolGroups <- MCToolGroups
  GroupIds = {"drive", "git"}
  MaxConnections = 3
  MaxMcpTrouble = 1
  Ticks = {1, 2, 3}
  TokenOf <- MCTokenOf
  Conditions = {"url", "redis_key"}
  MaxPolls = 1
  MaxTicks = 3
  MaxTurmoil = 3
SYMMETRY Callers
INVARIANTS
  TurnsAreExchanges
  RoundsAreWhole
  GatedToolsNeedASignOff
  WaitingIsDurable
  StreamTellsItsTurn
  RepliesAreRead
  ConnectionsAreKept
  TicksActAlone
CHECK_DEADLOCK FALSE
