SPECIFICATION Spec
CONSTANTS
  Values = {"yes", "unclear", "finish", "tools"}
  Pass = "yes"
  Unclear = "unclear"
  Finish = "finish"
  ToolCalls = "tools"
  MaxCalls = 4
  MaxBuild = 8
  MaxWritten = 2
  Agents = {"planner", "writer", "editor", "advisor"}
  Order <- Pipeline
  TeamFinish = "finish"
  NoAgent = "nobody"
  MaxRounds = 5
  MaxTurns = 2
  GateRounds = 2
  AskRounds = 3
  MaxCount = 6
  MaxEntries = 2
INVARIANTS
  BuiltFlowsAreWired
  DocumentsRunAsBuilt
  ValidationTellsTheLoader
  ReferencesAreKept
PROPERTIES
  AnswersDecide
  TurnsAreServedInOrder
CHECK_DEADLOCK FALSE
