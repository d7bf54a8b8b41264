SPECIFICATION CallsSpec
CONSTANTS
  Call <- Harnesses
  MaxParallel <- MCMaxParallel
  Limits = {0, 1}
  ReconfigureInUse = FALSE
  MaxReconfigurations = 1
  MaxRetries = 1
  Fallbacks = 1
  LlmNode = {1, 2}
  LlmConfigs <- MCLlmConfigs
  StructuredRetries = 1
  HttpRetries = 1
  FallbackModels = 1
  ToolRounds = 3
  ReplyTokens = 2
  ToolPool = {"search", "delete"}
  AllowedTools = {"search", "delete"}
  DisallowedTools = {"delete"}
  Agent = {"scout", "writer"}
  AgentRounds = 3
  ToolAttempts = 2
  MaxAttempts = 4
INVARIANTS
  StructuredIsValidated
CHECK_DEADLOCK FALSE
