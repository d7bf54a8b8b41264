SPECIFICATION ExecutionSpec
CONSTANTS
    Node <- MCNode
    Entry = "draft"
    Edges <- MCEdges
    Commands <- MCCommands
    Interrupting = {"audit", "review"}
    Nested = {"audit"}
    Value <- MCValue
    Unset = "unset"
    MaxIterations = 7
    Always = Always
    OnError = OnError
    Stop = Stop
    NoNode = NoNode
    NoCheckpoint = NoCheckpoint
    MaxDeaths = 3
INVARIANTS
    TypeOK
    EachDeathRepeatsAtMostOneNode
PROPERTIES
    ImplementsDurableRun
    QuestionLeavesWithItsAnswer
    PersistenceIsRewarded
CHECK_DEADLOCK FALSE
