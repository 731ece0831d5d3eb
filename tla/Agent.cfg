SPECIFICATION Spec
CONSTANTS
    None = None
    PolicyRetries = 1
    RecentTurns = 1
    InputLimit = 40
    EntrySize = 4
    SummarySize = 4
    ModelCalls = 4
    ToolCalls = 2
    Retries = 1
    Compressions = 1
    Replies <- MCReplies
    Threads <- MCThreads
    Captures <- MCCaptures
    Replayable = {"c1"}
    CallSize = 3
    ResultSize = 5
    Distilling = TRUE
    MaxMishaps = 1
INVARIANTS RequestsWellFormed BudgetsKept HistoryWhole SafeToResume
PROPERTIES TurnSettles
