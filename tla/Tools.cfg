SPECIFICATION Spec
CONSTANTS
    Calls <- MCCalls
    Workloads <- MCWorkloads
    Admin = Admin
    Free = Free
    MaxSessions = 2
    MaxAdmin = 2
    MaxCuts = 1
INVARIANTS OneTruth ToolsFollowSession GroupEndsWithCall
CHECK_DEADLOCK FALSE
PROPERTIES ToolsEnd
