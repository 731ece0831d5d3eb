SPECIFICATION FairSpec
CONSTANTS
    Scripts <- MCScripts
    Bodies <- MCBodies
    Frail <- MCFrail
    PipeSize = 2
    MaxPending = 2
INVARIANTS ToldTruth InputsKept FatalHasCause
PROPERTY SessionSettles
CHECK_DEADLOCK FALSE
