SPECIFICATION Spec
CONSTANTS
    Procs = {p1, p2}
    Services = {"kimi", "mem0"}
    Exported = {"kimi"}
    Keys = {k1, k2}
    ExportedKey = ExportedKey
    NoKey = NoKey
    Nobody = Nobody
    NoFile = NoFile
    NoRecord = NoRecord
    MaxRequests = 2
    MaxMishaps = 2
SYMMETRY Symm
CHECK_DEADLOCK FALSE
INVARIANTS ToldTruth RefusalHasReason AppliedOrFenced
PROPERTIES AtomicChange
