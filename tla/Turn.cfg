SPECIFICATION Spec
CONSTANTS
    t1 = t1
    t2 = t2
    t3 = t3
    Turns = {t1, t2, t3}
    ThreadOf <- MCThreadOf
    Nobody = Nobody
    MaxCrashes = 1
    MaxFaults = 1
SYMMETRY MCSymmetry
CHECK_DEADLOCK FALSE
INVARIANTS TurnsInOneHand NothingLeftBehind
PROPERTIES CrashesSettle
