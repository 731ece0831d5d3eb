SPECIFICATION FairSpec
CONSTANTS
    Ops = {o1, o2, o3}
    Exclusives = {x1}
    Nobody = Nobody
INVARIANTS ForegroundSound
PROPERTIES KeepsPromise EndsQuietly
