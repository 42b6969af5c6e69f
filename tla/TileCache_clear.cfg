SPECIFICATION Spec
CONSTANTS
    p1 = p1
    p2 = p2
    b1 = b1
    b2 = b2
    k1 = k1
    k2 = k2
    j1 = j1
    j2 = j2
    Procs = {p1, p2}
    Solo = p1
    Modes = {"shared", "disk"}
    Browsers = {b1}
    Caching = {b1}
    Jobs = {j1, j2}
    Tiles = {k1, k2}
    MaxEdits = 1
    MaxClears = 1
    MaxFaults = 1
SYMMETRY Interchangeable
INVARIANTS
    TypeOK
    StaleTilesAreStragglers
PROPERTY
    PurgedEtagIsDead
