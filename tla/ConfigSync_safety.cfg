SPECIFICATION FairSpec
CONSTANTS
    p1 = p1
    p2 = p2
    r1 = r1
    r2 = r2
    catalog = catalog
    categories = categories
    auth = auth
    styles = styles
    Instances = {p1, p2}
    Watchers = {p1, p2}
    Admins = {r1, r2}
    Host <- HostEach
    Tables = {catalog, styles}
    Discipline <- HandlerDiscipline
    SnapshotRank <- SnapshotOrder
    StartRank <- StartOrder
    MaxEdits = 2
    MaxFailures = 1
    MaxCrashes = 1
INVARIANTS
    TypeOK
    AcknowledgedIsHeld
PROPERTIES
    ImplementsReplicatedConfig
    WatchersCatchUp
CHECK_DEADLOCK FALSE
