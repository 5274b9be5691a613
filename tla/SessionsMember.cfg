CONSTANTS
    Call = {c1}
    RecoveryID = {}
    SystemAdmin = TRUE
    MaxFailures = 1
    AccessTTL = 1
    RefreshTTL = 1
    RecoveryTTL = 1
    LockTTL = 1
    Retention = 1
    BatchSize = 2
    MaxToken = 3
    MaxCredential = 2
    MaxTime = 3
SPECIFICATION Spec
VIEW SessionView
CHECK_DEADLOCK FALSE
INVARIANTS
    ReplayDetectable
PROPERTIES
    DevicesSignedIn
    ReplayEndsSessions
    OldLineageHarmless
