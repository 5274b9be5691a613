CONSTANTS
    Call = {c1, c2}
    RecoveryID = {q1, q2}
    SystemAdmin = FALSE
    MaxFailures = 2
    AccessTTL = 1
    RefreshTTL = 1
    RecoveryTTL = 1
    LockTTL = 1
    Retention = 1
    BatchSize = 2
    MaxToken = 2
    MaxCredential = 3
    MaxTime = 1
SPECIFICATION Spec
SYMMETRY Symmetry
VIEW SessionView
CHECK_DEADLOCK FALSE
INVARIANTS
    LockoutThreshold
PROPERTIES
    RecoveryAppliesOnce
    OldLineageHarmless
