CONSTANTS
    old = old
    new = new
    fork = fork
    a1 = a1
    a2 = a2
    b2 = b2
    a3 = a3
    Runner = {old, new, fork}
    Name <- MCName
    Checksum = {a1, a2, b2, a3}
    Release <- MCRelease
    Legacy <- Untracked
    NoChecksum = NoChecksum
    NoRunner = NoRunner
    MaxFaults = 4
SPECIFICATION FairSpec
INVARIANTS
    AppliedInOrder
    DirtyIsUnapplied
    VerifiedRunsItsSchema
PROPERTIES
    NewerIsUntouched
    EventuallyVerified
