SPECIFICATION Spec
CONSTANTS
    Path <- MCPath
    Commit <- MCCommit
    Repository <- MCRepository
    Manifest <- MCManifest
    Missing = "missing"
    Edited = "edited"
    MaxFaults = 2
    MaxEdits = 1
INVARIANTS
    Recoverable
    QuietMeansTidy
    InstalledPassesCheck
PROPERTIES
    AllOrNothing
    CallEnds
