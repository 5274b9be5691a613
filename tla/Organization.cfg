SPECIFICATION Spec
CONSTANTS
    Operator = {o1, o2}
    Tenant = {t1, t2, t3}
    Name = {"first", "second"}
    FirstName = "first"
    None = none
    Error = error
    MaxSetups = 3
    MaxVersion = 2
    MaxFaults = 2
CHECK_DEADLOCK FALSE
PROPERTIES
    OrganizationIsFinal
    NoLostRename
    SetupEnds
