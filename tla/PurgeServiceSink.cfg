CONSTANTS
    c1 = c1
    c2 = c2
    c3 = c3
    q1 = q1
    q2 = q2
    Caller = {c1}
    RequestOf <- OneRequest
    Initiator = {alice}
    NoOne = NoOne
    ServiceSink = TRUE
    MaxFaults = 1
    MaxRows = 4
SPECIFICATION Spec
INVARIANTS
    OneEventPerPhase
