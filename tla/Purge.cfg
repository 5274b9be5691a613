CONSTANTS
    c1 = c1
    c2 = c2
    c3 = c3
    q1 = q1
    q2 = q2
    Caller = {c1, c2, c3}
    RequestOf <- SharedRequest
    Initiator = {alice, bob}
    NoOne = NoOne
    ServiceSink = FALSE
    MaxFaults = 3
    MaxRows = 4
SPECIFICATION RetrySpec
PROPERTIES
    PurgedByProtocol
    CompletionFollowsPurge
