SPECIFICATION FairSpec
CONSTANTS
    report = report q1 = q1 q2 = q2 q3 = q3 NoDoc = NoDoc
    Docs = {report}
    Requests = {q1, q2, q3}
    MaxRetries = 1
    MaxFaults = 1
    MaxCrashes = 1
INVARIANTS ReadyIsSearchable DeletedIsForgotten
PROPERTY EveryDocumentSettles
CHECK_DEADLOCK FALSE
