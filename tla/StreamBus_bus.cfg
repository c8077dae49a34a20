SPECIFICATION FairSpec
CONSTANTS
    t1 = t1 t2 = t2 t3 = t3
    Tasks = {t1, t2}
    NoData = NoData
    MaxRetries = 1
    BatchSize = 2
    RecoverSize = 2
    Maxlen = 2
    Faults = {"os", "redis"}
    MaxFaults = 1
    MaxCrashes = 2
INVARIANTS NothingLost RetriedBeforeDLQ DuplicatesNeedAFault
PROPERTIES EveryTaskIsSettled ImplementsQueue
CHECK_DEADLOCK FALSE
