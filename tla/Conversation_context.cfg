SPECIFICATION FairSpec
CONSTANTS
    r1 = r1 r2 = r2 r3 = r3 plan = plan Nobody = Nobody
    Requests = {r1, r2}
    Files = {plan}
    Attached <- MCAttached
    MinMessages = 2
    MinCompacted = 1
    MessageCap = 2
    MaxDeletes = 1
    MaxPatches = 1
    MaxCompactions = 2
INVARIANTS NothingForgotten
PROPERTY NobodyWaitsForEver
CHECK_DEADLOCK FALSE
