SPECIFICATION Spec
CONSTANTS
    r1 = r1 r2 = r2 r3 = r3 plan = plan Nobody = Nobody
    Requests = {r1, r2}
    Files = {plan}
    Attached <- MCAttached
    MinMessages = 4
    MinCompacted = 2
    MessageCap = 80
    MaxDeletes = 1
    MaxPatches = 0
    MaxCompactions = 0
PROPERTY SentStaysSent
CHECK_DEADLOCK FALSE
