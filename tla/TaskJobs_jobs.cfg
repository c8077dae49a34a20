SPECIFICATION Spec
CONSTANTS
    task = task copy = copy p = p q = q NoTask = NoTask
    Tasks = {task, copy}
    Born = {task}
    Editors = {p, q}
    PlatformSync = TRUE
    MaxRuns = 3
    MaxEvents = 3
INVARIANTS JobsFollowTheRows OneShotRunsAreBounded
SYMMETRY Symmetry
CHECK_DEADLOCK FALSE
