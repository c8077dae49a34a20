SPECIFICATION FairSpec
CONSTANTS
    r1 = r1 r2 = r2 u = u v = v ann = ann ben = ben
    Platform = Platform NoTeam = NoTeam
    Runs = {r1, r2}
    Others = {u, v}
    Execs <- MCExecs
    Teams <- MCTeams
    Owner <- MCOwner
    GlobalMax = 1
    TeamMax = 1
    MaxCrashes = 1
    MaxFaults = 1
INVARIANTS RunTellsTheOutcome PostActionsRunOnce OveradmissionIsPaidFor
PROPERTY RunsAreClosed
CHECK_DEADLOCK FALSE
