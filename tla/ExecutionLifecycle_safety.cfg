SPECIFICATION Spec
CONSTANTS
    e1 = e1 e2 = e2 alice = alice
    Teams = {alice}
    NoTeam = NoTeam
    Owner <- MCOwner
    Execs = {e1, e2}
    GlobalMax = 1
    TeamMax = 1
    Reapers = {"boot"}
    Faults = {"os"}
    MaxRetries = 1
    Stopping = {}
    Expiring = {e1, e2}
    Outliving = {e1, e2}
    MaxFaults = 1
    MaxCrashes = 1
    MaxTimeouts = 0
    MaxResumes = 1
    MaxPeerBoots = 0
INVARIANTS RunsOnce RunningHoldsASlot
PROPERTY ImplementsContract
SYMMETRY Symmetry
CHECK_DEADLOCK FALSE
