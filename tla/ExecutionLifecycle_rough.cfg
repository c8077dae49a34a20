SPECIFICATION FairSpec
CONSTANTS
    e1 = e1 e2 = e2 alice = alice
    Teams = {alice}
    NoTeam = NoTeam
    Owner <- MCOwner
    Execs = {e1}
    GlobalMax = 2
    TeamMax = 2
    Reapers = {"boot", "peer", "stale"}
    Faults = {"redis", "db", "release"}
    MaxRetries = 1
    Stopping = {e1}
    Expiring = {}
    Outliving = {e1}
    MaxFaults = 1
    MaxCrashes = 1
    MaxTimeouts = 1
    MaxResumes = 0
    MaxPeerBoots = 1
INVARIANTS CompletedWasAnnounced StopIsHonored
PROPERTIES EveryExecutionEnds EverySlotReturns
CHECK_DEADLOCK FALSE
