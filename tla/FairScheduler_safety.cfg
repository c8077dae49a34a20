SPECIFICATION FairSpec
CONSTANTS
    e1 = e1 e2 = e2 e3 = e3 alice = alice bob = bob
    Execs = {e1, e2}
    Teams = {alice, bob}
    NoTeam = NoTeam
    job = job admin = admin
    Cleaners = {job, admin}
    Owner <- MCOwner
    GlobalMax = 1
    TeamMax = 1
    Endable = {e1}
    Expirable = {e1}
INVARIANTS TypeOK WithinLimits SlotsAreTracked CountersBalance
PROPERTIES CleanupSparesTheLiving AbandonedSlotsComeBack
CHECK_DEADLOCK FALSE
