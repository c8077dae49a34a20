SPECIFICATION ClientSpec
CONSTANTS
    e1 = e1 e2 = e2 e3 = e3 alice = alice bob = bob
    Execs = {e1, e2, e3}
    Teams = {alice, bob}
    NoTeam = NoTeam
    job = job admin = admin
    Cleaners = {job}
    Owner <- MCOwner
    GlobalMax = 2
    TeamMax = 1
    Endable = {}
    Expirable = {}
PROPERTY ImplementsSemaphore
CHECK_DEADLOCK FALSE
