SPECIFICATION FairSpec
CONSTANTS
    first = first second = second one = one two = two Nobody = Nobody
    Calls = {first, second}
    Executions = {one, two}
    Payloads <- MCPayloads
    MaxActive = 1
    MaxFaults = 1
INVARIANTS PoolIsBounded NothingIsKilledInFlight CommandsRunOnce LeaksHaveACause RunsOnApproval
PROPERTY PoolComesToRest
