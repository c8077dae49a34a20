SPECIFICATION FairSpec
CONSTANTS
    planner = planner plan = plan coder = coder critic = critic release = release
    Nodes = {planner, plan, coder, critic, release}
    Kind <- MCKind
    Stages <- MCStages
    MaxIterations = 2
    MaxTools = 2
    MaxClicks = 2
    MaxTimeouts = 1
INVARIANTS StopWins GateHolds
PROPERTIES StopEndsTheRun AnswersAreHeard
CHECK_DEADLOCK FALSE
