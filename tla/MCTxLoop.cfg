SPECIFICATION FairSpec
CONSTANTS
    w1 = w1
    p1 = p1
    Workers <- MCWorkers
    AsyncPdos <- MCAsyncPdos
    Period <- MCPeriod
    Commands <- MCCommands
    States <- MCStates
INVARIANTS TypeOK NoStateFromNowhere KeptUnlessExposed
PROPERTIES NoBurst EveryItemServed HeartbeatCatchesUp
