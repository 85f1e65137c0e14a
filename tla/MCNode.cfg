SPECIFICATION NodeSpec
CONSTANTS
    main = main
    worker = worker
    Main = main
    Controllers <- MCControllers
    Senders <- MCSenders
    MaxFd = 1
    NSync = 0
    NDue = 0
INVARIANTS NodeTypeOK NodeInv AbortOnlyAfterOverlap ExitIsClean
PROPERTIES ShutdownCompletes CooperativeExit
CHECK_DEADLOCK FALSE
