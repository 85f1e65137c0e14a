SPECIFICATION NodeSpec
CONSTANTS
    main = main
    worker = worker
    Main = main
    Controllers <- MCControllers
    Senders <- MCSenders
    MaxFd = 1
    NSync = 0
    NDue = 1
INVARIANTS NoAbort
CHECK_DEADLOCK FALSE
