SPECIFICATION NodeSpec
CONSTANTS
    main = main
    worker = worker
    Main = main
    Controllers <- MCControllers
    Senders <- MCSenders
    MaxFd = 1
    NSync = 0
    NDue = 1
INVARIANTS ReadsInterruptible
CHECK_DEADLOCK FALSE
