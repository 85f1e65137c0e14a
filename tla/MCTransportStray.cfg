SPECIFICATION FairSpec
CONSTANTS
    c1 = c1
    s1 = s1
    Controllers <- MCControllers
    Senders <- MCSenders
    MaxFd = 1
    NSync = 1
    NDue = 2
INVARIANTS NoStrayFrames
