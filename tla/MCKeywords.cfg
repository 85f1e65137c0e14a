CONSTANTS
    Workers = {w1, w2}
    LongSize = 64
    WordSize = 16
    ByteSize = 4
    RealWords = {}
    FrameNumbers = {5}
    IntegerOf <- MCIntegerOf
    ToString_ <- MCToString
    Requests <- MCRequests
    Entries <- MCEntries
    TypeOf <- MCTypeOf
    AccessOf <- MCAccessOf
    Initial <- MCInitial
    SignalsOf <- MCSignalsOf

SPECIFICATION Spec

INVARIANTS TypeOK CallInv WriteBackKeepsNumber
PROPERTIES ImplementsStore EveryRequestAnswered
