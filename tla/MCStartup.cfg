SPECIFICATION Spec
CONSTANTS
    ByteSize = 8
    WordSize = 16
    DwordSize = 1024
    LongSize = 4096
    Base = 4
    Count = 2
    MaxSignals = 8
    LowerOf <- MCLowerOf
    IntegerOf <- MCIntegerOf
    DecimalOf <- MCDecimalOf
    RealWords <- MCRealWords
    IndexOf <- MCIndexOf
    SubOf <- MCSubOf
    ArgLists <- MCArgLists
    EdsFiles <- MCEdsFiles
    ConfigFiles <- MCConfigFiles
    Literals <- MCLiterals
INVARIANTS TypeOK InputsInv BuildInv ParsedMatchesText DictionaryMatchesInputs BuildMatchesDictionary
PROPERTIES MappingsKept StartupEndsUnlessFull
CHECK_DEADLOCK FALSE
