SPECIFICATION Spec
CONSTANTS
    s1 = s1
    a = a
    b = b
    c = c
    i = i
    z = z
    Senders <- MCSenders
    Entries <- MCEntries
    TypeOf <- MCTypeOf
    AccessOf <- MCAccessOf
    Rpdos <- MCRpdos
    Tpdos <- MCTpdos
    SignalsOf <- MCSignalsOf
    CobIdOf <- MCCobIdOf
    SyncTpdos <- MCTpdos
    ByteBase = 2
    Payloads <- MCPayloads
    Ids <- MCIds
    Texts <- MCTexts
    MaxSnaps = 3
INVARIANTS IntegerRpdoDecodes
