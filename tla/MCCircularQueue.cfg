CONSTANTS
    CQ_N = 4
    WORD = 16
    Elem = {0, 1}
    Zero = 0
    NONE = NONE
    MaxN = 3
    Unmasked = {}
SPECIFICATION FairSpec
INVARIANTS
    TypeOK
    NoPanic
    SlotsApart
    NoBlockNeverWaits
    PeekedIsNext
PROPERTIES
    ImplementsFifo
    WaitsOnlyWhenEmpty
CHECK_DEADLOCK FALSE
