CONSTANTS
    CQ_N = 4
    WORD = 16
    Elem = {0, 1}
    Zero = 0
    NONE = NONE
    MaxN = 3
    Unmasked = {"peek_n"}
SPECIFICATION Spec
INVARIANT
    PeekAssertHolds
CHECK_DEADLOCK FALSE
