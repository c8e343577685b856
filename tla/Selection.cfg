SPECIFICATION Spec
CONSTANTS
    Bits <- MCBits
    Cases <- MCCases
    Junk = {0, 1}
INVARIANTS
    TypeOK
    MeaningKept
    WritesAnnounced
CHECK_DEADLOCK FALSE
