\* Segments end anywhere.
SPECIFICATION Spec
CONSTANTS
    Scripts <- MCScripts
    SplitInsideField = TRUE
    SizeT = 256
    kMaxBufCount = 3
    WordSize = 2
    SpareWords = 1
CHECK_DEADLOCK FALSE
INVARIANTS
    RequestsMore
