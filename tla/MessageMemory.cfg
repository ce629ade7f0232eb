\* Segments end where fields do: the largest payload does not fit its memory.
SPECIFICATION Spec
CONSTANTS
    Scripts <- MCScripts
    SplitInsideField = FALSE
    SizeT = 256
    kMaxBufCount = 3
    WordSize = 2
    SpareWords = 1
CHECK_DEADLOCK FALSE
INVARIANTS
    MessageFits
