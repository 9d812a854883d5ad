SPECIFICATION ListSpec
CONSTANTS
    PageLen = 2
    MaxNotes = 4
    MaxSeq = 4
    None = None
INVARIANTS ListTypeOK Contiguous TokenOfList
CHECK_DEADLOCK FALSE
