SPECIFICATION Spec
CONSTANTS
    FAT_LEN = 2
    NAME_LEN = 2
    BLOCK = 4
    Utilities = {u1, u2}
    Files <- AllFiles
    Length <- Lengths
    NoFile = NoFile
    MaxCommands = 4
INVARIANTS TypeOK ListSafe
SYMMETRY Interchangeable
PROPERTIES PutSpares SurplusBehind TablePromise
CHECK_DEADLOCK FALSE
