SPECIFICATION Spec
CONSTANTS
    NumFields = 2
    Values = {u, v}
    Blank = Blank
    Garbage = Garbage
    None = None
SYMMETRY Symmetry
INVARIANTS TypeOK CountersInSequence BackupIsUsed
PROPERTY IsARegister
