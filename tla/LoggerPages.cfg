\* Torn tables: a crash between any two page writes of a checkpoint or a redo.
CONSTANTS
    NT = 2
    Page = {p}
    Magic = m
    Val = {a, b}
    RecMax = 1
    MaxLog = 2
    MaxLateWrites = 0
SPECIFICATION MCSpec
SYMMETRY Symmetry
INVARIANTS TypeOK RecordInPage CleanPagesOnDisk
PROPERTIES ImplementsAtomicCheckpoint PreparedIsStable
CHECK_DEADLOCK FALSE
