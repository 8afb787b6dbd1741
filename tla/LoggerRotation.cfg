\* Tables that only have a page 0: rotations, and writes during a checkpoint.
CONSTANTS
    NT = 2
    Page = {}
    Magic = m
    Val = {a, b}
    RecMax = 1
    MaxLog = 3
    MaxLateWrites = 1
SPECIFICATION MCFairSpec
INVARIANT YoungestLogDecides
PROPERTIES ImplementsAtomicCheckpoint WriteAhead CheckpointEnds
CHECK_DEADLOCK FALSE
