\* Wide pages that shift their slots; as in the code, INDEXMINL = INDEXMINR + 1.
CONSTANTS
    MaxKey = 64
    MaxPage = 25
    INDEXCOUNT = 8
    Pivot = {4, 14, 24, 32, 40, 50, 60}
    MaxTurns = 2
SPECIFICATION SweepSpec
VIEW SweepView
INVARIANT SweepsKeepTheTree
CHECK_DEADLOCK FALSE
