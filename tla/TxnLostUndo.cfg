\* A storage that is twice in a thread's context.
CONSTANTS
    Thread = {t1, t2}
    Backup = backup
    Nobody = nobody
    NS = 1
    Key = {k}
    Val = {a}
    NoVal = absent
    MaxRef = 1
    MaxCopies = 2
SPECIFICATION EarlySpec
SYMMETRY Symmetry
PROPERTY AbortRollsBack
