\* Two handlers, nested transactions and a checkpoint on two storages.
CONSTANTS
    Thread = {t1, t2}
    Backup = backup
    Nobody = nobody
    NS = 2
    Key = {k}
    Val = {a}
    NoVal = absent
    MaxRef = 2
    MaxCopies = 1
SPECIFICATION Spec
SYMMETRY Symmetry
INVARIANTS TypeOK NoDeadlock NoLockLeftBehind 
PROPERTIES OuterKeepsScope ImplementsSerialStore
