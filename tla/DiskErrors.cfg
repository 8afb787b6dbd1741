\* The process goes on after a disk error.
CONSTANTS
    NT = 2
    Page = {}
    Magic = m
    Val = {a, b}
    RecMax = 1
    MaxLog = 2
    MaxLateWrites = 0
SPECIFICATION ErrorSpec
PROPERTIES DiskErrorAborts
CHECK_DEADLOCK FALSE
