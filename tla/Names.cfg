\* Two zones, one user, creations, a rename and a deletion on two names.
CONSTANTS
    Zone = {z1, z2}
    User = {u}
    Name = {n1, n2}
    NSlot = 2
    Creation = {c1, c2}
    Deletion = {d}
    Renaming = {r}
    NoName = noname
    NoRole = norole
    Free = free
    MaxTry = 1
    MaxCrash = 0
SPECIFICATION Spec
SYMMETRY Symmetry
INVARIANTS TypeOK OneZonePerName NamesStayTaken ZoneTablesAgree
CHECK_DEADLOCK FALSE
