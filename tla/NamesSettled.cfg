\* Two creations of one name, a deletion, a restart: what is engaged is settled.
CONSTANTS
    Zone = {z1, z2}
    User = {u}
    Name = {n1}
    NSlot = 2
    Creation = {c1, c2}
    Deletion = {d}
    Renaming = {}
    NoName = noname
    NoRole = norole
    Free = free
    MaxTry = 2
    MaxCrash = 1
SPECIFICATION FairSpec
CHECK_DEADLOCK FALSE
PROPERTY CreationIsSettled
