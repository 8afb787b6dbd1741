\* Records of one, two and three slices that share pages of 104 bytes.
CONSTANTS
    k1 = k1
    k2 = k2
    long = long
    small = small
    half = half
    pages = pages
    Key = {k1, k2, long}
    Val = {small, half, pages}
    NoVal = absent
    KeyLen <- MCKeyLen
    ValLen <- MCValLen
    PAGEUSED = 104
SPECIFICATION Spec
VIEW View
INVARIANTS FindsLastPut SpaceIsKept RebuildFindsAll
