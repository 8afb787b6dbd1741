\* Slots for three: trees of three levels, merges that reach the root.
CONSTANTS
    MaxKey = 8
    MaxPage = 10
    INDEXCOUNT = 3
SPECIFICATION WalkSpec
VIEW WalkView
INVARIANTS TypeOK IsBTree NoPageLost WalkMissesNothing
PROPERTIES ImplementsKeySet ChangesAreDirty
