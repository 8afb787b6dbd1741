\* Few pages, fewer in the cache, an lru counter that wraps all the time.
CONSTANTS
    Page = {p1, p2, p3}
    Value = {a, b}
    cache_high = 2
    cache_low = 1
    LRUMAX = 4
    NoPage = NoPage
SPECIFICATION Spec
SYMMETRY Symmetry
VIEW View
INVARIANTS TypeOK ReadsLastWritten
PROPERTIES OnlyWalksTear KeepsRecentlyUsed CleanupMakesRoom
