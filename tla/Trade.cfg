\* Two trades of two players over one thing, saves, dropped players, timeouts.
CONSTANTS
    a = a
    b = b
    g = g
    Role = {a, b}
    Goods = {g}
    Pairs <- MCPairs
    Owner <- MCOwner
    MaxTid = 2
    Savers = {b}
    MaxStamp = 2
SPECIFICATION Spec
INVARIANTS TypeOK GoodsAreConserved TradersAreLocked LocksAreReleased SavesAreAwaited DealIsAgreed
CHECK_DEADLOCK FALSE
CONSTRAINT Within
