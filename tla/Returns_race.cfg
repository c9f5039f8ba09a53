CONSTANTS
    Kitchen = Kitchen
    Store = Store
    Quarantine = Quarantine
    Fish = Fish
    Ice = Ice
    sam = sam
    ana = ana
    r1 = r1
    a1 = a1
    a2 = a2
    w1 = w1
    w2 = w2
    Section = {Kitchen, Store}
    Item = {Fish, Ice}
    User = {sam, ana}
    Release = {r1}
    Ask = {a1, a2}
    Worker = {w1, w2}
    ReleaseOf <- OneFish
    Delivery <- OneDelivery
    Bodies <- Asked
    Storekeeper = {sam}
    Management = {sam, ana}
    Opening <- FishInQuarantine
    MaxMoves = 1
    MaxCalls = 6
SPECIFICATION Spec
INVARIANTS
    
    EveryLineLeavesOnce
    SuggestsOnlyFreeStock
SYMMETRY Symmetry
CHECK_DEADLOCK FALSE
