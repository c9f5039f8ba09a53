CONSTANTS
    Kitchen = Kitchen
    Quarantine = Quarantine
    Rice = Rice
    Oil = Oil
    keeper = keeper
    deputy = deputy
    chef = chef
    Store = Store
    r1 = r1
    r2 = r2
    k1 = k1
    k2 = k2
    w1 = w1
    w2 = w2
    Request = {r1, r2}
    Section = {Kitchen, Quarantine}
    Item = {Rice, Oil}
    User = {keeper, deputy, chef}
    Key = {k1, k2}
    Worker = {w1, w2}
    OwnerOf <- Owners
    SeenBy <- Insiders
    Storekeeper = {keeper, deputy}
    Asks <- TwoLines
    Wanted <- OrMore
    OpeningStock <- SomeRice
    MaxCalls = 3
    Gin = Gin
    Rum = Rum
    Bottle = Bottle
    Crate = Crate
    RumBottle = RumBottle
    o1 = o1
    s1 = s1
    s2 = s2
    h1 = h1
    h2 = h2
    Order = {o1}
    Supplier = {s1, s2}
    Handler = {h1, h2}
    Goods = {Gin, Rum}
    Pack = {Bottle, Crate, RumBottle}
    ItemOf <- Contents
    Size <- TwoInACrate
    Asked <- GinTwiceAndRum
    Delivered <- Lorries
    MaxJobs = 4
SPECIFICATION BothSpec
INVARIANTS
    KeyKeepsItsPromise
    OverdrawnOnlyTogether
    
PROPERTIES
    FollowsLifecycle
    OrderRunsItsCourse
SYMMETRY Symmetry
CHECK_DEADLOCK FALSE
