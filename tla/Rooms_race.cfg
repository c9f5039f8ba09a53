CONSTANTS
    Main = Main
    Kitchen = Kitchen
    Beach = Beach
    Town = Town
    Galle = Galle
    fish = fish
    a1 = a1
    a2 = a2
    Section = {Main, Kitchen, Beach}
    Ware = {fish}
    Agent = {a1, a2}
    LocationOf <- TwoBranches
    Store = {Main}
    Qty = {1}
    OtherRows <- FoundMissing
    MaxOthers = 1
    MaxErrands = 4
    Gin = Gin
    Rum = Rum
    barman = barman
    manager = manager
    c1 = c1
    c2 = c2
    w1 = w1
    w2 = w2
    Count = {c1, c2}
    Item = {Gin, Rum}
    User = {barman, manager}
    Worker = {w1, w2}
    Kind = {"daily_critical", "weekly_full"}
    DailyKind = "daily_critical"
    Critical = {Gin}
    Management = {manager}
    OpeningStock <- TwoGin
    Batches <- GinAlone
    Moves <- OutAndIn
    MaxMoves = 1
    MaxLost = 1
    MaxDay = 2
    MaxCalls = 4
SPECIFICATION BothSpec
INVARIANTS
    WhatLeftArrives
    
    OneOpenPerKind
    VerifiedByAnother
PROPERTIES
    CountFindsTheLoss
SYMMETRY Symmetry
CHECK_DEADLOCK FALSE
