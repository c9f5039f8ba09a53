SPECIFICATION Spec
CONSTANTS
    Limit = 1
    LastRow = 2
    MaxLoads = 3
    Person <- Login
    RoleOf <- Roles
    Paper = {1, 2}
    MaxReturned = 2
    Sheet = {1, 2}
    Shelf = {1}
    Figure = {0, 1}
    System = 1
    MaxPresses = 5
    Supplier = {"s1", "s2"}
    PlacedWith <- OrdersOf
    Lorries = 2
    MaxSubmits = 2
    Thing = {"A", "B"}
    MaxAnswers = 4
    AskItem = {"a", "b"}
    OnShelf <- Held
    MaxLines = 2
    MaxWanted = 1
    Needs = 2
    MaxAsks = 2
    BuyItem = {"x"}
    AskedFor <- Requests
    HasPack = {"x"}
    MaxHeld = 1
    MaxGiven = 1
    MaxRaises = 2
    MaxMoves = 1
INVARIANTS
    ListSaysWhatItShows
    
    
    SheetIsPosted
    DeliveryFiledOnce
    SubmittedAsShown
    AskedAsShown
    ShortfallBought
CHECK_DEADLOCK FALSE
