SPECIFICATION Spec
CONSTANTS
    Limit = 1
    LastRow = 1
    MaxLoads = 1
    Person <- Login
    RoleOf <- Roles
    Paper = {1}
    MaxReturned = 2
    Sheet = {1}
    Shelf = {1, 2}
    Figure = {0, 1}
    System = 1
    MaxPresses = 5
    Supplier = {"s1", "s2"}
    PlacedWith <- OrdersOf
    Lorries = 1
    MaxSubmits = 1
    Thing = {"A", "B"}
    MaxAnswers = 1
    AskItem = {"a", "b"}
    OnShelf <- Held
    MaxLines = 1
    MaxWanted = 1
    Needs = 1
    MaxAsks = 1
    BuyItem = {"x"}
    AskedFor <- Requests
    HasPack = {"x"}
    MaxHeld = 1
    MaxGiven = 1
    MaxRaises = 0
    MaxMoves = 0
INVARIANTS
    BlankIsNotPosted
CHECK_DEADLOCK FALSE
