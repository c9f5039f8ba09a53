CONSTANTS
    Lounge = Lounge
    Store = Store
    Kitchen = Kitchen
    Rice = Rice
    Oil = Oil
    Free = Free
    w1 = w1
    w2 = w2
    Item = {Rice, Oil}
    Section = {Store, Kitchen}
    Location = {Lounge}
    Worker = {w1, w2}
    Document <- TwoItemDocuments
    MaxTx = 3
    None = None
    p1 = p1
    p2 = p2
    h1 = h1
    h2 = h2
    h3 = h3
    h4 = h4
    Connection = {p1, p2}
    Handler = {h1, h2, h3, h4}
    Counter = {h1, h2}
    NestedReads <- Reads
SPECIFICATION BothSpec
INVARIANTS
    CostMatchesBook
    
    StuckOnlyByOpens
PROPERTIES
    OnlyReceiptsMoveAverage
    StaleOnlyTogether
    EveryTransactionEnds
    EndsUnlessFullOfOpens
CHECK_DEADLOCK FALSE
