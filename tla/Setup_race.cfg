SPECIFICATION HalfSpec
CONSTANTS
  rice = rice  oil = oil  box = box  sack = sack  can = can  dry = dry  wet = wet
  w1 = w1  w2 = w2  b1 = b1  b2 = b2  s1 = s1  s2 = s2  o1 = o1
  Category = {dry, wet}
  Item = {rice, oil}
  Pack = {box, sack, can}
  Supplier = {s1, s2}
  SupplierName = {"ace"}
  FirstCategories = {dry}
  FirstSuppliers <- OneSupplier
  Order = {o1}
  Unit = {"g", "kg"}
  PackyUnits = {"kg"}
  Sizes = {1, 2}
  Worker = {w1, w2}
  Branch = {b1, b2}
  FirstItems <- OneItem
  FirstPacks <- TwoPacks
  MaxCalls = 3
  MaxSection = 4
SYMMETRY Symmetry
INVARIANTS PastStandsAsRead  EveryoneHasAPlace
CHECK_DEADLOCK FALSE
