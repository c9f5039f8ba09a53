SPECIFICATION Spec
CONSTANTS
  MinValue = 1
  MinPct = 40
  Reorder = 1
  Par = 2
  Planned = 1
  Opening = {0, 2}
  MaxDocs = 4
  LastTick = 3
  Suppliers <- MCSuppliers
  Reasons <- MCReasons
  Amounts = {100, 104, 112}
  WarnPct = 10
  MovePct = 5
  Window = 1
  LastDay = 2
  MaxRows = 3
  MaxPapers = 2
INVARIANT StoreDrawsNothing
CHECK_DEADLOCK FALSE
