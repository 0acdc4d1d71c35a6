\* Two agents at once on moving warehouses, with an exchange that fails and
\* the PUT of it arriving at any later time.
CONSTANTS
  Product = {"p1"}
  ReconcileBase = 100
  Missing = Missing
  Warehouse = {1, 2, 3}
  ReadOnly = {}
  Agent = {a1, a2}
  Fleets <- ConflictFleets
  HistoryLimit = 10
  Deltas <- OneMoreEvent
  MaxRuns = 1
  MaxLosses = 1
  MaxMiscounts = 0
  OpeningStock = 3
SPECIFICATION Spec
SYMMETRY AgentSymmetry
CHECK_DEADLOCK FALSE
INVARIANTS ResolvedStands
PROPERTIES NoStockEventLost WriteReplacesWhatWasRead
