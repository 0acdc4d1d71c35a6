\* Events with equal stamps that were not processed in the order of their ids.
CONSTANTS
  Product = {"p1"}
  ReconcileBase = 100
  Missing = Missing
  Warehouse = {1, 2, 3}
  ReadOnly = {}
  Agent = {a1}
  Fleets <- TiedFleets
  HistoryLimit = 10
  Deltas <- NoDeltas
  MaxRuns = 1
  MaxLosses = 0
  MaxMiscounts = 0
  OpeningStock = 3
SPECIFICATION Spec
CHECK_DEADLOCK FALSE
INVARIANTS OnlyTrueStockIsSpread
