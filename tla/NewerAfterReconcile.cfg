\* A resolved fleet, then one more event at one warehouse.
CONSTANTS
  Product = {"p1"}
  ReconcileBase = 100
  Missing = Missing
  Warehouse = {1, 2, 3}
  ReadOnly = {}
  Agent = {a1}
  Fleets <- StaleFleets
  HistoryLimit = 10
  Deltas <- OneMoreEvent
  MaxRuns = 2
  MaxLosses = 0
  MaxMiscounts = 0
  OpeningStock = 3
SPECIFICATION Spec
CHECK_DEADLOCK FALSE
INVARIANT NewerIsInvestigated
