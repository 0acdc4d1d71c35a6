\* One agent, two runs, while the warehouses go on processing the stream and
\* one record is miscounted at any moment; histories are cut at three events.
CONSTANTS
  Product = {"p1"}
  ReconcileBase = 100
  Missing = Missing
  Warehouse = {1, 2, 3}
  ReadOnly = {}
  Agent = {a1}
  Fleets <- MovingFleets
  HistoryLimit = 3
  Deltas <- TwoMoreEvents
  MaxRuns = 2
  MaxLosses = 0
  MaxMiscounts = 1
  OpeningStock = 3
SPECIFICATION Spec
CHECK_DEADLOCK FALSE
INVARIANTS OnlyTrueStockIsSpread
PROPERTIES NoStockEventLost WriteReplacesWhatWasRead
