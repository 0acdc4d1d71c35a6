\* A warehouse one event behind, exchanges that fail, PUTs that arrive late
\* and warehouses that are restarted: an agent that is run often enough
\* brings the fleet together.
CONSTANTS
  Product = {"p1"}
  ReconcileBase = 100
  Missing = Missing
  Warehouse = {1, 2, 3}
  ReadOnly = {}
  Agent = {a1}
  Fleets <- StaleFleets
  HistoryLimit = 10
  Deltas <- NoDeltas
  MaxRuns = 4
  MaxLosses = 2
  MaxMiscounts = 0
  OpeningStock = 3
  Boots <- StaleFleets
  MaxRestarts = 2
  LastRun = 1
SPECIFICATION JustLoaded
CHECK_DEADLOCK FALSE
PROPERTIES EveryRunEnds Converges
