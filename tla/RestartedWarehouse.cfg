\* A warehouse is restarted between the read of a run and its write.
CONSTANTS
  Product = {"p1"}
  ReconcileBase = 100
  Missing = Missing
  Warehouse = {1, 2, 3}
  ReadOnly = {}
  Agent = {a1}
  Fleets <- WrittenSince
  HistoryLimit = 10
  Deltas <- OneMoreEvent
  MaxRuns = 1
  MaxLosses = 1
  MaxMiscounts = 0
  OpeningStock = 3
  Boots <- CatalogueBoots
  MaxRestarts = 1
  LastRun = 1
SPECIFICATION RestartSpec
CHECK_DEADLOCK FALSE
PROPERTIES WriteReplacesWhatWasRead
