\* Several SKUs in one run, agents of every version, two calls that get no
\* answer at any point.
CONSTANTS
  Product = {"p1"}
  ReconcileBase = 100
  Missing = Missing
  Warehouse = {1, 2, 3}
  ReadOnly = {}
  Sku = {1, 2, 3}
  Shelves <- MCShelves
  AgentVersions = {1, 2, 3}
  HistoryLimit = 10
  MaxLosses = 2
SPECIFICATION Spec
INVARIANTS TypeOK ResolvedIsQuiet FailureStaysWithItsSku EveryConflictIsAnswered NaturalCost
PROPERTIES EachSkuIsReconciled
