\* One agent, two runs, on every fleet that is at most two events apart, with
\* at most one miscounted warehouse and any histories shortened; every fleet
\* whose warehouses an earlier run may have written at different times, so
\* that one event id stands for several events; and any miscounts at one
\* common revision.
CONSTANTS
  Product = {"p1"}
  ReconcileBase = 100
  Missing = Missing
  Warehouse = {1, 2, 3}
  ReadOnly = {}
  Agent = {a1}
  Fleets <- StaticFleets
  HistoryLimit = 10
  Deltas <- NoDeltas
  MaxRuns = 2
  MaxLosses = 0
  MaxMiscounts = 0
  OpeningStock = 3
SPECIFICATION Spec
CHECK_DEADLOCK FALSE
INVARIANTS TypeOK OnlyTrueStockIsSpread NewerIsNotOverwritten PromisedFleetsAreResolved
PROPERTY SecondRunFindsNothing
