\* One simulation of five rounds in any order while calls of the controller
\* and of the agent get no answer, with the stock of the catalogue or with
\* all of it reserved; injected events are stamped before the agent's clock.
CONSTANTS
  Product = {"p1"}
  ReconcileBase = 100
  Missing = Missing
  Warehouse = {1, 2, 3}
  ReadOnly = {}
  Sku = {1, 2, 3, 4, 5}
  Shelves <- MCShelves
  AgentVersions = {3}
  HistoryLimit = 10
  MaxLosses = 2
  Rounds = {"stale", "newer", "corruption", "incomplete", "branches"}
  Catalogues <- MCCatalogues
  Noon = 3
SPECIFICATION FairSim
INVARIANTS SimTypeOK NothingLeftBehind RecordedCost
PROPERTIES BaselineIsCurrent DisturbanceIsComplete PassedRoundIsRight RoundsAreGated EverySimulationPasses EverySimulationEnds
