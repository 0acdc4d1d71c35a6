\* One warehouse under every caller: update, events, corruption, history
\* replacement, reset and restart in any order.
CONSTANTS
  Product = {"p1"}
  ReconcileBase = 100
  Missing = Missing
  Sku = {"sku1", "sku2"}
  Catalogue <- MCCatalogue
  Boot <- MCBoot
  Writable = TRUE
  UpdateRequests <- MCUpdateRequests
  EventRequests <- MCEventRequests
  CorruptionRequests <- MCCorruptionRequests
  OlderEvents <- MCOlderEvents
  Times = {0, 2}
SPECIFICATION Spec
INVARIANTS TypeOK TipIsLastEvent UniqueEventIds IdsBoundedByCursor OnlyUpdatesBreakTheOrder
PROPERTIES RevisionsAreLogged ImplementsLedger
