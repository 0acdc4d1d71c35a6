---------------------------- MODULE WarehouseOps ----------------------------
(***************************************************************************)
(* What one warehouse does to one SKU (warehouse/store.py, models.py): the *)
(* data it keeps, when a request is accepted and what it leaves behind.    *)
(* Snapshot ids, checksums, sync status, data quality and the free-text    *)
(* fields are left out: no decision of the program reads them.             *)
(***************************************************************************)
EXTENDS Integers, Sequences, FiniteSets, Functions

CONSTANTS
  Product,       \* product identities: sku, name and barcode together
  ReconcileBase, \* below it: ids of catalogue, scenario and external events
  Missing        \* what a store holds for a SKU it does not know

(* models.Inventory: "available" is on_hand - reserved and carries nothing. *)
Inventory == {i \in [on_hand : Nat, reserved : Nat] : i.reserved <= i.on_hand}

(* models.InventoryEvent.  "opening" says that the reference marks opening *)
(* stock; "at" is processed_at.  Ids are numbers so that the order of      *)
(* equal timestamps, which the code takes from the id, is defined.         *)
Event == [id : Nat, delta : Int, opening : BOOLEAN, at : Nat]

(* models.InventoryRecord *)
Record == [product : Product, inventory : Inventory, version : Nat,
           cursor : Nat, last : Event]

(* self._records[sku] and self._event_history[sku] *)
Entry == [rec : Record, hist : Seq(Event) \ {<<>>}]

ASSUME WarehouseAssumption ==
  /\ ReconcileBase \in Nat
  /\ Missing \notin Entry

EventIds(h) == {e.id : e \in Range(h)}

UniqueIds(h) == \A i, j \in DOMAIN h : h[i].id = h[j].id => i = j

Chronological(h) == \A i, j \in DOMAIN h : i < j => h[i].at <= h[j].at

-----------------------------------------------------------------------------
(* PUT /inventory/{sku} *)

UpdateRequest == [expected : Nat, target : Nat, inventory : Inventory]

(* Faulty variants, here and below, are what TLC must tell from the code:  *)
(* the version may move backwards; the observed version is not compared;   *)
(* the last write wins.                                                    *)
UpdateOutcomeBackwards(rec, req, writable) ==
  IF ~writable THEN "not_writable"
  ELSE IF req.expected # rec.version THEN "version_conflict"
  ELSE "updated"

UpdateOutcomeUnguarded(rec, req, writable) ==
  IF ~writable THEN "not_writable"
  ELSE IF req.target < rec.version THEN "target_version"
  ELSE IF req.target = rec.version THEN
    IF req.inventory # rec.inventory THEN "same_version_inventory"
    ELSE "unchanged"
  ELSE "updated"

UpdateOutcomeLastWins(rec, req, writable) ==
  IF writable THEN "updated" ELSE "not_writable"

(* The outcome of WarehouseStore.update, in the order of its guards. *)
UpdateOutcome(rec, req, writable) ==
  IF ~writable THEN "not_writable"
  ELSE IF req.expected # rec.version THEN "version_conflict"
  ELSE IF req.target < rec.version THEN "target_version"
  ELSE IF req.target = rec.version THEN
    IF req.inventory # rec.inventory THEN "same_version_inventory"
    ELSE "unchanged"
  ELSE "updated"

(* Faulty: the adjustment is not measured. *)
ReconcileEventUnmeasured(rec, req, now) ==
  [id |-> ReconcileBase + rec.cursor + 1, delta |-> 0, opening |-> FALSE,
   at |-> now]

(* The event update() appends: its id counts from the local cursor, its    *)
(* delta is measured from the inventory that happens to be stored, and it  *)
(* is stamped with the warehouse's own clock.                              *)
ReconcileEvent(rec, req, now) ==
  [id |-> ReconcileBase + rec.cursor + 1,
   delta |-> req.inventory.on_hand - rec.inventory.on_hand,
   opening |-> FALSE,
   at |-> now]

(* Faulty: the record keeps its old last event; the cursor stays. *)
AfterUpdateOldTip(e, req, now) ==
  LET ev == ReconcileEvent(e.rec, req, now)
  IN  [rec |-> [e.rec EXCEPT !.inventory = req.inventory,
                             !.version = req.target, !.cursor = @ + 1],
       hist |-> Append(e.hist, ev)]

AfterUpdateOldCursor(e, req, now) ==
  LET ev == ReconcileEvent(e.rec, req, now)
  IN  [rec |-> [e.rec EXCEPT !.inventory = req.inventory,
                             !.version = req.target, !.last = ev],
       hist |-> Append(e.hist, ev)]

AfterUpdate(e, req, now) ==
  LET ev == ReconcileEvent(e.rec, req, now)
  IN  [rec |-> [e.rec EXCEPT !.inventory = req.inventory,
                             !.version = req.target,
                             !.cursor = @ + 1,
                             !.last = ev],
       hist |-> Append(e.hist, ev)]

-----------------------------------------------------------------------------
(* POST /simulation/inventory/{sku}/event; target = expected + 1 *)

EventRequest == {r \in [expected : Nat, event : Event] : r.event.delta # 0}

(* Faulty: reserved stock is not protected; an event is taken twice, or    *)
(* with a stamp before the last one's.                                     *)
EventAcceptedBelowReserved(e, req) ==
  /\ req.expected = e.rec.version
  /\ req.event.id \notin EventIds(e.hist)
  /\ req.event.at >= e.rec.last.at
  /\ e.rec.inventory.on_hand + req.event.delta >= 0

EventAcceptedTwice(e, req) ==
  /\ req.expected = e.rec.version
  /\ req.event.at >= e.rec.last.at
  /\ e.rec.inventory.on_hand + req.event.delta >= e.rec.inventory.reserved

EventAcceptedAnytime(e, req) ==
  /\ req.expected = e.rec.version
  /\ req.event.id \notin EventIds(e.hist)
  /\ e.rec.inventory.on_hand + req.event.delta >= e.rec.inventory.reserved

EventAccepted(e, req) ==
  /\ req.expected = e.rec.version
  /\ req.event.id \notin EventIds(e.hist)
  /\ req.event.at >= e.rec.last.at
  /\ e.rec.inventory.on_hand + req.event.delta >= e.rec.inventory.reserved

AfterEvent(e, req) ==
  [rec |-> [e.rec EXCEPT !.inventory.on_hand = @ + req.event.delta,
                         !.version = @ + 1,
                         !.cursor = @ + 1,
                         !.last = req.event],
   hist |-> Append(e.hist, req.event)]

-----------------------------------------------------------------------------
(* POST /simulation/inventory/{sku}/corrupt *)

CorruptionRequest == [expected : Nat, on_hand : Nat]

CorruptionAccepted(e, req) ==
  /\ req.expected = e.rec.version
  /\ req.on_hand # e.rec.inventory.on_hand
  /\ req.on_hand >= e.rec.inventory.reserved

AfterCorruption(e, req) == [e EXCEPT !.rec.inventory.on_hand = req.on_hand]

-----------------------------------------------------------------------------
(* POST /simulation/inventory/{sku}/history *)

HistoryRequest ==
  {r \in [expectedLast : Nat, events : Seq(Event) \ {<<>>}] :
     UniqueIds(r.events) /\ Chronological(r.events)}

HistoryAccepted(e, req) ==
  /\ req.expectedLast = e.rec.last.id
  /\ req.events[Len(req.events)] = e.rec.last

AfterHistory(e, req) == [e EXCEPT !.hist = req.events]

-----------------------------------------------------------------------------
(* GET /inventory/{sku}/events: the last "limit" events.  Every reader     *)
(* sorts them again, so the answer is the set of them.                     *)
RecentEvents(h, limit) ==
  {h[i] : i \in {j \in DOMAIN h : j > Len(h) - limit}}

=============================================================================
