-------------------------- MODULE MCWarehouseStore --------------------------
(***************************************************************************)
(* WarehouseStore for TLC: one SKU the scenario overlays and one it        *)
(* removes, a handful of requests around the loaded versions, and a clock  *)
(* that may read before or after the external events' stamps.              *)
(***************************************************************************)
EXTENDS WarehouseStore, TLC

Inv(n, r) == [on_hand |-> n, reserved |-> r]
Ev(id, d, opening, at) ==
  [id |-> id, delta |-> d, opening |-> opening, at |-> at]
Rec(inv, v, c, last) ==
  [product |-> CHOOSE p \in Product : TRUE, inventory |-> inv,
   version |-> v, cursor |-> c, last |-> last]

Loaded == LET e == Ev(0, 2, TRUE, 0)
          IN  [rec |-> Rec(Inv(2, 1), 1, 1, e), hist |-> <<e>>]

(* A scenario that is one event past the catalogue *)
Overlay == LET e == Ev(0, 2, TRUE, 0)  f == Ev(1, 1, FALSE, 1)
           IN  [rec |-> Rec(Inv(3, 1), 2, 2, f), hist |-> <<e, f>>]

MCCatalogue == [s \in Sku |-> Loaded]
MCBoot == [s \in Sku |-> IF s = "sku1" THEN Overlay ELSE Missing]

MCUpdateRequests ==
  [expected : 1..2, target : 1..3, inventory : {Inv(2, 1), Inv(3, 1)}]
MCEventRequests ==
  [expected : 1..3, event : {Ev(1, 1, FALSE, 1), Ev(2, -1, FALSE, 2)}]
MCCorruptionRequests == [expected : {2}, on_hand : {1, 3}]
MCOlderEvents == {Ev(0, 2, TRUE, 0)}
=============================================================================
