---------------------------- MODULE MCSimulation ----------------------------
(***************************************************************************)
(* Simulation for TLC: the five SKUs that are disturbed, with the stock of *)
(* the catalogue (data/inventory.json), and shelves as an earlier          *)
(* simulation may leave them.                                              *)
(***************************************************************************)
EXTENDS Simulation

Opening(s) == [id |-> 0, delta |-> 90 + 10 * s, opening |-> TRUE, at |-> 0]

Loaded(s) ==
  [rec |-> [product |-> "p1",
            inventory |-> [on_hand |-> 90 + 10 * s, reserved |-> s],
            version |-> 1, cursor |-> s, last |-> Opening(s)],
   hist |-> <<Opening(s)>>]

Loose == [s \in Sku |-> Loaded(s)]

(* All stock is reserved: a disturbance that takes some is refused.  Of    *)
(* SKU 3 there is not even enough to ask for a corruption.                 *)
Tight ==
  [s \in Sku |->
    LET stock == IF s = 3 THEN 4 ELSE 90 + 10 * s
    IN  [Loaded(s) EXCEPT !.rec.inventory =
           [on_hand |-> stock, reserved |-> stock]]]

MCCatalogues == {Loose, Tight}

Clear == [w \in Warehouse |-> Loose]

(* One warehouse has a stock event on top that the others do not have. *)
Extra(s) == [id |-> 9, delta |-> 7, opening |-> FALSE, at |-> 0]

Disturbed ==
  [Clear EXCEPT ![2][2] = AfterEvent(@, [expected |-> 1, event |-> Extra(2)])]

MCShelves == {Clear, Disturbed}

=============================================================================
