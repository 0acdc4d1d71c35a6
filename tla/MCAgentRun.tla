----------------------------- MODULE MCAgentRun -----------------------------
(***************************************************************************)
(* AgentRun for TLC: every SKU is in one of the states of the scenario     *)
(* files, on whichever warehouse.                                          *)
(***************************************************************************)
EXTENDS AgentRunRefinement

Opening == [id |-> 0, delta |-> 3, opening |-> TRUE, at |-> 0]
Posted(id, d) == [id |-> id, delta |-> d, opening |-> FALSE, at |-> 1]

SumOf(hist) == SumFunction([i \in DOMAIN hist |-> hist[i].delta])

(* A warehouse that processed hist and is off by error *)
Holding(hist, error) ==
  [rec |-> [product |-> "p1",
            inventory |-> [on_hand |-> SumOf(hist) + error, reserved |-> 1],
            version |-> Len(hist), cursor |-> Len(hist),
            last |-> hist[Len(hist)]],
   hist |-> hist]

Opened == Holding(<<Opening>>, 0)
Moved(d) == Holding(<<Opening, Posted(1, d)>>, 0)
Shortened == [Moved(2) EXCEPT !.hist = <<Posted(1, 2)>>]

(* What warehouse w has of a SKU whose odd one out is warehouse v *)
State(case, v, w) ==
  CASE case = "same" -> Opened
    [] case = "stale" -> IF w = v THEN Opened ELSE Moved(2)
    [] case = "newer" -> IF w = v THEN Moved(2) ELSE Opened
    [] case = "divergence" ->
         IF w = v THEN Holding(<<Opening, Posted(1, 2)>>, -1) ELSE Moved(2)
    [] case = "missing" -> IF w = v THEN Missing ELSE Opened
    [] case = "incomplete" -> IF w = v THEN Shortened ELSE Opened
    [] case = "branches" ->
         IF w = v THEN Opened ELSE Holding(<<Opening, Posted(w, w)>>, 0)

ShelfOf(case, odd) ==
  [w \in Warehouse |-> [s \in Sku |-> State(case[s], odd[s], w)]]

Cases == {"same", "stale", "newer", "divergence", "missing", "incomplete",
          "branches"}

(* Every pair of states of two SKUs beside a third that is consistent, and *)
(* the three conflicts of scenarios/mixed-conflicts: B stale, C newer, C   *)
(* divergent                                                               *)
MCShelves ==
  {ShelfOf(<<c[1], c[2], "same">>, [s \in Sku |-> 1 + s]) :
     c \in Cases \X Cases}
  \cup {ShelfOf(<<"stale", "newer", "divergence">>, <<2, 3, 3>>)}

(* What the promises presuppose holds of all of them. *)
ASSUME ShelvesAreEvident == \A sh \in MCShelves : EvidentShelf(sh)

=============================================================================
