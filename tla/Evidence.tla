------------------------------ MODULE Evidence ------------------------------
(***************************************************************************)
(* Conflicts and evidence about one SKU: agent/detector.py and             *)
(* agent/evidence.py.  An assessment e has the records the agent observed, *)
(* e.obs, a function on the warehouses that know the SKU, and the event    *)
(* histories it could read, e.histories, a function on the investigated    *)
(* warehouses.  A finding of the code is membership in one of the sets     *)
(* below; evidence ids and prose are left out.                             *)
(***************************************************************************)
EXTENDS WarehouseOps, FiniteSetsExt

CONSTANT Warehouse  \* the configured warehouses, numbered in their sort order

ASSUME FleetAssumption ==
  Warehouse \subseteq Nat \ {0} /\ IsFiniteSet(Warehouse)

(* The values that field F takes among the observed records *)
Values(obs, F(_)) == {F(obs[w]) : w \in DOMAIN obs}

InventoryOf(r) == r.inventory
VersionOf(r) == r.version
CursorOf(r) == r.cursor
ProductOf(r) == r.product

Inventories(obs) == Values(obs, InventoryOf)
Versions(obs) == Values(obs, VersionOf)
Cursors(obs) == Values(obs, CursorOf)

Several(S) == \E x, y \in S : x # y

-----------------------------------------------------------------------------
(* detector._conflict_types *)

IdentityMismatch(obs) == Several(Values(obs, ProductOf))

MissingState(obs) == DOMAIN obs # Warehouse

Conflict(obs) ==
  \/ Several(Inventories(obs))
  \/ Several(Versions(obs))
  \/ Several(Cursors(obs))
  \/ IdentityMismatch(obs)
  \/ MissingState(obs)

-----------------------------------------------------------------------------
(* Agreement and relative progress *)

LogicalKey(r) == <<r.inventory, r.version, r.cursor, r.last>>

AgreementGroups(obs) ==
  {{v \in DOMAIN obs : LogicalKey(obs[v]) = LogicalKey(obs[w])} :
     w \in DOMAIN obs}

StateOf(obs, g) == obs[Min(g)]

Agreeing(obs) == {g \in AgreementGroups(obs) : Several(g)}

(* With no two warehouses in agreement only a state below every other one, *)
(* in version and in cursor, can be compared with.                         *)
ReferenceGroups(obs) ==
  IF Agreeing(obs) # {} THEN Agreeing(obs)
  ELSE {g \in AgreementGroups(obs) :
          \A o \in AgreementGroups(obs) \ {g} :
            /\ StateOf(obs, g).version < StateOf(obs, o).version
            /\ StateOf(obs, g).cursor < StateOf(obs, o).cursor}

AheadOf(obs, w, g) ==
  /\ w \notin g
  /\ \/ obs[w].version > StateOf(obs, g).version
     \/ obs[w].cursor > StateOf(obs, g).cursor

(* Strictly behind a group in both *)
BehindGroup(obs, g) ==
  {w \in DOMAIN obs \ g : /\ obs[w].version < StateOf(obs, g).version
                          /\ obs[w].cursor < StateOf(obs, g).cursor}

AheadWarehouses(obs) ==
  {w \in DOMAIN obs : \E g \in ReferenceGroups(obs) : AheadOf(obs, w, g)}

SameVersionDivergence(obs) ==
  /\ Several(Inventories(obs))
  /\ ~Several(Versions(obs))
  /\ ~Several(Cursors(obs))

-----------------------------------------------------------------------------
(* Replay of a history, given as a set of events *)

Precedes(a, b) == a.at < b.at \/ (a.at = b.at /\ a.id < b.id)

Earliest(h) == CHOOSE a \in h : \A b \in h \ {a} : Precedes(a, b)
Latest(h) == CHOOSE a \in h : \A b \in h \ {a} : Precedes(b, a)

Total(h) == MapThenSumSet(LAMBDA a : a.delta, h)

(* derive_on_hand_from_complete_history gives a value *)
Complete(h) == h # {} /\ Earliest(h).opening /\ Total(h) >= 0

After(h, id) == {b \in h : \E a \in h : a.id = id /\ Precedes(a, b)}

(* derive_state_extension_from_anchor gives a value for the history h and  *)
(* the anchor record r ...                                                 *)
Extends(h, r) ==
  /\ Cardinality({a \in h : a.id = r.last.id}) = 1
  /\ After(h, r.last.id) # {}
  /\ r.inventory.on_hand + Total(After(h, r.last.id)) >= 0

(* ... and the value and the last event are those of the newer record n *)
Explains(h, r, n) ==
  /\ r.inventory.on_hand + Total(After(h, r.last.id)) = n.inventory.on_hand
  /\ Latest(After(h, r.last.id)).id = n.last.id

-----------------------------------------------------------------------------
(* evidence._event_history_findings *)

Investigated(e) == DOMAIN e.histories

(* The pairs of an investigated newer warehouse and a reference group *)
NewerPairs(e) ==
  {p \in Investigated(e) \X ReferenceGroups(e.obs) :
     AheadOf(e.obs, p[1], p[2])}

Extensible(e, p) == Extends(e.histories[p[1]], StateOf(e.obs, p[2]))

(* Faulty: the tip alone explains a record; so does the stock alone. *)
ExplainedByTip(e, p) ==
  Latest(After(e.histories[p[1]], StateOf(e.obs, p[2]).last.id)).id
    = e.obs[p[1]].last.id

ExplainedByStock(e, p) ==
  LET r == StateOf(e.obs, p[2])
  IN  r.inventory.on_hand + Total(After(e.histories[p[1]], r.last.id))
        = e.obs[p[1]].inventory.on_hand

Explained(e, p) ==
  Explains(e.histories[p[1]], StateOf(e.obs, p[2]), e.obs[p[1]])

Extensions(e) ==
  {p \in NewerPairs(e) : Extensible(e, p) /\ Explained(e, p)}

Replays(e, w) == Total(e.histories[w]) = e.obs[w].inventory.on_hand

Supported(e) ==
  {w \in Investigated(e) : Complete(e.histories[w]) /\ Replays(e, w)}

Contradicted(e) ==
  {w \in Investigated(e) : Complete(e.histories[w]) /\ ~Replays(e, w)}
  \cup {p[1] : p \in {q \in NewerPairs(e) : Extensible(e, q) /\ ~Explained(e, q)}}

Insufficient(e) ==
  \/ \E w \in Investigated(e) : ~Complete(e.histories[w])
  \/ \E p \in NewerPairs(e) : ~Extensible(e, p)

EveryHistoryRead(e) == Investigated(e) = DOMAIN e.obs /\ Investigated(e) # {}

HistoriesAgree(e) ==
  EveryHistoryRead(e) /\ ~Several({e.histories[w] : w \in Investigated(e)})

(* Two valid branches from the same anchor event to different stock *)
CompetingBranches(e) ==
  \E p, q \in Extensions(e) :
    /\ StateOf(e.obs, p[2]).last.id = StateOf(e.obs, q[2]).last.id
    /\ e.obs[p[1]].inventory.on_hand # e.obs[q[1]].inventory.on_hand

HistoriesContradict(e) ==
  \/ EveryHistoryRead(e) /\ ~HistoriesAgree(e)
  \/ CompetingBranches(e)

=============================================================================
