--------------------------- MODULE WarehouseStore ---------------------------
(***************************************************************************)
(* One warehouse service: WarehouseStore of warehouse/store.py behind the  *)
(* routes of warehouse/app.py.  Every method runs under one lock, so every *)
(* request is one step; a request the code rejects changes nothing and is  *)
(* a stuttering step.  The requests come from small constant sets: any     *)
(* caller may send any of them at any time.                                *)
(***************************************************************************)
EXTENDS WarehouseOps

CONSTANTS
  Sku,
  Catalogue,          \* what load_inventory_records builds without a scenario
  Boot,               \* the same with this warehouse's scenario overlay
  Writable,
  UpdateRequests,     \* the requests callers send
  EventRequests,
  CorruptionRequests,
  OlderEvents,        \* events a caller may write into a replaced history
  Times               \* readings of the warehouse's clock

ASSUME StoreAssumption ==
  /\ Catalogue \in [Sku -> Entry]
  /\ Boot \in [Sku -> Entry \cup {Missing}]
  /\ Writable \in BOOLEAN
  /\ UpdateRequests \subseteq UpdateRequest
  /\ EventRequests \subseteq EventRequest
  /\ CorruptionRequests \subseteq CorruptionRequest
  /\ OlderEvents \subseteq Event
  /\ Times \subseteq Nat

(* What the loader leaves of the data files: the last event is the last of *)
(* a history in the order of time (loader.py:48-59, 132-147), and the      *)
(* files repeat no id.                                                     *)
ASSUME LoaderAssumption ==
  \A s \in Sku : \A e \in {Catalogue[s], Boot[s]} \ {Missing} :
    /\ e.hist[Len(e.hist)] = e.rec.last
    /\ UniqueIds(e.hist) /\ Chronological(e.hist)
    /\ \A i \in DOMAIN e.hist : e.hist[i].id < ReconcileBase

(* Nobody but update() makes an id of the form evt-reconcile-... *)
ASSUME ForeignIdsAssumption ==
  /\ \A r \in EventRequests : r.event.id < ReconcileBase
  /\ \A e \in OlderEvents : e.id < ReconcileBase

VARIABLE shelf \* self._records and self._event_history, by SKU

vars == shelf

Known(s) == shelf[s] # Missing

TypeOK == shelf \in [Sku -> Entry \cup {Missing}]

Init == shelf = Boot

Update(s, req, now) ==
  /\ Known(s)
  /\ UpdateOutcome(shelf[s].rec, req, Writable) = "updated"
  /\ shelf' = [shelf EXCEPT ![s] = AfterUpdate(@, req, now)]

SimulationApplyEvent(s, req) ==
  /\ Known(s)
  /\ EventAccepted(shelf[s], req)
  /\ shelf' = [shelf EXCEPT ![s] = AfterEvent(@, req)]

SimulationCorrupt(s, req) ==
  /\ Known(s)
  /\ CorruptionAccepted(shelf[s], req)
  /\ shelf' = [shelf EXCEPT ![s] = AfterCorruption(@, req)]

(* The histories a caller sends: what is left when the oldest events are   *)
(* dropped, and the last event behind one that was never processed here.   *)
Replacements(e) ==
  {[expectedLast |-> e.rec.last.id, events |-> es] :
     es \in {SubSeq(e.hist, i, Len(e.hist)) : i \in DOMAIN e.hist}
            \cup {<<older, e.rec.last>> : older \in OlderEvents}}

SimulationReplaceHistory(s) ==
  /\ Known(s)
  /\ \E req \in Replacements(shelf[s]) :
       /\ req \in HistoryRequest
       /\ HistoryAccepted(shelf[s], req)
       /\ shelf' = [shelf EXCEPT ![s] = AfterHistory(@, req)]

(* simulation_reset: every SKU at once, and never the scenario overlay *)
SimulationReset == shelf' = Catalogue

(* The records live in memory: a new process loads the files again. *)
Restart == shelf' = Boot

Next ==
  \/ \E s \in Sku :
       \/ \E req \in UpdateRequests, now \in Times : Update(s, req, now)
       \/ \E req \in EventRequests : SimulationApplyEvent(s, req)
       \/ \E req \in CorruptionRequests : SimulationCorrupt(s, req)
       \/ SimulationReplaceHistory(s)
  \/ SimulationReset
  \/ Restart

Spec == Init /\ [][Next]_vars

-----------------------------------------------------------------------------
(* Safety *)

(* The record's last_event is the last event of the history the same       *)
(* warehouse serves (store.py:188-189, 270-271, 323).  The agent relies on *)
(* it when it accepts a history as an explanation of a record.             *)
TipIsLastEvent ==
  \A s \in Sku : Known(s) =>
    shelf[s].hist[Len(shelf[s].hist)] = shelf[s].rec.last

(* Event ids are unique in a SKU's history (warehouse_rules.md:157), though *)
(* update() makes its id from the cursor and never looks at the history.   *)
UniqueEventIds == \A s \in Sku : Known(s) => UniqueIds(shelf[s].hist)

(* Why they are: an id made by update() never exceeds the local cursor.    *)
IdsBoundedByCursor ==
  \A s \in Sku : Known(s) =>
    \A i \in DOMAIN shelf[s].hist :
      LET e == shelf[s].hist[i]
      IN  e.id < ReconcileBase \/ e.id <= ReconcileBase + shelf[s].rec.cursor

(* Between two loads of the files, a new logical revision and exactly one  *)
(* new, never used event come together and neither ever comes alone, so    *)
(* versions and cursors never move backwards (warehouse_rules.md:62, 174). *)
RevisionLogged(old, new) ==
  \/ /\ new.rec.version > old.rec.version
     /\ new.rec.cursor = old.rec.cursor + 1
     /\ new.rec.last.id \notin EventIds(old.hist)
     /\ new.hist = Append(old.hist, new.rec.last)
  \/ /\ new.rec.version = old.rec.version
     /\ new.rec.cursor = old.rec.cursor
     /\ new.rec.last = old.rec.last

RevisionsAreLogged ==
  [][\/ shelf' \in {Catalogue, Boot}
     \/ \A s \in Sku : Known(s) => RevisionLogged(shelf[s], shelf'[s])]_vars

(* "Event history must remain ordered by processing sequence"              *)
(* (warehouse_rules.md:163), and every reader sorts it by processed_at     *)
(* (evidence.py:478).  Whenever two events of a history, of whatever       *)
(* origin, stand against the order of time, some update() between them, or *)
(* the later one itself, was stamped before the event it follows, because  *)
(* it takes its own clock and does not look (store.py:147).  An event from *)
(* outside is compared with the record's last event only (store.py:230),   *)
(* so two of them may well be out of order, but only across such an        *)
(* update; while no update is early, the history is chronological.         *)
EarlyUpdate(h, k) == h[k].id >= ReconcileBase /\ h[k].at < h[k - 1].at

InOrderButForUpdates(h) ==
  \A i, j \in DOMAIN h :
    (i < j /\ h[j].at < h[i].at) => \E k \in (i + 1)..j : EarlyUpdate(h, k)

OnlyUpdatesBreakTheOrder ==
  \A s \in Sku : Known(s) => InOrderButForUpdates(shelf[s].hist)
-----------------------------------------------------------------------------
(* The ledger behind the store: what the events of a history add up to     *)

PostedTotal(h) == SumFunction([i \in DOMAIN h |-> h[i].delta])

(* What is known of an account; the marker of an unknown SKU is no such    *)
(* record.                                                                 *)
AccountState == [stock : Nat, posted : Int, revision : Nat]

ASSUME MissingIsNoAccount == Missing \notin AccountState

Account(e) ==
  IF e = Missing THEN Missing
  ELSE [stock |-> e.rec.inventory.on_hand,
        posted |-> PostedTotal(e.hist),
        revision |-> e.rec.version]

Book(sh) == [s \in Sku |-> Account(sh[s])]

Ledger == INSTANCE StockLedger WITH
  Accounts <- Sku, Unlisted <- Missing,
  Openings <- {Book(Catalogue), Book(Boot)}, book <- Book(shelf)

(* The store implements the ledger: update() and simulation_apply_event    *)
(* post exactly what they change, and no repair closes the gap a           *)
(* corruption opened (store.py:153-155 measures the delta from the         *)
(* corrupted value).                                                       *)
ImplementsLedger == Ledger!Spec
=============================================================================
