-------------------------- MODULE WarehouseOpsProofs --------------------------
(***************************************************************************)
(* Lemmas about what one request does to one entry, for the warehouse      *)
(* alone (WarehouseStoreProofs) and for the fleet (FleetProofs).           *)
(***************************************************************************)
EXTENDS WarehouseOps, TLAPS

-----------------------------------------------------------------------------
(* One entry *)

(* What every mutation preserves of an entry *)
Bounded(e) ==
  \A i \in DOMAIN e.hist :
    e.hist[i].id < ReconcileBase \/ e.hist[i].id <= ReconcileBase + e.rec.cursor

Sealed(e) ==
  /\ e \in Entry
  /\ e.hist[Len(e.hist)] = e.rec.last
  /\ UniqueIds(e.hist)
  /\ Bounded(e)

LEMMA EventsOfAHistory ==
  ASSUME NEW h \in Seq(Event), NEW i \in DOMAIN h
  PROVE  h[i] \in Event /\ h[i].id \in Nat
<1>1. h[i] \in Event
  OBVIOUS
<1> QED BY <1>1 DEF Event

(* Appending an event with a new id keeps the ids unique. *)
LEMMA AppendUnique ==
  ASSUME NEW h \in Seq(Event), NEW ev \in Event, UniqueIds(h),
         ev.id \notin EventIds(h)
  PROVE  UniqueIds(Append(h, ev))
<1> DEFINE g == Append(h, ev)
<1>1. Len(g) = Len(h) + 1 /\ DOMAIN g = 1..(Len(h) + 1) /\ DOMAIN h = 1..Len(h)
  OBVIOUS
<1>2. \A i \in 1..Len(h) : g[i] = h[i]
  OBVIOUS
<1>3. g[Len(h) + 1] = ev
  OBVIOUS
<1>4. \A i \in 1..Len(h) : h[i].id # ev.id
  BY <1>1 DEF EventIds, Range
<1>5. Len(h) \in Nat
  OBVIOUS
<1> HIDE DEF g
<1>6. SUFFICES ASSUME NEW i \in 1..(Len(h) + 1), NEW j \in 1..(Len(h) + 1),
                      g[i].id = g[j].id
               PROVE  i = j
  BY <1>1 DEF UniqueIds, g
<1>7. CASE i \in 1..Len(h) /\ j \in 1..Len(h)
  BY <1>1, <1>2, <1>6, <1>7 DEF UniqueIds
<1>8. CASE i = Len(h) + 1 /\ j \in 1..Len(h)
  BY <1>2, <1>3, <1>4, <1>6, <1>8
<1>9. CASE i \in 1..Len(h) /\ j = Len(h) + 1
  BY <1>2, <1>3, <1>4, <1>6, <1>9
<1> QED BY <1>5, <1>7, <1>8, <1>9

(* The id of a reconciliation event is new to the history it joins. *)
LEMMA ReconcileIdIsNew ==
  ASSUME NEW e, Sealed(e), NEW req \in UpdateRequest, NEW now \in Nat
  PROVE  ReconcileEvent(e.rec, req, now).id \notin EventIds(e.hist)
<1>1. \A i \in DOMAIN e.hist : e.hist[i].id \in Nat
  <2>1. e.hist \in Seq(Event)
    BY DEF Sealed, Entry
  <2> QED BY <2>1, EventsOfAHistory
<1>2. e.rec.cursor \in Nat /\ ReconcileBase \in Nat
  BY WarehouseAssumption DEF Sealed, Entry, Record
<1>3. \A i \in DOMAIN e.hist : e.hist[i].id # ReconcileBase + e.rec.cursor + 1
  BY <1>1, <1>2 DEF Sealed, Bounded
<1> QED BY <1>3 DEF ReconcileEvent, EventIds, Range

LEMMA NewRevisionIsARecord ==
  ASSUME NEW r \in Record, NEW inv \in Inventory, NEW v \in Nat, NEW ev \in Event
  PROVE  [r EXCEPT !.inventory = inv, !.version = v, !.cursor = r.cursor + 1,
                   !.last = ev] \in Record
<1>1. r.cursor + 1 \in Nat
  BY DEF Record
<1> QED BY <1>1 DEF Record

LEMMA ReconcileEventType ==
  ASSUME NEW e \in Entry, NEW req \in UpdateRequest, NEW now \in Nat
  PROVE  ReconcileEvent(e.rec, req, now) \in Event
<1>1. e.rec.cursor \in Nat /\ ReconcileBase \in Nat
  BY WarehouseAssumption DEF Entry, Record
<1>2. e.rec.inventory.on_hand \in Nat /\ req.inventory.on_hand \in Nat
  BY DEF Entry, Record, UpdateRequest, Inventory
<1> QED BY <1>1, <1>2 DEF ReconcileEvent, Event

(* A written entry is an entry. *)
LEMMA UpdateKeepsEntry ==
  ASSUME NEW e \in Entry, NEW req \in UpdateRequest, NEW now \in Nat
  PROVE  /\ AfterUpdate(e, req, now) \in Entry
         /\ AfterUpdate(e, req, now).hist
              = Append(e.hist, ReconcileEvent(e.rec, req, now))
         /\ AfterUpdate(e, req, now).rec.last = ReconcileEvent(e.rec, req, now)
         /\ AfterUpdate(e, req, now).rec.cursor = e.rec.cursor + 1
<1> DEFINE ev == ReconcileEvent(e.rec, req, now)
           f == AfterUpdate(e, req, now)
<1>1. ev \in Event
  BY ReconcileEventType
<1>2. e.hist \in Seq(Event) /\ e.hist # <<>> /\ e.rec \in Record
  BY DEF Entry
<1>3. f.hist = Append(e.hist, ev) /\ f.rec.last = ev /\ f.rec.cursor = e.rec.cursor + 1
  BY <1>2 DEF AfterUpdate, Record
<1>4. f.rec \in Record
  <2>1. f.rec = [e.rec EXCEPT !.inventory = req.inventory,
                              !.version = req.target,
                              !.cursor = e.rec.cursor + 1, !.last = ev]
    BY <1>2 DEF AfterUpdate, Record
  <2>2. req.inventory \in Inventory /\ req.target \in Nat
    BY DEF UpdateRequest
  <2>3. [e.rec EXCEPT !.inventory = req.inventory, !.version = req.target,
                      !.cursor = e.rec.cursor + 1, !.last = ev] \in Record
    <3> HIDE DEF ev, f
    <3> QED BY <1>1, <1>2, <2>2, NewRevisionIsARecord
  <2> QED BY <2>1, <2>3
<1>5. f.hist \in Seq(Event) \ {<<>>}
  BY <1>1, <1>2, <1>3
<1>6. f \in Entry
  BY <1>4, <1>5 DEF AfterUpdate, Entry
<1> QED BY <1>3, <1>6

LEMMA UpdateSeals ==
  ASSUME NEW e, Sealed(e), NEW req \in UpdateRequest, NEW now \in Nat
  PROVE  Sealed(AfterUpdate(e, req, now))
<1> DEFINE ev == ReconcileEvent(e.rec, req, now)
           f == AfterUpdate(e, req, now)
<1>1. e \in Entry /\ ev \in Event /\ ev.id \notin EventIds(e.hist)
  BY ReconcileEventType, ReconcileIdIsNew DEF Sealed
<1>2. e.hist \in Seq(Event) /\ e.hist # <<>> /\ e.rec \in Record
  BY DEF Sealed, Entry
<1>3. f.hist = Append(e.hist, ev) /\ f.rec.last = ev /\ f.rec.cursor = e.rec.cursor + 1
  BY <1>1, UpdateKeepsEntry
<1>4. f \in Entry
  BY <1>1, UpdateKeepsEntry
<1>5. f.hist[Len(f.hist)] = f.rec.last
  BY <1>1, <1>2, <1>3
<1>6. UniqueIds(f.hist)
  BY <1>1, <1>2, <1>3, AppendUnique DEF Sealed
<1>7. Bounded(f)
  <2>1. \A i \in DOMAIN e.hist : e.hist[i].id \in Nat
    BY <1>2, EventsOfAHistory
  <2>2. e.rec.cursor \in Nat /\ ReconcileBase \in Nat
    BY <1>2, WarehouseAssumption DEF Record
  <2>3. ev.id = ReconcileBase + e.rec.cursor + 1
    BY DEF ReconcileEvent
  <2>4. \A i \in DOMAIN e.hist :
          e.hist[i].id < ReconcileBase \/ e.hist[i].id <= ReconcileBase + e.rec.cursor
    BY DEF Sealed, Bounded
  <2>5. \A i \in DOMAIN f.hist : (i \in DOMAIN e.hist /\ f.hist[i] = e.hist[i]) \/ f.hist[i] = ev
    BY <1>1, <1>2, <1>3
  <2> HIDE DEF ev, f
  <2> QED BY <1>3, <2>1, <2>2, <2>3, <2>4, <2>5 DEF Bounded
<1> QED BY <1>4, <1>5, <1>6, <1>7 DEF Sealed

(* A posted event moves the record on by one event and its quantity. *)
LEMMA EventKeepsEntry ==
  ASSUME NEW e \in Entry, NEW req \in EventRequest, EventAccepted(e, req)
  PROVE  /\ AfterEvent(e, req) \in Entry
         /\ AfterEvent(e, req).hist = Append(e.hist, req.event)
         /\ AfterEvent(e, req).rec.last = req.event
         /\ AfterEvent(e, req).rec.cursor = e.rec.cursor + 1
         /\ AfterEvent(e, req).rec.inventory.on_hand
              = e.rec.inventory.on_hand + req.event.delta
<1> DEFINE ev == req.event
           f == AfterEvent(e, req)
<1>1. ev \in Event
  BY DEF EventRequest
<1>2. e.hist \in Seq(Event) /\ e.hist # <<>> /\ e.rec \in Record
  BY DEF Entry
<1>3. f.hist = Append(e.hist, ev) /\ f.rec.last = ev /\ f.rec.cursor = e.rec.cursor + 1
  BY <1>2 DEF AfterEvent, Record
<1>4. f.rec.inventory = [e.rec.inventory EXCEPT !.on_hand = e.rec.inventory.on_hand + ev.delta]
  BY <1>2 DEF AfterEvent, Record
<1>5. f.rec.inventory \in Inventory
  <2>1. e.rec.inventory \in Inventory /\ ev.delta \in Int
    BY <1>1, <1>2 DEF Record, Event
  <2>2. e.rec.inventory.on_hand + ev.delta >= e.rec.inventory.reserved
    BY DEF EventAccepted
  <2> QED BY <1>4, <2>1, <2>2 DEF Inventory
<1>6. f.rec \in Record
  <2>1. f.rec = [e.rec EXCEPT !.inventory = f.rec.inventory,
                              !.version = e.rec.version + 1,
                              !.cursor = e.rec.cursor + 1, !.last = ev]
    BY <1>2 DEF AfterEvent, Record
  <2>2. e.rec.version + 1 \in Nat
    BY <1>2 DEF Record
  <2>3. [e.rec EXCEPT !.inventory = f.rec.inventory,
                      !.version = e.rec.version + 1,
                      !.cursor = e.rec.cursor + 1, !.last = ev] \in Record
    <3> HIDE DEF ev, f
    <3> QED BY <1>1, <1>2, <1>5, <2>2, NewRevisionIsARecord
  <2> QED BY <2>1, <2>3
<1>7. f.hist \in Seq(Event) \ {<<>>}
  BY <1>1, <1>2, <1>3
<1>8. f \in Entry
  BY <1>6, <1>7 DEF AfterEvent, Entry
<1>9. f.rec.inventory.on_hand = e.rec.inventory.on_hand + ev.delta
  BY <1>2, <1>4 DEF Record, Inventory
<1> QED BY <1>3, <1>8, <1>9

LEMMA EventSeals ==
  ASSUME NEW e, Sealed(e), NEW req \in EventRequest, EventAccepted(e, req),
         req.event.id < ReconcileBase
  PROVE  Sealed(AfterEvent(e, req))
<1> DEFINE ev == req.event
           f == AfterEvent(e, req)
<1>1. ev \in Event /\ ev.id \notin EventIds(e.hist)
  BY DEF EventRequest, EventAccepted
<1>2. e.hist \in Seq(Event) /\ e.hist # <<>> /\ e.rec \in Record
  BY DEF Sealed, Entry
<1>3. f.hist = Append(e.hist, ev) /\ f.rec.last = ev /\ f.rec.cursor = e.rec.cursor + 1
  BY <1>2 DEF AfterEvent, Record
<1>4. f \in Entry
  BY EventKeepsEntry DEF Sealed
<1>5. f.hist[Len(f.hist)] = f.rec.last
  BY <1>1, <1>2, <1>3
<1>6. UniqueIds(f.hist)
  BY <1>1, <1>2, <1>3, AppendUnique DEF Sealed
<1>7. Bounded(f)
  <2>1. \A i \in DOMAIN e.hist : e.hist[i].id \in Nat
    BY <1>2, EventsOfAHistory
  <2>2. e.rec.cursor \in Nat /\ ReconcileBase \in Nat
    BY <1>2, WarehouseAssumption DEF Record
  <2>3. \A i \in DOMAIN e.hist :
          e.hist[i].id < ReconcileBase \/ e.hist[i].id <= ReconcileBase + e.rec.cursor
    BY DEF Sealed, Bounded
  <2>4. \A i \in DOMAIN f.hist : (i \in DOMAIN e.hist /\ f.hist[i] = e.hist[i]) \/ f.hist[i] = ev
    BY <1>1, <1>2, <1>3
  <2>5. ev.id < ReconcileBase
    OBVIOUS
  <2> HIDE DEF ev, f
  <2> QED BY <1>3, <2>1, <2>2, <2>3, <2>4, <2>5 DEF Bounded
<1> QED BY <1>4, <1>5, <1>6, <1>7 DEF Sealed

(* A miscount replaces the stock and nothing else. *)
LEMMA CorruptionKeepsEntry ==
  ASSUME NEW e \in Entry, NEW req \in CorruptionRequest,
         CorruptionAccepted(e, req)
  PROVE  /\ AfterCorruption(e, req) \in Entry
         /\ AfterCorruption(e, req).hist = e.hist
         /\ AfterCorruption(e, req).rec.last = e.rec.last
         /\ AfterCorruption(e, req).rec.cursor = e.rec.cursor
         /\ AfterCorruption(e, req).rec.inventory.on_hand = req.on_hand
<1> DEFINE f == AfterCorruption(e, req)
<1>1. e.hist \in Seq(Event) /\ e.hist # <<>> /\ e.rec \in Record
  BY DEF Entry
<1>2. f.hist = e.hist /\ f.rec.last = e.rec.last /\ f.rec.cursor = e.rec.cursor
  BY <1>1 DEF AfterCorruption, Entry, Record
<1>3. f.rec.inventory = [e.rec.inventory EXCEPT !.on_hand = req.on_hand]
  BY <1>1 DEF AfterCorruption, Entry, Record
<1>4. f.rec.inventory \in Inventory /\ f.rec.inventory.on_hand = req.on_hand
  BY <1>1, <1>3 DEF Record, Inventory, CorruptionRequest, CorruptionAccepted
<1>5. f.rec \in Record
  BY <1>1, <1>4 DEF AfterCorruption, Entry, Record
<1>6. f \in Entry
  BY <1>1, <1>2, <1>5 DEF AfterCorruption, Entry
<1> QED BY <1>2, <1>4, <1>6

(* A replaced history leaves the record alone. *)
LEMMA HistoryKeepsEntry ==
  ASSUME NEW e \in Entry, NEW req \in HistoryRequest
  PROVE  /\ AfterHistory(e, req) \in Entry
         /\ AfterHistory(e, req).hist = req.events
         /\ AfterHistory(e, req).rec = e.rec
<1>1. req.events \in Seq(Event) \ {<<>>}
  BY DEF HistoryRequest
<1> QED BY <1>1 DEF AfterHistory, Entry

LEMMA CorruptionSeals ==
  ASSUME NEW e, Sealed(e), NEW req \in CorruptionRequest,
         CorruptionAccepted(e, req)
  PROVE  Sealed(AfterCorruption(e, req))
<1> DEFINE f == AfterCorruption(e, req)
<1>1. e \in Entry
  BY DEF Sealed
<1>2. /\ f \in Entry /\ f.hist = e.hist
      /\ f.rec.last = e.rec.last /\ f.rec.cursor = e.rec.cursor
  BY <1>1, CorruptionKeepsEntry
<1> QED BY <1>2 DEF Sealed, Bounded

=============================================================================
