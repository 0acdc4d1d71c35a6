----------------------------- MODULE FleetProofs -----------------------------
(***************************************************************************)
(* Proofs about Reconciliation, for any warehouses, agents, event streams  *)
(* and initial fleets, and for any number of runs, of lost exchanges and   *)
(* of delayed PUTs.  The argument: no two revisions of a warehouse share a *)
(* version number, so whatever an agent has read of a warehouse, however   *)
(* long ago, is either what the warehouse still holds or of a lower        *)
(* version (Seen).                                                         *)
(***************************************************************************)
EXTENDS Reconciliation, PolicyProofs, WarehouseOpsProofs

-----------------------------------------------------------------------------
(* What was read of a warehouse and what it holds now *)

SameStock(x, y) == MaxMiscounts = 0 => x.inventory = y.inventory

Seen(rec, e) ==
  /\ e # Missing
  /\ \/ rec.version < e.rec.version
     \/ SameRevision(rec, e.rec) /\ SameStock(rec, e.rec)

(* What a step may do to an entry *)
Advances(e, f) ==
  /\ Sealed(f)
  /\ \/ e.rec.version < f.rec.version
     \/ SameRevision(e.rec, f.rec) /\ SameStock(e.rec, f.rec)

Progress(st, st2) ==
  \A w \in Warehouse : st[w] # Missing => Advances(st[w], st2[w])

GoodStore(st) ==
  /\ st \in [Warehouse -> Entry \cup {Missing}]
  /\ \A w \in Warehouse : st[w] # Missing => Sealed(st[w])

LEMMA SealedIsKnown ==
  ASSUME NEW e, Sealed(e)
  PROVE  /\ e # Missing /\ e \in Entry /\ e.rec \in Record
         /\ e.hist \in Seq(Event) /\ e.rec.version \in Nat
BY WarehouseAssumption DEF Sealed, Entry, Record

LEMMA SeenStays ==
  ASSUME NEW rec \in Record, NEW e, NEW f, Sealed(e), Seen(rec, e), Advances(e, f)
  PROVE  Seen(rec, f)
<1>1. rec.version \in Nat /\ e.rec.version \in Nat /\ f.rec.version \in Nat
      /\ f # Missing
  BY SealedIsKnown DEF Advances, Record
<1>2. CASE rec.version < e.rec.version
  <2>1. rec.version < f.rec.version
    BY <1>1, <1>2 DEF Advances, SameRevision
  <2> QED BY <1>1, <2>1 DEF Seen
<1>3. CASE SameRevision(rec, e.rec) /\ SameStock(rec, e.rec)
  <2>1. CASE e.rec.version < f.rec.version
    <3>1. rec.version < f.rec.version
      BY <1>3, <2>1 DEF SameRevision
    <3> QED BY <1>1, <3>1 DEF Seen
  <2>2. CASE SameRevision(e.rec, f.rec) /\ SameStock(e.rec, f.rec)
    <3>1. SameRevision(rec, f.rec) /\ SameStock(rec, f.rec)
      BY <1>3, <2>2 DEF SameRevision, SameStock
    <3> QED BY <1>1, <3>1 DEF Seen
  <2> QED BY <2>1, <2>2 DEF Advances
<1> QED BY <1>2, <1>3 DEF Seen

LEMMA JustRead ==
  ASSUME NEW e, Sealed(e)
  PROVE  Seen(e.rec, e) /\ Advances(e, e)
BY SealedIsKnown DEF Seen, Advances, SameRevision, SameStock

LEMMA NoProgress ==
  ASSUME NEW st, GoodStore(st)
  PROVE  Progress(st, st)
BY JustRead DEF GoodStore, Progress

LEMMA ProgressOfOne ==
  ASSUME NEW st, GoodStore(st), NEW w \in Warehouse, NEW f,
         st[w] # Missing, Advances(st[w], f)
  PROVE  /\ GoodStore([st EXCEPT ![w] = f])
         /\ Progress(st, [st EXCEPT ![w] = f])
<1> DEFINE st2 == [st EXCEPT ![w] = f]
<1>1. f \in Entry /\ Sealed(f)
  BY SealedIsKnown DEF Advances
<1>2. st2 \in [Warehouse -> Entry \cup {Missing}] /\ st2[w] = f
      /\ \A v \in Warehouse \ {w} : st2[v] = st[v]
  BY <1>1 DEF GoodStore
<1> HIDE DEF st2
<1>3. ASSUME NEW v \in Warehouse, st[v] # Missing PROVE Advances(st[v], st2[v])
  <2>1. CASE v = w
    BY <1>2, <2>1
  <2>2. CASE v # w
    BY <1>2, <1>3, <2>2, JustRead DEF GoodStore
  <2> QED BY <2>1, <2>2
<1>4. ASSUME NEW v \in Warehouse, st2[v] # Missing PROVE Sealed(st2[v])
  BY <1>1, <1>2, <1>4 DEF GoodStore
<1>5. GoodStore(st2) /\ Progress(st, st2)
  BY <1>2, <1>3, <1>4 DEF GoodStore, Progress
<1> QED BY <1>5 DEF st2

-----------------------------------------------------------------------------
(* What a request does to an entry advances it. *)

LEMMA UpdateAdvances ==
  ASSUME NEW e, Sealed(e), NEW req \in UpdateRequest, NEW now \in Nat, NEW w,
         UpdateOutcome(e.rec, req, w) = "updated"
  PROVE  Advances(e, AfterUpdate(e, req, now)) /\ req.expected = e.rec.version
<1>1. e.rec \in Record /\ e.rec.version \in Nat /\ req.target \in Nat
  BY SealedIsKnown DEF UpdateRequest
<1>2. AfterUpdate(e, req, now).rec.version = req.target
  BY <1>1 DEF AfterUpdate, Record
<1>3. req.expected = e.rec.version /\ ~(req.target < e.rec.version)
      /\ req.target # e.rec.version
  BY DEF UpdateOutcome
<1>4. e.rec.version < req.target
  BY <1>1, <1>3
<1>5. Sealed(AfterUpdate(e, req, now))
  BY UpdateSeals
<1> QED BY <1>2, <1>3, <1>4, <1>5 DEF Advances

LEMMA EventAdvances ==
  ASSUME NEW e, Sealed(e), NEW req \in EventRequest, EventAccepted(e, req),
         req.event.id < ReconcileBase
  PROVE  Advances(e, AfterEvent(e, req)) /\ AfterEvent(e, req).rec.last = req.event
<1>1. e.rec \in Record /\ e.rec.version \in Nat
  BY SealedIsKnown
<1>2. AfterEvent(e, req).rec.version = e.rec.version + 1
      /\ AfterEvent(e, req).rec.last = req.event
  BY <1>1 DEF AfterEvent, Record
<1>3. e.rec.version < e.rec.version + 1
  BY <1>1
<1>4. Sealed(AfterEvent(e, req))
  BY EventSeals
<1> QED BY <1>2, <1>3, <1>4 DEF Advances

LEMMA CorruptionAdvances ==
  ASSUME NEW e, Sealed(e), NEW req \in CorruptionRequest,
         CorruptionAccepted(e, req), MaxMiscounts # 0
  PROVE  /\ Advances(e, AfterCorruption(e, req))
         /\ AfterCorruption(e, req).hist = e.hist
<1>1. e \in Entry /\ e.rec \in Record
  BY SealedIsKnown
<1>2. SameRevision(e.rec, AfterCorruption(e, req).rec)
      /\ AfterCorruption(e, req).hist = e.hist
  BY <1>1 DEF AfterCorruption, SameRevision, Entry, Record
<1>3. Sealed(AfterCorruption(e, req))
  BY CorruptionSeals
<1> QED BY <1>2, <1>3 DEF Advances, SameStock

-----------------------------------------------------------------------------
(* The state of a run *)

RunType ==
  [stage : Stage, outcome : Outcome, waiting : SUBSET Warehouse, ok : BOOLEAN,
   obs : Partial(Record), known : Partial(SUBSET Nat),
   histories : Partial(SUBSET Event), queried : SUBSET Warehouse,
   plan : Plan, todo : SUBSET Warehouse, checked : Partial(Record)]

(* Before a plan there is none; a plan is for observed warehouses, and the *)
(* PUTs left to send are some of it.                                       *)
RunInv(r) ==
  /\ DOMAIN r.obs \subseteq DOMAIN r.known
  /\ DOMAIN r.histories \subseteq r.queried
  /\ r.queried \subseteq DOMAIN r.obs
  /\ r.stage = "observing" => r.queried = {}
  /\ r.stage = "investigating" => r.waiting \subseteq r.queried
  /\ r.stage \in {"idle", "observing", "investigating"} => r.plan = NoPlan
  /\ r.todo \subseteq r.plan.targets
  /\ r.plan.targets \subseteq DOMAIN r.obs
  /\ r.stage = "executing" => r.todo # {} /\ r.plan.source \in DOMAIN r.obs
  /\ r.plan.targets \cap AheadWarehouses(r.obs) \subseteq {r.plan.source}
  /\ (r.stage = "finished" /\ r.outcome = "RESOLVED") => Verified(r)

AllSeen(f, st) == \A w \in DOMAIN f : Seen(f[w], st[w])

GoodRun(r, st) ==
  /\ r \in RunType
  /\ RunInv(r)
  /\ AllSeen(r.obs, st)
  /\ AllSeen(r.checked, st)

LEMMA SeenWithOneMore ==
  ASSUME NEW f \in Partial(Record), NEW st, GoodStore(st), NEW w \in Warehouse,
         AllSeen(f, st), st[w] # Missing
  PROVE  AllSeen(With(f, w, st[w].rec), st) /\ st[w].rec \in Record
<1>1. Sealed(st[w]) /\ Seen(st[w].rec, st[w]) /\ st[w].rec \in Record
  BY JustRead, SealedIsKnown DEF GoodStore
<1> DEFINE g == With(f, w, st[w].rec)
<1>2. /\ DOMAIN g = DOMAIN f \cup {w}
      /\ \A v \in DOMAIN f \cup {w} : g[v] = IF v = w THEN st[w].rec ELSE f[v]
  <2>1. DOMAIN g = DOMAIN f \cup {w}
    BY WithDomain
  <2>2. \A v \in DOMAIN f \cup {w} : g[v] = IF v = w THEN st[w].rec ELSE f[v]
    BY WithValue
  <2> QED BY <2>1, <2>2
<1> HIDE DEF g
<1>3. ASSUME NEW v \in DOMAIN g PROVE Seen(g[v], st[v])
  <2>1. CASE v = w
    BY <1>1, <1>2, <2>1
  <2>2. CASE v # w
    BY <1>2, <1>3, <2>2 DEF AllSeen
  <2> QED BY <2>1, <2>2
<1>4. AllSeen(g, st)
  BY <1>3 DEF AllSeen
<1> QED BY <1>1, <1>4 DEF g

(* Whatever happens to the warehouses, what was seen stays so. *)
LEMMA AllSeenStays ==
  ASSUME NEW f \in Partial(Record), NEW st, GoodStore(st), NEW st2,
         Progress(st, st2), AllSeen(f, st)
  PROVE  AllSeen(f, st2)
<1>1. SUFFICES ASSUME NEW w \in DOMAIN f PROVE Seen(f[w], st2[w])
  BY DEF AllSeen
<1>2. w \in Warehouse /\ f[w] \in Record
  BY PartialFunctions
<1>3. Seen(f[w], st[w]) /\ st[w] # Missing
  BY DEF AllSeen, Seen
<1> QED BY <1>2, <1>3, SeenStays DEF Progress, GoodStore

LEMMA GoodRunStays ==
  ASSUME NEW r, NEW st, GoodStore(st), NEW st2, Progress(st, st2),
         GoodRun(r, st)
  PROVE  GoodRun(r, st2)
<1>1. r.obs \in Partial(Record) /\ r.checked \in Partial(Record)
  BY DEF GoodRun, RunType
<1> QED BY <1>1, AllSeenStays DEF GoodRun


-----------------------------------------------------------------------------
(* What the steps of an agent do to its run *)

LEMMA FreshRun ==
  ASSUME NEW st
  PROVE  GoodRun(NewRun, st)
<1>1. NewRun \in RunType
  <2>1. <<>> \in Partial(Record) /\ <<>> \in Partial(SUBSET Nat)
        /\ <<>> \in Partial(SUBSET Event)
    BY EmptyIsPartial
  <2> QED BY <2>1, NoPlanIsAPlan DEF NewRun, RunType, Stage, Outcome
<1>2. RunInv(NewRun)
  BY EmptyIsPartial, NoPlanIsAPlan DEF NewRun, RunInv
<1>3. AllSeen(NewRun.obs, st) /\ AllSeen(NewRun.checked, st)
  BY EmptyIsPartial DEF NewRun, AllSeen
<1> QED BY <1>1, <1>2, <1>3 DEF GoodRun

LEMMA StartedRun ==
  ASSUME NEW st, NEW outcome \in Outcome
  PROVE  GoodRun([NewRun EXCEPT !.stage = "observing", !.waiting = Warehouse,
                                !.outcome = outcome], st)
<1> DEFINE s == [NewRun EXCEPT !.stage = "observing", !.waiting = Warehouse,
                               !.outcome = outcome]
<1>1. NewRun \in RunType /\ GoodRun(NewRun, st) /\ NewRun.queried = {}
      /\ NewRun.plan = NoPlan
  BY FreshRun DEF GoodRun, NewRun
<1>2. s \in RunType
  BY <1>1 DEF RunType, Stage
<1>3. s.stage = "observing" /\ s.plan = NewRun.plan
      /\ s.queried = NewRun.queried /\ s.todo = NewRun.todo
      /\ s.histories = NewRun.histories /\ s.obs = NewRun.obs
      /\ s.known = NewRun.known /\ s.checked = NewRun.checked
  BY <1>1 DEF RunType
<1> HIDE DEF s
<1>4. RunInv(s)
  BY <1>1, <1>3 DEF GoodRun, RunInv
<1> QED BY <1>1, <1>2, <1>3, <1>4 DEF GoodRun, s

LEMMA AfterCatalogue ==
  ASSUME NEW st, GoodStore(st), NEW r, GoodRun(r, st), NEW w \in r.waiting,
         r.stage = "observing", NEW ids \in SUBSET Nat
  PROVE  GoodRun([r EXCEPT
                    !.waiting = @ \ {w},
                    !.obs = IF st[w] = Missing THEN @ ELSE With(@, w, st[w].rec),
                    !.known = With(@, w, ids)], st)
<1> DEFINE obs == IF st[w] = Missing THEN r.obs ELSE With(r.obs, w, st[w].rec)
           known == With(r.known, w, ids)
           s == [r EXCEPT !.waiting = @ \ {w}, !.obs = obs, !.known = known]
<1>1. r \in RunType /\ w \in Warehouse
  BY DEF GoodRun, RunType
<1>2. r.obs \in Partial(Record) /\ r.known \in Partial(SUBSET Nat)
  BY <1>1 DEF RunType
<1>3. obs \in Partial(Record) /\ AllSeen(obs, st)
      /\ DOMAIN obs \subseteq DOMAIN r.obs \cup {w} /\ DOMAIN r.obs \subseteq DOMAIN obs
  <2>1. CASE st[w] = Missing
    BY <1>2, <2>1 DEF GoodRun
  <2>2. CASE st[w] # Missing
    <3>1. AllSeen(r.obs, st)
      BY DEF GoodRun
    <3>2. AllSeen(With(r.obs, w, st[w].rec), st) /\ st[w].rec \in Record
      BY <1>1, <1>2, <2>2, <3>1, SeenWithOneMore
    <3>3. With(r.obs, w, st[w].rec) \in Partial(Record)
      BY <1>1, <1>2, <3>2, WithType
    <3>4. DOMAIN With(r.obs, w, st[w].rec) = DOMAIN r.obs \cup {w}
      BY WithDomain
    <3> QED BY <2>2, <3>2, <3>3, <3>4
  <2> QED BY <2>1, <2>2
<1>4. known \in Partial(SUBSET Nat) /\ DOMAIN known = DOMAIN r.known \cup {w}
  <2>1. known \in Partial(SUBSET Nat)
    BY <1>1, <1>2, WithType
  <2> QED BY <2>1, WithDomain
<1> HIDE DEF obs, known
<1>5. s \in RunType
  BY <1>1, <1>3, <1>4 DEF RunType
<1>6. s.stage = "observing" /\ s.plan = NoPlan /\ s.queried = {} /\ s.todo = {}
      /\ s.histories = r.histories /\ s.obs = obs /\ s.known = known
      /\ s.checked = r.checked
  BY <1>1, NoPlanIsAPlan DEF RunType, GoodRun, RunInv
<1>7. DOMAIN r.histories = {} /\ DOMAIN r.obs \subseteq DOMAIN r.known
  BY DEF GoodRun, RunInv
<1>8. RunInv(s)
  BY <1>3, <1>4, <1>6, <1>7, NoPlanIsAPlan DEF RunInv
<1>9. AllSeen(s.obs, st) /\ AllSeen(s.checked, st)
  BY <1>3, <1>6 DEF GoodRun
<1>10. GoodRun(s, st)
  BY <1>5, <1>8, <1>9 DEF GoodRun
<1> QED BY <1>10 DEF obs, known

LEMMA AfterEvents ==
  ASSUME NEW st, GoodStore(st), NEW r, GoodRun(r, st), NEW w \in r.waiting,
         r.stage = "investigating", NEW h \in SUBSET Event
  PROVE  GoodRun([r EXCEPT !.waiting = @ \ {w},
                           !.histories = With(@, w, h)], st)
<1> DEFINE hs == With(r.histories, w, h)
           s == [r EXCEPT !.waiting = @ \ {w}, !.histories = hs]
<1>1. r \in RunType /\ w \in Warehouse
  BY DEF GoodRun, RunType
<1>2. hs \in Partial(SUBSET Event) /\ DOMAIN hs = DOMAIN r.histories \cup {w}
  <2>1. r.histories \in Partial(SUBSET Event)
    BY <1>1 DEF RunType
  <2>2. hs \in Partial(SUBSET Event)
    BY <1>1, <2>1, WithType
  <2> QED BY <2>2, WithDomain
<1> HIDE DEF hs
<1>3. s \in RunType
  BY <1>1, <1>2 DEF RunType
<1>4. s.stage = "investigating" /\ s.plan = r.plan /\ s.queried = r.queried
      /\ s.todo = r.todo /\ s.histories = hs /\ s.obs = r.obs
      /\ s.known = r.known /\ s.checked = r.checked
      /\ s.waiting \subseteq r.waiting
  BY <1>1 DEF RunType
<1>5. RunInv(s)
  BY <1>2, <1>4 DEF GoodRun, RunInv
<1>6. AllSeen(s.obs, st) /\ AllSeen(s.checked, st)
  BY <1>4 DEF GoodRun
<1> QED BY <1>3, <1>5, <1>6 DEF GoodRun, hs

LEMMA AfterVerification ==
  ASSUME NEW st, GoodStore(st), NEW r, GoodRun(r, st), NEW w \in r.waiting,
         r.stage = "verifying", st[w] # Missing
  PROVE  GoodRun([r EXCEPT !.waiting = @ \ {w},
                           !.checked = With(@, w, st[w].rec)], st)
<1> DEFINE ch == With(r.checked, w, st[w].rec)
           s == [r EXCEPT !.waiting = @ \ {w}, !.checked = ch]
<1>1. r \in RunType /\ w \in Warehouse /\ r.checked \in Partial(Record)
  BY DEF GoodRun, RunType
<1>2. ch \in Partial(Record) /\ AllSeen(ch, st)
  <2>1. AllSeen(r.checked, st)
    BY DEF GoodRun
  <2>2. AllSeen(ch, st) /\ st[w].rec \in Record
    BY <1>1, <2>1, SeenWithOneMore
  <2> QED BY <1>1, <2>2, WithType
<1> HIDE DEF ch
<1>3. s \in RunType
  BY <1>1, <1>2 DEF RunType
<1>4. s.stage = "verifying" /\ s.plan = r.plan /\ s.queried = r.queried
      /\ s.todo = r.todo /\ s.histories = r.histories /\ s.obs = r.obs
      /\ s.known = r.known /\ s.checked = ch
  BY <1>1 DEF RunType
<1>5. RunInv(s)
  BY <1>4 DEF GoodRun, RunInv
<1>6. AllSeen(s.obs, st) /\ AllSeen(s.checked, st)
  BY <1>2, <1>4 DEF GoodRun
<1> QED BY <1>3, <1>5, <1>6 DEF GoodRun, ch

LEMMA AfterLostRead ==
  ASSUME NEW st, NEW r, GoodRun(r, st), NEW w, NEW ok \in BOOLEAN,
         r.stage \in {"observing", "investigating", "verifying"}
  PROVE  GoodRun([r EXCEPT !.waiting = @ \ {w}, !.ok = ok], st)
<1> DEFINE s == [r EXCEPT !.waiting = @ \ {w}, !.ok = ok]
<1>1. r \in RunType
  BY DEF GoodRun
<1>2. s \in RunType
  BY <1>1 DEF RunType
<1>3. s.stage = r.stage /\ s.plan = r.plan /\ s.queried = r.queried
      /\ s.todo = r.todo /\ s.histories = r.histories /\ s.obs = r.obs
      /\ s.known = r.known /\ s.checked = r.checked
      /\ s.waiting \subseteq r.waiting
  BY <1>1 DEF RunType
<1>4. RunInv(s)
  BY <1>3 DEF GoodRun, RunInv
<1> QED BY <1>2, <1>3, <1>4 DEF GoodRun

LEMMA FinishedRun ==
  ASSUME NEW st, NEW r, GoodRun(r, st), NEW outcome \in Outcome,
         outcome = "RESOLVED" => Verified(r)
  PROVE  GoodRun(Finished(r, outcome), st)
<1> DEFINE s == Finished(r, outcome)
<1>1. r \in RunType
  BY DEF GoodRun
<1>2. s \in RunType
  BY <1>1 DEF RunType, Finished, Stage
<1>3. s.stage = "finished" /\ s.outcome = outcome /\ s.plan = r.plan
      /\ s.queried = r.queried /\ s.todo = r.todo
      /\ s.histories = r.histories /\ s.obs = r.obs
      /\ s.known = r.known /\ s.checked = r.checked
  BY <1>1 DEF RunType, Finished
<1>4. Verified(r) => Verified(s)
  BY <1>3 DEF Verified
<1> HIDE DEF s
<1>5. RunInv(s)
  BY <1>3, <1>4 DEF GoodRun, RunInv
<1> QED BY <1>2, <1>3, <1>5 DEF GoodRun, s

LEMMA VerifyingRun ==
  ASSUME NEW st, NEW r, GoodRun(r, st), r.stage = "executing", NEW ok \in BOOLEAN
  PROVE  GoodRun(Verifying([r EXCEPT !.ok = ok]), st)
<1> DEFINE s == Verifying([r EXCEPT !.ok = ok])
<1>1. r \in RunType
  BY DEF GoodRun
<1>2. s \in RunType
  BY <1>1 DEF RunType, Verifying, Stage, Plan
<1>3. s.stage = "verifying" /\ s.plan = r.plan
      /\ s.queried = r.queried /\ s.todo = {}
      /\ s.histories = r.histories /\ s.obs = r.obs
      /\ s.known = r.known /\ s.checked = r.checked
  BY <1>1 DEF RunType, Verifying
<1> HIDE DEF s
<1>4. RunInv(s)
  BY <1>3 DEF GoodRun, RunInv
<1> QED BY <1>2, <1>3, <1>4 DEF GoodRun, s

LEMMA NextWrite ==
  ASSUME NEW st, NEW r, GoodRun(r, st), r.stage = "executing", NEW w,
         r.todo # {w}
  PROVE  GoodRun([r EXCEPT !.todo = @ \ {w}], st)
<1> DEFINE s == [r EXCEPT !.todo = @ \ {w}]
<1>1. r \in RunType
  BY DEF GoodRun
<1>2. s \in RunType
  BY <1>1 DEF RunType
<1>3. s.stage = "executing" /\ s.plan = r.plan
      /\ s.queried = r.queried /\ s.todo = r.todo \ {w}
      /\ s.histories = r.histories /\ s.obs = r.obs
      /\ s.known = r.known /\ s.checked = r.checked
  BY <1>1 DEF RunType
<1> HIDE DEF s
<1>4. RunInv(s)
  <2>1. s.todo # {}
    BY <1>3 DEF GoodRun, RunInv
  <2> QED BY <1>3, <2>1 DEF GoodRun, RunInv
<1> QED BY <1>2, <1>3, <1>4 DEF GoodRun, s


(* A sound decision ends the run or starts a plan for observed warehouses. *)
LEMMA ConcludedRun ==
  ASSUME NEW st, NEW r, GoodRun(r, st), r.plan = NoPlan, NEW d,
         SoundDecision(d, r.obs)
  PROVE  GoodRun(Concluded(r, d), st)
<1> DEFINE plan == ReconciliationPlan(d, r.obs)
           s == [r EXCEPT !.stage = "executing", !.plan = plan,
                          !.todo = plan.targets]
<1>1. r \in RunType
  BY DEF GoodRun
<1>2. CASE Concluded(r, d) \in {Finished(r, "NO_ACTION"), Finished(r, "ESCALATED")}
  BY <1>2, FinishedRun DEF Outcome
<1>3. CASE /\ d.outcome = "RECONCILE" /\ plan.targets # {}
           /\ Concluded(r, d) = s
  <2>1. SoundReconciliation(d, r.obs)
    BY <1>3, ReconcileIsSound
  <2>2. DOMAIN r.obs \in SUBSET Warehouse /\ r.obs \in [DOMAIN r.obs -> Record]
    BY <1>1, PartialFunctions DEF RunType
  <2>3. d.source \in DOMAIN r.obs /\ AheadWarehouses(r.obs) \subseteq {d.source}
    BY <2>1 DEF SoundReconciliation
  <2>4. /\ plan = [source |-> d.source, inventory |-> plan.inventory,
                   version |-> plan.version, repair |-> plan.repair,
                   participants |-> DOMAIN r.obs, targets |-> plan.targets]
        /\ plan.inventory \in Inventory
        /\ plan.version \in Nat
        /\ plan.repair \in BOOLEAN
        /\ plan.targets \in SUBSET DOMAIN r.obs
    BY <2>1, <2>2, PlansAreSound
  <2> HIDE DEF plan
  <2>5. plan.source = d.source
    BY <2>4
  <2>6. plan \in Plan
    BY <2>2, <2>3, <2>4 DEF Plan
  <2>7. s \in RunType
    BY <1>1, <2>2, <2>4, <2>6 DEF RunType, Stage
  <2>8. s.stage = "executing" /\ s.plan = plan /\ s.todo = plan.targets
        /\ s.queried = r.queried /\ s.histories = r.histories
        /\ s.obs = r.obs /\ s.known = r.known /\ s.checked = r.checked
    BY <1>1 DEF RunType
  <2> HIDE DEF s
  <2>9. RunInv(s)
    BY <1>3, <2>3, <2>4, <2>5, <2>8 DEF GoodRun, RunInv
  <2> QED BY <1>3, <2>7, <2>8, <2>9 DEF GoodRun
<1> HIDE DEF plan
<1>4. Concluded(r, d) \in {Finished(r, "NO_ACTION"), Finished(r, "ESCALATED")}
      \/ (d.outcome = "RECONCILE" /\ plan.targets # {} /\ Concluded(r, d) = s)
  BY Zenon DEF Concluded, plan
<1> HIDE DEF s
<1> QED BY <1>2, <1>3, <1>4

LEMMA RunsAreAssessed ==
  ASSUME NEW st, NEW r, GoodRun(r, st)
  PROVE  Assessed(Assessment(r), DOMAIN r.obs) /\ Assessment(r).obs = r.obs
<1>1. r.obs \in Partial(Record)
  BY DEF GoodRun, RunType
<1>2. DOMAIN r.obs \in SUBSET Warehouse /\ r.obs \in [DOMAIN r.obs -> Record]
  BY <1>1, PartialFunctions
<1>3. DOMAIN r.histories \subseteq DOMAIN r.obs
  BY DEF GoodRun, RunInv
<1> QED BY <1>2, <1>3 DEF Assessed, Assessment, Investigated

(* Histories are only asked of warehouses that were observed. *)
LEMMA InvestigatingRun ==
  ASSUME NEW st, NEW r, GoodRun(r, st), r.plan = NoPlan,
         NEW asked \in SUBSET DOMAIN r.obs, r.stage = "observing"
  PROVE  GoodRun([r EXCEPT !.stage = "investigating", !.waiting = asked,
                           !.queried = asked], st)
<1> DEFINE s == [r EXCEPT !.stage = "investigating", !.waiting = asked,
                          !.queried = asked]
<1>1. r \in RunType /\ DOMAIN r.histories = {}
  BY DEF GoodRun, RunInv
<1>2. DOMAIN r.obs \in SUBSET Warehouse
  BY <1>1, PartialFunctions DEF RunType
<1>3. s \in RunType
  BY <1>1, <1>2 DEF RunType, Stage
<1>4. s.stage = "investigating" /\ s.plan = r.plan /\ s.queried = asked
      /\ s.waiting = asked /\ s.todo = r.todo /\ s.histories = r.histories
      /\ s.obs = r.obs /\ s.known = r.known /\ s.checked = r.checked
  BY <1>1 DEF RunType
<1> HIDE DEF s
<1>5. RunInv(s)
  BY <1>1, <1>4 DEF GoodRun, RunInv
<1> QED BY <1>3, <1>4, <1>5 DEF GoodRun, s

-----------------------------------------------------------------------------
(* PUTs *)

MessageType ==
  [to : Warehouse, request : UpdateRequest, read : Record, carries : SUBSET Nat]

GoodMessage(m, st) ==
  /\ m \in MessageType
  /\ m.request.expected = m.read.version
  /\ Seen(m.read, st[m.to])

LEMMA GoodMessageStays ==
  ASSUME NEW m, NEW st, GoodStore(st), NEW st2, Progress(st, st2),
         GoodMessage(m, st)
  PROVE  GoodMessage(m, st2)
<1>1. m.to \in Warehouse /\ m.read \in Record
  BY DEF GoodMessage, MessageType
<1>2. Seen(m.read, st[m.to]) /\ st[m.to] # Missing
  BY DEF GoodMessage, Seen
<1>3. Seen(m.read, st2[m.to])
  BY <1>1, <1>2, SeenStays DEF Progress, GoodStore
<1> QED BY <1>3 DEF GoodMessage

(* The next PUT of a run carries what the run has read of its target. *)
LEMMA NextMessageIsGood ==
  ASSUME NEW st, NEW r, GoodRun(r, st), r.stage = "executing"
  PROVE  GoodMessage(Message(r, Min(r.todo)), st) /\ Min(r.todo) \in r.todo
<1> DEFINE w == Min(r.todo)
           m == Message(r, w)
<1>1. r \in RunType /\ r.todo \in SUBSET Warehouse /\ r.todo # {}
      /\ r.todo \subseteq DOMAIN r.obs /\ r.plan.source \in DOMAIN r.known
  BY DEF GoodRun, RunType, RunInv
<1>2. w \in r.todo
  BY <1>1, WarehousesAreNumbers
<1> HIDE DEF w
<1>3. r.obs[w] \in Record /\ Seen(r.obs[w], st[w])
  <2>1. r.obs \in [DOMAIN r.obs -> Record]
    BY <1>1, PartialFunctions DEF RunType
  <2> QED BY <1>1, <1>2, <2>1 DEF GoodRun, AllSeen
<1>4. r.known[r.plan.source] \in SUBSET Nat
  <2>1. r.known \in [DOMAIN r.known -> SUBSET Nat]
    BY <1>1, PartialFunctions DEF RunType
  <2> QED BY <1>1, <2>1
<1>5. r.obs[w].version \in Nat
  BY <1>3 DEF Record
<1>6. r.plan.version \in Nat /\ r.plan.inventory \in Inventory
  BY <1>1 DEF RunType, Plan
<1>7. m \in MessageType
  BY <1>1, <1>2, <1>3, <1>4, <1>5, <1>6 DEF MessageType, Message, Request, UpdateRequest
<1>8. m.request.expected = m.read.version /\ m.to = w /\ m.read = r.obs[w]
  BY DEF Message, Request
<1>9. GoodMessage(m, st)
  BY <1>3, <1>7, <1>8 DEF GoodMessage
<1> QED BY <1>2, <1>9 DEF w

World ==
  /\ GoodStore(store)
  /\ reflected \in [Warehouse -> SUBSET Nat]
  /\ clock \in Nat

(* A PUT that changes anything replaces the revision its sender has read. *)
LEMMA HandledMessage ==
  ASSUME World, NEW m, GoodMessage(m, store), NEW outcome, Handle(m, outcome)
  PROVE  /\ World'
         /\ Progress(store, store')
         /\ \A w \in Warehouse : store'[w] # store[w] =>
              w = m.to /\ SameRevision(m.read, store[w].rec)
<1> DEFINE w == m.to
           e == store[w]
<1>1. w \in Warehouse /\ m.request \in UpdateRequest /\ m.carries \in SUBSET Nat
  BY DEF GoodMessage, MessageType
<1>2. e # Missing /\ Sealed(e)
  BY <1>1 DEF World, GoodStore, GoodMessage, Seen
<1>3. CASE outcome = "updated"
  <2> DEFINE f == AfterUpdate(e, m.request, clock)
  <2>1. UpdateOutcome(e.rec, m.request, w \notin ReadOnly) = "updated"
    BY <1>3 DEF Handle
  <2>2. store' = [store EXCEPT ![w] = f]
        /\ reflected' = [reflected EXCEPT ![w] = m.carries]
        /\ clock' = clock + 1
    BY <1>1, <1>3 DEF Handle, World, GoodStore
  <2>3. Advances(e, f) /\ m.request.expected = e.rec.version
    BY <1>1, <1>2, <2>1, UpdateAdvances DEF World
  <2>4. GoodStore(store') /\ Progress(store, store')
    BY <1>1, <1>2, <2>2, <2>3, ProgressOfOne DEF World
  <2>5. World'
    BY <1>1, <2>2, <2>4 DEF World
  <2>6. SameRevision(m.read, e.rec)
    <3>1. m.read.version = e.rec.version /\ e.rec.version \in Nat
      BY <1>2, <2>3, SealedIsKnown DEF GoodMessage
    <3> QED BY <3>1 DEF GoodMessage, Seen
  <2>7. \A v \in Warehouse : v # w => store'[v] = store[v]
    BY <2>2 DEF World, GoodStore
  <2> QED BY <2>4, <2>5, <2>6, <2>7
<1>4. CASE outcome # "updated"
  <2>1. UNCHANGED <<store, reflected, clock>>
    BY <1>4 DEF Handle
  <2>2. Progress(store, store')
    BY <2>1, NoProgress DEF World
  <2>3. World'
    BY <2>1 DEF World, GoodStore
  <2> QED BY <2>1, <2>2, <2>3
<1> QED BY <1>3, <1>4


-----------------------------------------------------------------------------
(* The inductive invariant *)

GoodFeed(fd) ==
  /\ fd \in Seq(Event)
  /\ \A k \in DOMAIN fd : fd[k].id < ReconcileBase /\ fd[k].delta # 0

Runs ==
  /\ run \in [Agent -> RunType]
  /\ \A a \in Agent : GoodRun(run[a], store)

Late == \A m \in late : GoodMessage(m, store)

Counters ==
  /\ runs \in [Agent -> 0..MaxRuns]
  /\ losses \in 0..MaxLosses
  /\ miscounts \in 0..MaxMiscounts

FleetInv == World /\ GoodFeed(feed) /\ Runs /\ Late /\ Counters

(* What follows for the runs and the delayed PUTs when the warehouses move *)
(* and one agent takes a step                                              *)
LEMMA RunsAfterStep ==
  ASSUME FleetInv, Progress(store, store'), NEW a \in Agent, NEW r,
         GoodRun(r, store'), run' = [run EXCEPT ![a] = r]
  PROVE  Runs'
<1>1. r \in RunType
  BY DEF GoodRun
<1>2. run' \in [Agent -> RunType]
  BY <1>1 DEF FleetInv, Runs
<1>3. ASSUME NEW b \in Agent PROVE GoodRun(run'[b], store')
  <2>1. CASE b = a
    BY <2>1 DEF FleetInv, Runs
  <2>2. CASE b # a
    <3>1. run'[b] = run[b] /\ GoodRun(run[b], store) /\ GoodStore(store)
      BY <2>2 DEF FleetInv, Runs, World
    <3> QED BY <3>1, GoodRunStays
  <2> QED BY <2>1, <2>2
<1> QED BY <1>2, <1>3 DEF Runs

LEMMA RunsWithoutStep ==
  ASSUME FleetInv, Progress(store, store'), run' = run
  PROVE  Runs'
<1>1. ASSUME NEW b \in Agent PROVE GoodRun(run'[b], store')
  <2>1. GoodRun(run[b], store) /\ GoodStore(store)
    BY DEF FleetInv, Runs, World
  <2> QED BY <2>1, GoodRunStays
<1> QED BY <1>1 DEF FleetInv, Runs

LEMMA LateAfterStep ==
  ASSUME FleetInv, Progress(store, store'),
         \A m \in late' : m \in late \/ GoodMessage(m, store')
  PROVE  Late'
<1>1. SUFFICES ASSUME NEW m \in late' PROVE GoodMessage(m, store')
  BY DEF Late
<1>2. ASSUME m \in late PROVE GoodMessage(m, store')
  <2>1. GoodMessage(m, store) /\ GoodStore(store)
    BY <1>2 DEF FleetInv, Late, World
  <2> QED BY <2>1, GoodMessageStays
<1> QED BY <1>2

(* A step of one agent that leaves the warehouses alone *)
LEMMA StepOfOneRun ==
  ASSUME FleetInv, UNCHANGED world, NEW a \in Agent, NEW r, GoodRun(r, store),
         run' = [run EXCEPT ![a] = r],
         runs' \in [Agent -> 0..MaxRuns], losses' \in 0..MaxLosses
  PROVE  FleetInv'
<1>1. store' = store /\ reflected' = reflected /\ feed' = feed /\ clock' = clock
      /\ late' = late /\ miscounts' = miscounts
  BY DEF world
<1>2. Progress(store, store')
  BY <1>1, NoProgress DEF FleetInv, World
<1>3. Runs'
  BY <1>1, <1>2, RunsAfterStep
<1>4. Late'
  BY <1>1, <1>2, LateAfterStep
<1>5. World'
  BY <1>1 DEF FleetInv, World, GoodStore
<1>6. Counters' /\ GoodFeed(feed')
  BY <1>1 DEF FleetInv, Counters
<1> QED BY <1>3, <1>4, <1>5, <1>6 DEF FleetInv

LEMMA ARun ==
  ASSUME FleetInv, NEW a \in Agent
  PROVE  /\ run[a] \in RunType /\ RunInv(run[a]) /\ GoodRun(run[a], store)
         /\ GoodStore(store)
BY DEF FleetInv, World, Runs, GoodRun

LEMMA SameCounters ==
  ASSUME FleetInv
  PROVE  /\ runs \in [Agent -> 0..MaxRuns] /\ losses \in 0..MaxLosses
         /\ losses < MaxLosses => losses + 1 \in 0..MaxLosses
<1>1. MaxLosses \in Nat
  BY ReconciliationAssumption
<1> QED BY <1>1 DEF FleetInv, Counters

LEMMA InitFleetInv == Init => FleetInv
<1> SUFFICES ASSUME Init PROVE FleetInv
  OBVIOUS
<1>1. PICK f \in Fleets : store = f.store /\ reflected = f.reflected /\ feed = f.feed
  BY DEF Init
<1>2. f \in Fleet
  BY ReconciliationAssumption
<1>3. World
  <2>1. store \in [Warehouse -> Entry \cup {Missing}]
        /\ reflected \in [Warehouse -> SUBSET Nat]
    BY <1>1, <1>2 DEF Fleet
  <2>2. ASSUME NEW w \in Warehouse, store[w] # Missing PROVE Sealed(store[w])
    <3>1. store[w] \in Entry
      BY <2>1, <2>2
    <3>2. store[w].hist[Len(store[w].hist)] = store[w].rec.last
          /\ UniqueIds(store[w].hist)
      BY <1>1, <2>2, FleetsAssumption
    <3>3. Bounded(store[w])
      BY <1>1, <2>2, FleetsAssumption DEF Bounded
    <3> QED BY <3>1, <3>2, <3>3 DEF Sealed
  <2>3. clock \in Nat
    BY DEF Init, StartTime
  <2> QED BY <2>1, <2>2, <2>3 DEF World, GoodStore
<1>4. GoodFeed(feed)
  BY <1>1, <1>2, FleetsAssumption DEF Fleet, GoodFeed
<1>5. Runs
  <2>1. GoodRun(NewRun, store)
    BY FreshRun
  <2> QED BY <2>1 DEF Init, Runs, GoodRun
<1>6. Late
  BY DEF Init, Late
<1>7. Counters
  BY ReconciliationAssumption DEF Init, Counters
<1> QED BY <1>3, <1>4, <1>5, <1>6, <1>7 DEF FleetInv


LEMMA StartFleetInv ==
  ASSUME FleetInv, NEW a \in Agent, Start(a)
  PROVE  FleetInv'
<1> DEFINE r == [NewRun EXCEPT !.stage = "observing", !.waiting = Warehouse,
                               !.outcome = run[a].outcome]
<1>1. run[a].outcome \in Outcome
  BY ARun DEF RunType
<1>2. GoodRun(r, store)
  BY <1>1, StartedRun
<1>3. runs' \in [Agent -> 0..MaxRuns]
  <2>1. MaxRuns \in Nat
    BY ReconciliationAssumption
  <2> QED BY <2>1, SameCounters DEF Start
<1>4. run' = [run EXCEPT ![a] = r] /\ UNCHANGED world /\ losses' = losses
  BY DEF Start
<1> HIDE DEF r
<1> QED BY <1>2, <1>3, <1>4, SameCounters, StepOfOneRun

LEMMA AnswerFleetInv ==
  ASSUME FleetInv, NEW a \in Agent, NEW w \in Warehouse,
         AnswerCatalogue(a, w) \/ AnswerEvents(a, w) \/ AnswerVerification(a, w)
  PROVE  FleetInv'
<1>1. run \in [Agent -> RunType] /\ GoodRun(run[a], store) /\ GoodStore(store)
  BY ARun DEF FleetInv, Runs
<1>2. runs' \in [Agent -> 0..MaxRuns] /\ losses' \in 0..MaxLosses /\ UNCHANGED world
  BY SameCounters DEF AnswerCatalogue, AnswerEvents, AnswerVerification
<1>3. CASE AnswerCatalogue(a, w)
  <2> DEFINE r == [run[a] EXCEPT
                     !.waiting = @ \ {w},
                     !.obs = IF store[w] = Missing THEN @
                             ELSE With(@, w, store[w].rec),
                     !.known = With(@, w, reflected[w])]
  <2>1. run' = [run EXCEPT ![a] = r]
    BY <1>1, <1>3 DEF AnswerCatalogue, RunType
  <2>2. reflected[w] \in SUBSET Nat
    BY DEF FleetInv, World
  <2>3. GoodRun(r, store)
    BY <1>1, <1>3, <2>2, AfterCatalogue DEF AnswerCatalogue
  <2> HIDE DEF r
  <2> QED BY <1>2, <2>1, <2>3, StepOfOneRun
<1>4. CASE AnswerEvents(a, w)
  <2> DEFINE h == RecentEvents(store[w].hist, HistoryLimit)
             r == [run[a] EXCEPT !.waiting = @ \ {w},
                                 !.histories = With(@, w, h)]
  <2>1. run' = [run EXCEPT ![a] = r]
    BY <1>1, <1>4 DEF AnswerEvents, RunType
  <2>2. h \in SUBSET Event
    <3>1. store[w].hist \in Seq(Event)
      BY <1>1, <1>4, SealedIsKnown DEF GoodStore, AnswerEvents
    <3> QED BY <3>1 DEF RecentEvents
  <2> HIDE DEF h
  <2>3. GoodRun(r, store)
    BY <1>1, <1>4, <2>2, AfterEvents DEF AnswerEvents
  <2> HIDE DEF r
  <2> QED BY <1>2, <2>1, <2>3, StepOfOneRun
<1>5. CASE AnswerVerification(a, w)
  <2> DEFINE r == [run[a] EXCEPT !.waiting = @ \ {w},
                                 !.checked = With(@, w, store[w].rec)]
  <2>1. run' = [run EXCEPT ![a] = r]
    BY <1>1, <1>5 DEF AnswerVerification, RunType
  <2>2. GoodRun(r, store)
    BY <1>1, <1>5, AfterVerification DEF AnswerVerification
  <2> HIDE DEF r
  <2> QED BY <1>2, <2>1, <2>2, StepOfOneRun
<1> QED BY <1>3, <1>4, <1>5

LEMMA LoseReadFleetInv ==
  ASSUME FleetInv, NEW a \in Agent, NEW w \in Warehouse, LoseRead(a, w)
  PROVE  FleetInv'
<1> DEFINE ok == run[a].ok /\ run[a].stage # "observing"
           r == [run[a] EXCEPT !.waiting = @ \ {w}, !.ok = ok]
<1>1. run \in [Agent -> RunType] /\ GoodRun(run[a], store)
  BY ARun DEF FleetInv, Runs
<1>2. ok \in BOOLEAN
  OBVIOUS
<1>3. run' = [run EXCEPT ![a] = r]
  BY <1>1 DEF LoseRead, RunType
<1> HIDE DEF ok
<1>4. GoodRun(r, store)
  BY <1>1, <1>2, AfterLostRead DEF LoseRead
<1>5. UNCHANGED world /\ runs' = runs /\ losses' \in 0..MaxLosses
  BY SameCounters DEF LoseRead
<1> HIDE DEF r
<1> QED BY <1>3, <1>4, <1>5, SameCounters, StepOfOneRun

LEMMA AnalyseFleetInv ==
  ASSUME FleetInv, NEW a \in Agent, Analyse(a)
  PROVE  FleetInv'
<1> DEFINE r == run[a]
           e == Assessment(r)
           d == Decide(e)
           asked == InvestigationPlan(d, e)
           s == [r EXCEPT !.stage = "investigating", !.waiting = asked,
                          !.queried = asked]
<1>1. GoodRun(r, store) /\ r.stage = "observing"
  BY ARun DEF Analyse
<1>2. r.plan = NoPlan
  BY <1>1 DEF GoodRun, RunInv
<1>3. SoundDecision(d, r.obs)
  BY <1>1, RunsAreAssessed, DecisionsAreSound
<1>4. PICK x : /\ run' = [run EXCEPT ![a] = x]
               /\ x \in {Finished(r, "FAILED"), Finished(r, "CONSISTENT"), s,
                         Concluded(r, d)}
  BY DEF Analyse
<1>5. UNCHANGED world /\ runs' = runs /\ losses' = losses
  BY DEF Analyse
<1>6. asked \in SUBSET DOMAIN r.obs
  <2>1. d.outcome = "INVESTIGATE" => d.investigate \subseteq DOMAIN r.obs
    <3>1. Escalate.outcome = "ESCALATE" /\ NoAction.outcome = "NO_ACTION"
      BY DEF Escalate, NoAction
    <3>2. \A ws : Investigate(ws).investigate = ws
      BY DEF Investigate, Escalate
    <3> HIDE DEF d
    <3> QED BY <1>3, <3>1, <3>2 DEF SoundDecision, SoundReconciliation
  <2> HIDE DEF d
  <2> QED BY <2>1 DEF InvestigationPlan
<1> HIDE DEF asked
<1>7. GoodRun(s, store)
  BY <1>1, <1>2, <1>6, InvestigatingRun
<1> HIDE DEF s, d, r
<1>8. GoodRun(x, store)
  BY <1>1, <1>2, <1>3, <1>4, <1>7, FinishedRun, ConcludedRun DEF Outcome
<1> QED BY <1>4, <1>5, <1>8, SameCounters, StepOfOneRun

LEMMA ReassessFleetInv ==
  ASSUME FleetInv, NEW a \in Agent, Reassess(a)
  PROVE  FleetInv'
<1> DEFINE r == run[a]
           d == Reassessed(r.queried, Assessment(r))
<1>1. GoodRun(r, store) /\ r.stage = "investigating"
  BY ARun DEF Reassess
<1>2. r.plan = NoPlan
  BY <1>1 DEF GoodRun, RunInv
<1>3. SoundDecision(d, r.obs)
  BY <1>1, RunsAreAssessed, ReassessedIsSound
<1>4. /\ run' = [run EXCEPT ![a] = Concluded(r, d)]
      /\ UNCHANGED world /\ runs' = runs /\ losses' = losses
  BY DEF Reassess
<1> HIDE DEF r, d
<1>5. GoodRun(Concluded(r, d), store)
  BY <1>1, <1>2, <1>3, ConcludedRun
<1> QED BY <1>4, <1>5, SameCounters, StepOfOneRun

LEMMA ResolveFleetInv ==
  ASSUME FleetInv, NEW a \in Agent, Resolve(a)
  PROVE  FleetInv'
<1> DEFINE r == run[a]
           outcome == IF r.ok /\ Verified(r) THEN "RESOLVED" ELSE "ESCALATED"
<1>1. GoodRun(r, store)
  BY ARun
<1>2. outcome \in Outcome /\ (outcome = "RESOLVED" => Verified(r))
  BY DEF Outcome
<1>3. /\ run' = [run EXCEPT ![a] = Finished(r, outcome)]
      /\ UNCHANGED world /\ runs' = runs /\ losses' = losses
  BY DEF Resolve
<1> HIDE DEF r, outcome
<1>4. GoodRun(Finished(r, outcome), store)
  BY <1>1, <1>2, FinishedRun
<1> QED BY <1>3, <1>4, SameCounters, StepOfOneRun


(* The run of an agent that has sent its next PUT, whatever the answer *)
LEMMA ExecuteUpdateFleetInv ==
  ASSUME FleetInv, NEW a \in Agent, ExecuteUpdate(a)
  PROVE  FleetInv'
<1> DEFINE r == run[a]
           w == Min(r.todo)
<1>1. GoodRun(r, store) /\ r.stage = "executing" /\ GoodStore(store)
  BY ARun DEF ExecuteUpdate
<1>2. PICK outcome :
        /\ Handle(Message(r, w), outcome)
        /\ run' = [run EXCEPT ![a] =
             IF outcome \notin {"unchanged", "updated"}
               THEN Verifying([r EXCEPT !.ok = FALSE])
             ELSE IF r.todo = {w} THEN Verifying(r)
             ELSE [r EXCEPT !.todo = @ \ {w}]]
  BY DEF ExecuteUpdate
<1>3. UNCHANGED <<feed, late, losses, runs, miscounts>>
  BY DEF ExecuteUpdate
<1>4. GoodMessage(Message(r, w), store)
  BY <1>1, NextMessageIsGood
<1> HIDE DEF w, r
<1>5. World' /\ Progress(store, store')
  BY <1>2, <1>4, HandledMessage DEF FleetInv
<1>6. GoodRun(r, store')
  BY <1>1, <1>5, GoodRunStays
<1>7. GoodRun(Verifying([r EXCEPT !.ok = FALSE]), store')
  BY <1>1, <1>6, VerifyingRun
<1>8. GoodRun(Verifying(r), store')
  <2>1. [r EXCEPT !.ok = r.ok] = r /\ r.ok \in BOOLEAN
    BY <1>1 DEF GoodRun, RunType
  <2> QED BY <1>1, <1>6, <2>1, VerifyingRun
<1>9. r.todo # {w} => GoodRun([r EXCEPT !.todo = @ \ {w}], store')
  BY <1>1, <1>6, NextWrite
<1>10. Runs'
  BY <1>2, <1>5, <1>7, <1>8, <1>9, RunsAfterStep
<1>11. Late'
  BY <1>3, <1>5, LateAfterStep
<1>12. Counters' /\ GoodFeed(feed')
  BY <1>3 DEF FleetInv, Counters
<1> QED BY <1>5, <1>10, <1>11, <1>12 DEF FleetInv

LEMMA LoseUpdateFleetInv ==
  ASSUME FleetInv, NEW a \in Agent, LoseUpdate(a)
  PROVE  FleetInv'
<1> DEFINE r == run[a]
           m == Message(r, Min(r.todo))
<1>1. GoodRun(r, store) /\ r.stage = "executing" /\ GoodStore(store)
  BY ARun DEF LoseUpdate
<1>2. /\ run' = [run EXCEPT ![a] = Verifying([r EXCEPT !.ok = FALSE])]
      /\ late' = late \cup {m}
      /\ losses' \in 0..MaxLosses
      /\ UNCHANGED <<store, reflected, feed, clock, runs, miscounts>>
  BY SameCounters DEF LoseUpdate
<1>3. GoodMessage(m, store)
  BY <1>1, NextMessageIsGood
<1> HIDE DEF r, m
<1>4. World' /\ Progress(store, store')
  BY <1>1, <1>2, NoProgress DEF FleetInv, World, GoodStore
<1>5. GoodRun(Verifying([r EXCEPT !.ok = FALSE]), store')
  BY <1>1, <1>2, VerifyingRun
<1>6. Runs'
  BY <1>2, <1>4, <1>5, RunsAfterStep
<1>7. Late'
  BY <1>2, <1>3, <1>4, LateAfterStep
<1>8. Counters' /\ GoodFeed(feed')
  BY <1>2 DEF FleetInv, Counters
<1> QED BY <1>4, <1>6, <1>7, <1>8 DEF FleetInv

LEMMA HandleLateFleetInv ==
  ASSUME FleetInv, NEW m \in late, HandleLate(m)
  PROVE  FleetInv'
<1>1. PICK outcome : Handle(m, outcome)
  BY DEF HandleLate
<1>2. late' \subseteq late /\ UNCHANGED <<feed, run, losses, runs, miscounts>>
  BY DEF HandleLate
<1>3. GoodMessage(m, store)
  BY DEF FleetInv, Late
<1>4. World' /\ Progress(store, store')
  BY <1>1, <1>3, HandledMessage DEF FleetInv
<1>5. Runs'
  BY <1>2, <1>4, RunsWithoutStep
<1>6. Late'
  BY <1>2, <1>4, LateAfterStep
<1>7. Counters' /\ GoodFeed(feed')
  BY <1>2 DEF FleetInv, Counters
<1> QED BY <1>4, <1>5, <1>6, <1>7 DEF FleetInv

(* An event of the stream, posted before or now *)
LEMMA EventsOfTheStream ==
  ASSUME FleetInv, NEW k \in DOMAIN Deltas
  PROVE  /\ EventNumber(k) \in Event
         /\ EventNumber(k).id < ReconcileBase
         /\ EventNumber(k).delta # 0
         /\ k \in Nat
<1>1. k \in 1..Len(Deltas) /\ Len(Deltas) \in Nat /\ Deltas[k] \in Int \ {0}
      /\ Len(Deltas) < ReconcileBase /\ ReconcileBase \in Nat
  BY ReconciliationAssumption, WarehouseAssumption
<1>2. feed \in Seq(Event) /\ clock \in Nat
  BY DEF FleetInv, GoodFeed, World
<1>3. CASE k <= Len(feed)
  <2>1. k \in DOMAIN feed /\ EventNumber(k) = feed[k]
    BY <1>1, <1>2, <1>3 DEF EventNumber
  <2> QED BY <1>1, <1>2, <2>1 DEF FleetInv, GoodFeed
<1>4. CASE ~(k <= Len(feed))
  <2>1. EventNumber(k) =
          [id |-> k, delta |-> Deltas[k], opening |-> FALSE, at |-> clock]
    BY <1>4 DEF EventNumber
  <2>2. k < ReconcileBase /\ k \in Nat
    BY <1>1
  <2> QED BY <1>1, <1>2, <2>1, <2>2 DEF Event
<1> QED BY <1>3, <1>4

(* What the world does to one warehouse: nothing the agents have seen is   *)
(* left at a version it has not.                                           *)
LEMMA IngestedEvent ==
  ASSUME FleetInv, NEW w \in Warehouse, Ingest(w)
  PROVE  /\ World' /\ GoodFeed(feed') /\ Progress(store, store')
         /\ store'[w].rec.last.id < ReconcileBase
         /\ \A v \in Warehouse \ {w} : store'[v] = store[v]
<1> DEFINE request(k) == [expected |-> store[w].rec.version,
                          event |-> EventNumber(k)]
<1>1. PICK k \in DOMAIN Deltas :
        /\ EventAccepted(store[w], request(k))
        /\ store' = [store EXCEPT ![w] = AfterEvent(@, request(k))]
        /\ reflected' = [reflected EXCEPT ![w] = @ \cup {k}]
        /\ IF k <= Len(feed) THEN UNCHANGED <<feed, clock>>
           ELSE feed' = Append(feed, EventNumber(k)) /\ clock' = clock + 1
  BY DEF Ingest
<1> DEFINE ev == EventNumber(k)
           req == request(k)
           f == AfterEvent(store[w], req)
<1>2. ev \in Event /\ ev.id < ReconcileBase /\ ev.delta # 0 /\ k \in Nat
  BY EventsOfTheStream
<1>3. store[w] # Missing /\ Sealed(store[w]) /\ GoodStore(store)
  BY DEF Ingest, FleetInv, World, GoodStore
<1>4. req \in EventRequest /\ req.event = ev
  <2>1. store[w].rec.version \in Nat
    BY <1>3, SealedIsKnown
  <2> HIDE DEF ev
  <2> QED BY <1>2, <2>1 DEF EventRequest, ev
<1>5. EventAccepted(store[w], req)
  BY <1>1
<1>6. store' = [store EXCEPT ![w] = f]
  BY <1>1, <1>3 DEF GoodStore
<1> HIDE DEF ev, req
<1>7. Advances(store[w], f) /\ f.rec.last = ev
  BY <1>2, <1>3, <1>4, <1>5, EventAdvances
<1> HIDE DEF f
<1>8. GoodStore(store') /\ Progress(store, store')
  BY <1>3, <1>6, <1>7, ProgressOfOne
<1>9. store'[w] = f /\ \A v \in Warehouse \ {w} : store'[v] = store[v]
  BY <1>3, <1>6 DEF GoodStore
<1>10. reflected' \in [Warehouse -> SUBSET Nat]
  BY <1>1, <1>2 DEF FleetInv, World
<1>11. clock' \in Nat
  BY <1>1 DEF FleetInv, World
<1>12. GoodFeed(feed')
  <2>1. CASE feed' = feed
    BY <2>1 DEF FleetInv
  <2>2. CASE feed' = Append(feed, ev)
    <3>1. feed \in Seq(Event)
      BY DEF FleetInv, GoodFeed
    <3>2. feed' \in Seq(Event) /\ DOMAIN feed' = DOMAIN feed \cup {Len(feed) + 1}
          /\ feed'[Len(feed) + 1] = ev
          /\ \A i \in DOMAIN feed : feed'[i] = feed[i]
      BY <1>2, <2>2, <3>1
    <3> QED BY <1>2, <3>2 DEF FleetInv, GoodFeed
  <2> QED BY <1>1, <2>1, <2>2 DEF ev
<1> QED BY <1>2, <1>7, <1>8, <1>9, <1>10, <1>11, <1>12 DEF World

LEMMA MiscountedStock ==
  ASSUME FleetInv, NEW w \in Warehouse, Miscount(w)
  PROVE  /\ World' /\ Progress(store, store') /\ MaxMiscounts # 0
         /\ miscounts' \in 0..MaxMiscounts
         /\ \A v \in Warehouse : store'[v].hist = store[v].hist
<1> DEFINE request(d) == [expected |-> store[w].rec.version,
                          on_hand |-> store[w].rec.inventory.on_hand + d]
<1>1. PICK d \in {-1, 1} :
        /\ CorruptionAccepted(store[w], request(d))
        /\ store' = [store EXCEPT ![w] = AfterCorruption(@, request(d))]
  BY DEF Miscount
<1> DEFINE req == request(d)
           f == AfterCorruption(store[w], req)
<1>2. MaxMiscounts \in Nat /\ MaxMiscounts # 0 /\ miscounts' \in 0..MaxMiscounts
  BY ReconciliationAssumption DEF Miscount, FleetInv, Counters
<1>3. store[w] # Missing /\ Sealed(store[w]) /\ GoodStore(store)
  BY DEF Miscount, FleetInv, World, GoodStore
<1>4. req \in CorruptionRequest
  <2>1. store[w].rec \in Record /\ store[w].rec.version \in Nat
    BY <1>3, SealedIsKnown
  <2>2. store[w].rec.inventory.on_hand \in Nat
        /\ store[w].rec.inventory.reserved \in Nat
    BY <2>1 DEF Record, Inventory
  <2>3. req.on_hand >= store[w].rec.inventory.reserved /\ req.on_hand \in Int
    BY <1>1, <2>2 DEF CorruptionAccepted
  <2>4. req.on_hand \in Nat
    BY <2>2, <2>3
  <2> QED BY <2>1, <2>4 DEF CorruptionRequest
<1>5. CorruptionAccepted(store[w], req) /\ store' = [store EXCEPT ![w] = f]
  BY <1>1, <1>3 DEF GoodStore
<1> HIDE DEF req
<1>6. Advances(store[w], f) /\ f.hist = store[w].hist
  BY <1>2, <1>3, <1>4, <1>5, CorruptionAdvances
<1> HIDE DEF f
<1>7. GoodStore(store') /\ Progress(store, store')
  BY <1>3, <1>5, <1>6, ProgressOfOne
<1>8. \A v \in Warehouse : store'[v].hist = store[v].hist
  BY <1>3, <1>5, <1>6 DEF GoodStore
<1>9. World'
  BY <1>7 DEF Miscount, FleetInv, World
<1> QED BY <1>2, <1>7, <1>8, <1>9

LEMMA NextFleetInv == FleetInv /\ [Next]_vars => FleetInv'
<1> SUFFICES ASSUME FleetInv, [Next]_vars PROVE FleetInv'
  OBVIOUS
<1>1. CASE UNCHANGED vars
  BY <1>1 DEF vars, FleetInv, World, GoodStore, GoodFeed, Runs, Late, Counters
<1>2. ASSUME NEW a \in Agent,
             \/ Start(a) \/ AgentStep(a) \/ LoseUpdate(a)
             \/ \E w \in Warehouse : LoseRead(a, w)
      PROVE  FleetInv'
  <2>1. CASE AgentStep(a)
    BY <2>1, AnswerFleetInv, AnalyseFleetInv, ReassessFleetInv,
       ExecuteUpdateFleetInv, ResolveFleetInv DEF AgentStep
  <2> QED BY <1>2, <2>1, StartFleetInv, LoseReadFleetInv, LoseUpdateFleetInv
<1>3. ASSUME NEW m \in late, HandleLate(m) PROVE FleetInv'
  BY <1>3, HandleLateFleetInv
<1>4. ASSUME NEW w \in Warehouse, Ingest(w) PROVE FleetInv'
  <2>1. World' /\ GoodFeed(feed') /\ Progress(store, store')
    BY <1>4, IngestedEvent
  <2>2. UNCHANGED <<run, late, losses, runs, miscounts>>
    BY <1>4 DEF Ingest
  <2>3. Runs' /\ Late'
    BY <2>1, <2>2, RunsWithoutStep, LateAfterStep
  <2>4. Counters'
    BY <2>2 DEF FleetInv, Counters
  <2> QED BY <2>1, <2>3, <2>4 DEF FleetInv
<1>5. ASSUME NEW w \in Warehouse, Miscount(w) PROVE FleetInv'
  <2>1. World' /\ Progress(store, store') /\ miscounts' \in 0..MaxMiscounts
    BY <1>5, MiscountedStock
  <2>2. UNCHANGED <<feed, run, late, losses, runs>>
    BY <1>5 DEF Miscount
  <2>3. Runs' /\ Late'
    BY <2>1, <2>2, RunsWithoutStep, LateAfterStep
  <2>4. Counters' /\ GoodFeed(feed')
    BY <2>1, <2>2 DEF FleetInv, Counters
  <2> QED BY <2>1, <2>3, <2>4 DEF FleetInv
<1> QED BY <1>1, <1>2, <1>3, <1>4, <1>5 DEF Next


(* The inductive invariant holds of every fleet. *)
THEOREM FleetInvariant == Spec => []FleetInv
<1> QED BY InitFleetInv, NextFleetInv, PTL DEF Spec

-----------------------------------------------------------------------------
(* What it gives *)

(* Every variable of the fleet stays in its type: in particular a plan     *)
(* only ever names configured warehouses and a PUT carries a valid         *)
(* inventory.                                                              *)
THEOREM FleetTypeCorrect == Spec => []TypeOK
<1>1. FleetInv => TypeOK
  <2> SUFFICES ASSUME FleetInv PROVE TypeOK
    OBVIOUS
  <2>1. ASSUME NEW a \in Agent PROVE RunOK(run[a])
    <3>1. run[a] \in RunType /\ RunInv(run[a])
      BY ARun
    <3>2. \A S : \A f \in Partial(S) : IsPartial(f, S)
      BY DEF Partial, IsPartial
    <3>3. IsPartial(run[a].obs, Record) /\ IsPartial(run[a].checked, Record)
          /\ IsPartial(run[a].known, SUBSET Nat)
          /\ IsPartial(run[a].histories, SUBSET Event)
      BY <3>1, <3>2 DEF RunType
    <3> QED BY <3>1, <3>3 DEF RunOK, RunType, RunInv
  <2>2. \A m \in late : m.to \in Warehouse /\ m.request \in UpdateRequest
    BY DEF FleetInv, Late, GoodMessage, MessageType
  <2>3. DOMAIN run = Agent
    BY DEF FleetInv, Runs
  <2> QED BY <2>1, <2>2, <2>3
       DEF TypeOK, FleetInv, World, GoodStore, GoodFeed, Counters
<1> QED BY <1>1, FleetInvariant, PTL

(* No agent ever plans to overwrite a warehouse that is ahead of an agreed *)
(* or lower state it observed (policy.py, README.md:89-91).                *)
THEOREM NewerIsSafe == Spec => []NewerIsNotOverwritten
<1>1. FleetInv => NewerIsNotOverwritten
  BY DEF FleetInv, Runs, GoodRun, RunInv, NewerIsNotOverwritten
<1> QED BY <1>1, FleetInvariant, PTL

(* What verification has seen is never undone, as long as no stock is      *)
(* corrupted behind the revision's back: not by a PUT that was given up    *)
(* and arrives at any later time, not by any number of other agents, not   *)
(* by the events posted since.                                             *)
THEOREM ResolvedIsStable ==
  ASSUME MaxMiscounts = 0
  PROVE  Spec => []ResolvedStands
<1>1. FleetInv => ResolvedStands
  <2> SUFFICES ASSUME FleetInv, NEW a \in Agent,
                      run[a].stage = "finished", run[a].outcome = "RESOLVED",
                      NEW w \in run[a].plan.participants
               PROVE  \/ store[w].rec.version > run[a].plan.version
                      \/ /\ store[w].rec.version = run[a].plan.version
                         /\ store[w].rec.inventory = run[a].plan.inventory
    BY DEF ResolvedStands
  <2>1. run[a] \in RunType /\ Verified(run[a]) /\ AllSeen(run[a].checked, store)
        /\ GoodStore(store)
    BY ARun DEF GoodRun, RunInv
  <2>2. w \in DOMAIN run[a].checked
        /\ run[a].checked[w].version = run[a].plan.version
        /\ run[a].checked[w].inventory = run[a].plan.inventory
    BY <2>1 DEF Verified
  <2>3. Seen(run[a].checked[w], store[w])
    BY <2>1, <2>2 DEF AllSeen
  <2>4. w \in Warehouse
    BY <2>1, <2>2, PartialFunctions DEF RunType
  <2>5. store[w].rec.version \in Nat /\ run[a].plan.version \in Nat
    BY <2>1, <2>3, <2>4, SealedIsKnown DEF GoodStore, Seen, RunType, Plan
  <2> QED BY <2>2, <2>3, <2>5 DEF Seen, SameRevision, SameStock
<1> QED BY <1>1, FleetInvariant, PTL

(* A reconciliation only ever replaces the revision its sender has read,   *)
(* for any number of agents and however late the PUT arrives.              *)
ReplacesWhatWasRead ==
  \A w \in Warehouse :
    /\ store'[w] # store[w]
    /\ store'[w].hist # store[w].hist
    /\ store'[w].rec.last.id > ReconcileBase
    => \E m \in InFlight : m.to = w /\ SameRevision(m.read, store[w].rec)

LEMMA StepReplacesWhatWasRead ==
  FleetInv /\ [Next]_vars => [ReplacesWhatWasRead]_vars
<1> SUFFICES ASSUME FleetInv, Next PROVE ReplacesWhatWasRead
  OBVIOUS
<1>1. CASE store' = store
  BY <1>1 DEF ReplacesWhatWasRead
<1>2. ASSUME NEW a \in Agent, ExecuteUpdate(a) PROVE ReplacesWhatWasRead
  <2> DEFINE m == Message(run[a], Min(run[a].todo))
  <2>1. GoodRun(run[a], store) /\ run[a].stage = "executing" /\ World
    BY <1>2, ARun DEF ExecuteUpdate, FleetInv
  <2>2. PICK outcome : Handle(m, outcome)
    BY <1>2 DEF ExecuteUpdate
  <2>3. m \in InFlight
    BY <2>1 DEF InFlight
  <2>4. GoodMessage(m, store)
    BY <2>1, NextMessageIsGood
  <2> HIDE DEF m
  <2> QED BY <2>1, <2>2, <2>3, <2>4, HandledMessage DEF ReplacesWhatWasRead
<1>3. ASSUME NEW m \in late, HandleLate(m) PROVE ReplacesWhatWasRead
  <2>1. m \in InFlight
    BY DEF InFlight
  <2>2. GoodMessage(m, store) /\ World
    BY DEF FleetInv, Late
  <2>3. PICK outcome : Handle(m, outcome)
    BY <1>3 DEF HandleLate
  <2> QED BY <2>1, <2>2, <2>3, HandledMessage DEF ReplacesWhatWasRead
<1>4. ASSUME NEW w \in Warehouse, Ingest(w) PROVE ReplacesWhatWasRead
  <2>1. store'[w].rec.last.id < ReconcileBase
        /\ \A v \in Warehouse \ {w} : store'[v] = store[v]
    BY <1>4, IngestedEvent
  <2>2. store'[w].rec.last.id \in Nat /\ ReconcileBase \in Nat
    <3>1. store[w] # Missing /\ Progress(store, store')
      BY <1>4, IngestedEvent DEF Ingest
    <3>2. store'[w].rec \in Record
      BY <3>1, SealedIsKnown DEF Progress, Advances
    <3> QED BY <3>2, WarehouseAssumption DEF Record, Event
  <2>3. ~(store'[w].rec.last.id > ReconcileBase)
    BY <2>1, <2>2
  <2> QED BY <2>1, <2>3 DEF ReplacesWhatWasRead
<1>5. ASSUME NEW w \in Warehouse, Miscount(w) PROVE ReplacesWhatWasRead
  BY <1>5, MiscountedStock DEF ReplacesWhatWasRead
<1>6. ASSUME NEW a \in Agent,
             \/ Start(a) \/ LoseUpdate(a) \/ Analyse(a) \/ Reassess(a)
             \/ Resolve(a)
             \/ \E w \in Warehouse : \/ LoseRead(a, w)
                                     \/ AnswerCatalogue(a, w)
                                     \/ AnswerEvents(a, w)
                                     \/ AnswerVerification(a, w)
      PROVE  ReplacesWhatWasRead
  <2>1. store' = store
    BY <1>6 DEF Start, LoseUpdate, Analyse, Reassess, Resolve, LoseRead,
       AnswerCatalogue, AnswerEvents, AnswerVerification, world
  <2> QED BY <1>1, <2>1
<1> QED BY <1>2, <1>3, <1>4, <1>5, <1>6 DEF Next, AgentStep

(* "This prevents the agent from overwriting a newer change that occurred  *)
(* after its initial read" (warehouse_rules.md:93).                        *)
THEOREM WritesReplaceWhatWasRead == Spec => WriteReplacesWhatWasRead
<1>1. WriteReplacesWhatWasRead <=> [][ReplacesWhatWasRead]_vars
  BY DEF WriteReplacesWhatWasRead, ReplacesWhatWasRead
<1>2. [][FleetInv /\ [Next]_vars]_vars => [][ReplacesWhatWasRead]_vars
  BY StepReplacesWhatWasRead, PTL
<1> QED BY <1>1, <1>2, FleetInvariant, PTL DEF Spec

-----------------------------------------------------------------------------
(* An agent that is alone with warehouses nobody else changes.  Whatever   *)
(* it reads stays as it is until its own writes, and after a verified one  *)
(* it writes nothing before it has looked again.                           *)

Records(st) == [w \in Warehouse |-> st[w].rec]

AllKnown(st) == \A w \in Warehouse : st[w] # Missing

(* The warehouses agree in everything the conflict detector compares. *)
Level(st) == AllKnown(st) /\ ~Conflict(Records(st))

AsTheyAre(f, st) ==
  \A w \in DOMAIN f : st[w] # Missing /\ f[w] = st[w].rec

QuietRun(r, st) ==
  /\ r.stage = "observing" =>
       /\ r.ok /\ AsTheyAre(r.obs, st)
       /\ \A w \in Warehouse \ r.waiting : st[w] # Missing => w \in DOMAIN r.obs
  /\ r.stage \in {"executing", "verifying"} => r.plan.participants = Warehouse
  /\ r.stage = "verifying" => AsTheyAre(r.checked, st)
  /\ r.stage \in {"idle", "observing", "investigating", "executing"} =>
       DOMAIN r.checked = {}
  /\ r.outcome = "RESOLVED" => r.stage \in {"observing", "finished"} /\ Level(st)

Quiet ==
  /\ late = {} /\ losses = 0
  /\ \A a \in Agent : QuietRun(run[a], store)

LEMMA ReadAsTheyAre ==
  ASSUME NEW st, NEW f \in Partial(Record), DOMAIN f = Warehouse, AsTheyAre(f, st)
  PROVE  f = Records(st)
<1>1. f \in [Warehouse -> Record]
  BY PartialFunctions
<1>2. \A w \in Warehouse : f[w] = st[w].rec
  BY DEF AsTheyAre
<1> QED BY <1>1, <1>2 DEF Records

LEMMA OneMoreAsItIs ==
  ASSUME NEW st, NEW f, AsTheyAre(f, st), NEW w, st[w] # Missing
  PROVE  AsTheyAre(With(f, w, st[w].rec), st)
<1> DEFINE g == With(f, w, st[w].rec)
<1>1. /\ DOMAIN g = DOMAIN f \cup {w}
      /\ \A v \in DOMAIN f \cup {w} : g[v] = IF v = w THEN st[w].rec ELSE f[v]
  <2>1. DOMAIN g = DOMAIN f \cup {w}
    BY WithDomain
  <2>2. \A v \in DOMAIN f \cup {w} : g[v] = IF v = w THEN st[w].rec ELSE f[v]
    BY WithValue
  <2> QED BY <2>1, <2>2
<1> HIDE DEF g
<1>2. AsTheyAre(g, st)
  BY <1>1 DEF AsTheyAre
<1> QED BY <1>2 DEF g

(* A decision to write is one for a fleet that was seen completely. *)
LEMMA ReconcileKnowsAll ==
  ASSUME NEW e, NEW plan, NEW d \in {Decide(e), Reassessed(plan, e)},
         d.outcome = "RECONCILE"
  PROVE  DOMAIN e.obs = Warehouse
<1>1. Escalate.outcome = "ESCALATE"
  BY DEF Escalate
<1>2. ~Unsafe(e)
  <2>1. Unsafe(e) => Decide(e) = Escalate
    BY Zenon DEF Decide
  <2>2. Reassessed(plan, e) \in {Escalate, Decide(e)}
    BY DEF Reassessed
  <2> QED BY <1>1, <2>1, <2>2
<1> QED BY <1>2 DEF Unsafe, MissingState

LEMMA QuietConclusion ==
  ASSUME NEW st, NEW r \in RunType, NEW d, QuietRun(r, st),
         r.stage \in {"observing", "investigating"}, r.outcome # "RESOLVED",
         d.outcome = "RECONCILE" => DOMAIN r.obs = Warehouse
  PROVE  QuietRun(Concluded(r, d), st)
<1> DEFINE plan == ReconciliationPlan(d, r.obs)
           s == [r EXCEPT !.stage = "executing", !.plan = plan,
                          !.todo = plan.targets]
<1>1. Concluded(r, d) \in {Finished(r, "NO_ACTION"), Finished(r, "ESCALATED")}
      \/ (d.outcome = "RECONCILE" /\ Concluded(r, d) = s)
  BY Zenon DEF Concluded, plan
<1>2. ASSUME NEW outcome \in {"NO_ACTION", "ESCALATED"}
      PROVE  QuietRun(Finished(r, outcome), st)
  BY DEF Finished, RunType, QuietRun
<1>3. CASE d.outcome = "RECONCILE" /\ Concluded(r, d) = s
  <2>1. plan.participants = Warehouse
    BY <1>3 DEF ReconciliationPlan
  <2> HIDE DEF plan
  <2>2. s.stage = "executing" /\ s.plan = plan /\ s.checked = r.checked
        /\ s.outcome = r.outcome
    BY DEF RunType
  <2> HIDE DEF s
  <2> QED BY <1>3, <2>1, <2>2 DEF QuietRun
<1> QED BY <1>1, <1>2, <1>3

(* An analysis after a verified run finds the warehouses as they were      *)
(* verified.                                                               *)
LEMMA AnalysisFindsNothing ==
  ASSUME FleetInv, Quiet, NEW a \in Agent, Analyse(a),
         run[a].outcome = "RESOLVED"
  PROVE  run' = [run EXCEPT ![a] = Finished(run[a], "CONSISTENT")]
<1> DEFINE r == run[a]
<1>1. r \in RunType /\ QuietRun(r, store) /\ r.stage = "observing"
      /\ r.waiting = {}
  BY ARun DEF Quiet, Analyse
<1>2. Level(store) /\ r.ok /\ AsTheyAre(r.obs, store)
  BY <1>1 DEF QuietRun
<1>3. DOMAIN r.obs = Warehouse
  <2>1. Warehouse \subseteq DOMAIN r.obs
    BY <1>1, <1>2 DEF QuietRun, Level, AllKnown
  <2> QED BY <1>1, <2>1, PartialFunctions DEF RunType
<1>4. r.obs = Records(store)
  BY <1>1, <1>2, <1>3, ReadAsTheyAre DEF RunType
<1>5. ~Conflict(r.obs)
  BY <1>2, <1>4 DEF Level
<1> QED BY <1>2, <1>5 DEF Analyse

(* What a verified run leaves is what the detector finds nothing in. *)
LEMMA VerifiedIsLevel ==
  ASSUME NEW st, NEW r \in RunType, QuietRun(r, st), r.stage = "verifying",
         Verified(r)
  PROVE  Level(st)
<1>1. AsTheyAre(r.checked, st) /\ DOMAIN r.checked = Warehouse
  BY DEF QuietRun, Verified
<1>2. r.checked = Records(st)
  BY <1>1, ReadAsTheyAre DEF RunType
<1>3. ~Conflict(r.checked)
  BY <1>1 DEF Verified, Conflict, MissingState
<1>4. AllKnown(st)
  BY <1>1 DEF AllKnown, AsTheyAre
<1> QED BY <1>2, <1>3, <1>4 DEF Level

-----------------------------------------------------------------------------
(* The steps of the only agent *)

Alone == \A a, b \in Agent : a = b

LEMMA QuietStep ==
  ASSUME Alone, FleetInv, Quiet, NEW a \in Agent, NEW r,
         run' = [run EXCEPT ![a] = r], QuietRun(r, store'),
         late' = late, losses' = losses
  PROVE  Quiet'
<1>1. run'[a] = r
  BY DEF FleetInv, Runs
<1>2. \A b \in Agent : QuietRun(run'[b], store')
  BY <1>1 DEF Alone
<1> QED BY <1>2 DEF Quiet

LEMMA StartQuiet ==
  ASSUME Alone, FleetInv, Quiet, NEW a \in Agent, Start(a)
  PROVE  Quiet'
<1> DEFINE r == [NewRun EXCEPT !.stage = "observing", !.waiting = Warehouse,
                               !.outcome = run[a].outcome]
<1>1. run' = [run EXCEPT ![a] = r] /\ late' = late /\ losses' = losses
      /\ store' = store
  BY DEF Start, world
<1>2. run[a].outcome = "RESOLVED" => Level(store)
  BY DEF Quiet, QuietRun
<1>3. r.stage = "observing" /\ r.ok /\ r.waiting = Warehouse /\ r.obs = <<>>
      /\ r.checked = <<>> /\ r.outcome = run[a].outcome
  BY DEF NewRun
<1> HIDE DEF r
<1>4. DOMAIN r.obs = {} /\ DOMAIN r.checked = {}
  BY <1>3, EmptyIsPartial
<1>5. QuietRun(r, store')
  BY <1>1, <1>2, <1>3, <1>4 DEF QuietRun, AsTheyAre
<1> QED BY <1>1, <1>5, QuietStep

LEMMA AnswerQuiet ==
  ASSUME Alone, FleetInv, Quiet, NEW a \in Agent, NEW w \in Warehouse,
         AnswerCatalogue(a, w) \/ AnswerEvents(a, w) \/ AnswerVerification(a, w)
  PROVE  Quiet'
<1>1. run[a] \in RunType /\ QuietRun(run[a], store) /\ run \in [Agent -> RunType]
  BY ARun DEF Quiet, FleetInv, Runs
<1>2. late' = late /\ losses' = losses /\ store' = store
  BY DEF AnswerCatalogue, AnswerEvents, AnswerVerification, world
<1>3. CASE AnswerCatalogue(a, w)
  <2> DEFINE obs == IF store[w] = Missing THEN run[a].obs
                    ELSE With(run[a].obs, w, store[w].rec)
             r == [run[a] EXCEPT !.waiting = @ \ {w}, !.obs = obs,
                                 !.known = With(@, w, reflected[w])]
  <2>1. run' = [run EXCEPT ![a] = r] /\ run[a].stage = "observing"
    BY <1>1, <1>3 DEF AnswerCatalogue, RunType
  <2>2. AsTheyAre(run[a].obs, store) /\ run[a].ok
    BY <1>1, <2>1 DEF QuietRun
  <2>3. /\ AsTheyAre(obs, store)
        /\ DOMAIN run[a].obs \subseteq DOMAIN obs
        /\ store[w] # Missing => w \in DOMAIN obs
    <3>1. DOMAIN With(run[a].obs, w, store[w].rec) = DOMAIN run[a].obs \cup {w}
      BY WithDomain
    <3>2. store[w] # Missing =>
            AsTheyAre(With(run[a].obs, w, store[w].rec), store)
      BY <2>2, OneMoreAsItIs
    <3> QED BY <2>2, <3>1, <3>2
  <2> HIDE DEF obs
  <2>4. r.stage = "observing" /\ r.ok = run[a].ok /\ r.obs = obs
        /\ r.waiting = run[a].waiting \ {w} /\ r.checked = run[a].checked
        /\ r.outcome = run[a].outcome
    BY <1>1, <2>1 DEF RunType
  <2> HIDE DEF r
  <2>5. QuietRun(r, store)
    BY <1>1, <2>1, <2>2, <2>3, <2>4 DEF QuietRun
  <2> QED BY <1>2, <2>1, <2>5, QuietStep
<1>4. CASE AnswerEvents(a, w)
  <2> DEFINE h == RecentEvents(store[w].hist, HistoryLimit)
             r == [run[a] EXCEPT !.waiting = @ \ {w},
                                 !.histories = With(@, w, h)]
  <2>1. run' = [run EXCEPT ![a] = r] /\ run[a].stage = "investigating"
    BY <1>1, <1>4 DEF AnswerEvents, RunType
  <2>2. r.stage = "investigating" /\ r.checked = run[a].checked
        /\ r.outcome = run[a].outcome
    BY <1>1, <2>1 DEF RunType
  <2> HIDE DEF r
  <2>3. QuietRun(r, store)
    BY <1>1, <2>1, <2>2 DEF QuietRun
  <2> QED BY <1>2, <2>1, <2>3, QuietStep
<1>5. CASE AnswerVerification(a, w)
  <2> DEFINE ch == With(run[a].checked, w, store[w].rec)
             r == [run[a] EXCEPT !.waiting = @ \ {w}, !.checked = ch]
  <2>1. run' = [run EXCEPT ![a] = r] /\ run[a].stage = "verifying"
        /\ store[w] # Missing
    BY <1>1, <1>5 DEF AnswerVerification, RunType
  <2>2. AsTheyAre(ch, store)
    BY <1>1, <2>1, OneMoreAsItIs DEF QuietRun
  <2> HIDE DEF ch
  <2>3. r.stage = "verifying" /\ r.checked = ch /\ r.plan = run[a].plan
        /\ r.outcome = run[a].outcome
    BY <1>1, <2>1 DEF RunType
  <2> HIDE DEF r
  <2>4. QuietRun(r, store)
    BY <1>1, <2>1, <2>2, <2>3 DEF QuietRun
  <2> QED BY <1>2, <2>1, <2>4, QuietStep
<1> QED BY <1>3, <1>4, <1>5

LEMMA AnalyseQuiet ==
  ASSUME Alone, FleetInv, Quiet, NEW a \in Agent, Analyse(a)
  PROVE  Quiet'
<1> DEFINE r == run[a]
           e == Assessment(r)
           d == Decide(e)
           asked == InvestigationPlan(d, e)
           s == [r EXCEPT !.stage = "investigating", !.waiting = asked,
                          !.queried = asked]
<1>1. r \in RunType /\ QuietRun(r, store) /\ r.stage = "observing"
  BY ARun DEF Quiet, Analyse
<1>2. late' = late /\ losses' = losses /\ store' = store
  BY DEF Analyse, world
<1>3. ASSUME NEW outcome \in {"FAILED", "CONSISTENT"}
      PROVE  QuietRun(Finished(r, outcome), store)
  BY <1>1 DEF Finished, RunType, QuietRun
<1>4. CASE r.outcome = "RESOLVED"
  <2>1. run' = [run EXCEPT ![a] = Finished(r, "CONSISTENT")]
    BY <1>4, AnalysisFindsNothing
  <2> HIDE DEF r
  <2> QED BY <1>2, <1>3, <2>1, QuietStep
<1>5. CASE r.outcome # "RESOLVED"
  <2>1. PICK x : /\ run' = [run EXCEPT ![a] = x]
                 /\ x \in {Finished(r, "FAILED"), Finished(r, "CONSISTENT"), s,
                           Concluded(r, d)}
    BY DEF Analyse
  <2>2. d.outcome = "RECONCILE" => DOMAIN r.obs = Warehouse
    <3>1. e.obs = r.obs
      BY DEF Assessment
    <3> HIDE DEF e
    <3> QED BY <3>1, ReconcileKnowsAll
  <2> HIDE DEF d
  <2>3. QuietRun(Concluded(r, d), store)
    BY <1>1, <1>5, <2>2, QuietConclusion
  <2>4. QuietRun(s, store)
    <3> HIDE DEF asked
    <3>1. s.stage = "investigating" /\ s.checked = r.checked
          /\ s.outcome = r.outcome
      BY <1>1 DEF RunType
    <3> HIDE DEF s
    <3> QED BY <1>1, <1>5, <3>1 DEF QuietRun
  <2> HIDE DEF s, r
  <2>5. QuietRun(x, store)
    BY <1>3, <2>1, <2>3, <2>4
  <2> QED BY <1>2, <2>1, <2>5, QuietStep
<1> QED BY <1>4, <1>5

LEMMA ReassessQuiet ==
  ASSUME Alone, FleetInv, Quiet, NEW a \in Agent, Reassess(a)
  PROVE  Quiet'
<1> DEFINE r == run[a]
           e == Assessment(r)
           d == Reassessed(r.queried, e)
<1>1. r \in RunType /\ QuietRun(r, store) /\ r.stage = "investigating"
  BY ARun DEF Quiet, Reassess
<1>2. late' = late /\ losses' = losses /\ store' = store
      /\ run' = [run EXCEPT ![a] = Concluded(r, d)]
  BY DEF Reassess, world
<1>3. d.outcome = "RECONCILE" => DOMAIN r.obs = Warehouse
  <2>1. e.obs = r.obs
    BY DEF Assessment
  <2> HIDE DEF e
  <2> QED BY <2>1, ReconcileKnowsAll
<1> HIDE DEF d, r
<1>4. r.outcome # "RESOLVED"
  BY <1>1 DEF QuietRun
<1>5. QuietRun(Concluded(r, d), store)
  BY <1>1, <1>3, <1>4, QuietConclusion
<1> QED BY <1>2, <1>5, QuietStep

(* A PUT may change a warehouse, but nothing that was read is used again   *)
(* before the next look at the fleet.                                      *)
LEMMA ExecuteQuiet ==
  ASSUME Alone, FleetInv, Quiet, NEW a \in Agent, ExecuteUpdate(a)
  PROVE  Quiet' /\ run'[a].outcome = run[a].outcome
<1> DEFINE r == run[a]
           w == Min(r.todo)
           again == [r EXCEPT !.ok = FALSE]
           next == [r EXCEPT !.todo = @ \ {w}]
<1>1. r \in RunType /\ QuietRun(r, store) /\ r.stage = "executing"
  BY ARun DEF Quiet, ExecuteUpdate
<1>2. PICK x : /\ run' = [run EXCEPT ![a] = x]
               /\ x \in {Verifying(again), Verifying(r), next}
  BY DEF ExecuteUpdate
<1>3. late' = late /\ losses' = losses
  BY DEF ExecuteUpdate
<1>4. r.plan.participants = Warehouse /\ DOMAIN r.checked = {}
      /\ r.outcome # "RESOLVED"
  BY <1>1 DEF QuietRun
<1> HIDE DEF w
<1>5. /\ x.stage \in {"executing", "verifying"} /\ x.checked = r.checked
      /\ x.plan = r.plan /\ x.outcome = r.outcome
  <2> DEFINE Same(y) ==
        /\ y.stage \in {"executing", "verifying"} /\ y.checked = r.checked
        /\ y.plan = r.plan /\ y.outcome = r.outcome
  <2>1. Same(next)
    BY <1>1 DEF RunType
  <2>2. Same(Verifying(r))
    BY <1>1 DEF Verifying, RunType
  <2>3. Same(Verifying(again))
    BY <1>1 DEF Verifying, RunType
  <2> HIDE DEF again, next, r
  <2> QED BY <1>2, <2>1, <2>2, <2>3
<1> HIDE DEF again, next, r
<1>6. QuietRun(x, store')
  BY <1>4, <1>5 DEF QuietRun, AsTheyAre
<1>7. run'[a] = x
  BY <1>2 DEF FleetInv, Runs
<1> QED BY <1>2, <1>3, <1>5, <1>6, <1>7, QuietStep DEF r

LEMMA ResolveQuiet ==
  ASSUME Alone, FleetInv, Quiet, NEW a \in Agent, Resolve(a)
  PROVE  Quiet'
<1> DEFINE r == run[a]
           outcome == IF r.ok /\ Verified(r) THEN "RESOLVED" ELSE "ESCALATED"
<1>1. r \in RunType /\ QuietRun(r, store) /\ r.stage = "verifying"
  BY ARun DEF Quiet, Resolve
<1>2. late' = late /\ losses' = losses /\ store' = store
      /\ run' = [run EXCEPT ![a] = Finished(r, outcome)]
  BY DEF Resolve, world
<1>3. outcome = "RESOLVED" => Level(store)
  BY <1>1, VerifiedIsLevel
<1> HIDE DEF outcome
<1>4. QuietRun(Finished(r, outcome), store)
  BY <1>1, <1>3 DEF Finished, RunType, QuietRun
<1> HIDE DEF r
<1> QED BY <1>2, <1>4, QuietStep

-----------------------------------------------------------------------------
(* The world is still: no exchange fails, no stock is miscounted and no    *)
(* event is posted.                                                        *)
Still == Alone /\ MaxLosses = 0 /\ MaxMiscounts = 0 /\ Deltas = <<>>

LEMMA StillSteps ==
  ASSUME Still, FleetInv, Quiet, Next
  PROVE  \E a \in Agent :
           \/ Start(a) \/ Analyse(a) \/ Reassess(a) \/ ExecuteUpdate(a)
           \/ Resolve(a)
           \/ \E w \in Warehouse : \/ AnswerCatalogue(a, w)
                                   \/ AnswerEvents(a, w)
                                   \/ AnswerVerification(a, w)
<1>1. ~(losses < MaxLosses)
  BY DEF Still, Quiet
<1>2. \A a \in Agent : ~LoseUpdate(a) /\ \A w \in Warehouse : ~LoseRead(a, w)
  BY <1>1 DEF LoseUpdate, LoseRead
<1>3. \A w \in Warehouse : ~Ingest(w)
  <2>1. DOMAIN Deltas = {}
    BY DEF Still
  <2> QED BY <2>1 DEF Ingest
<1>4. \A w \in Warehouse : ~Miscount(w)
  <2>1. ~(miscounts < MaxMiscounts)
    BY DEF Still, FleetInv, Counters
  <2> QED BY <2>1 DEF Miscount
<1>5. late = {}
  BY DEF Quiet
<1> QED BY <1>2, <1>3, <1>4, <1>5 DEF Next, AgentStep

LEMMA InitQuiet == Init => Quiet
<1> SUFFICES ASSUME Init PROVE Quiet
  OBVIOUS
<1>1. DOMAIN NewRun.checked = {} /\ NewRun.stage = "idle"
      /\ NewRun.outcome = "none"
  BY EmptyIsPartial DEF NewRun
<1>2. QuietRun(NewRun, store)
  BY <1>1 DEF QuietRun
<1> QED BY <1>2 DEF Init, Quiet

LEMMA NextQuiet ==
  ASSUME Still
  PROVE  FleetInv /\ Quiet /\ [Next]_vars => Quiet'
<1> SUFFICES ASSUME FleetInv, Quiet, [Next]_vars PROVE Quiet'
  OBVIOUS
<1>1. CASE UNCHANGED vars
  BY <1>1 DEF vars, Quiet
<1>2. CASE Next
  BY <1>2, StillSteps, StartQuiet, AnswerQuiet, AnalyseQuiet, ReassessQuiet,
     ExecuteQuiet, ResolveQuiet DEF Still
<1> QED BY <1>1, <1>2

FindsNothingAgain ==
  \A a \in Agent :
    (run[a].outcome = "RESOLVED" /\ run'[a].outcome # "RESOLVED")
      => run'[a].outcome = "CONSISTENT"

LEMMA StepFindsNothingAgain ==
  ASSUME Still
  PROVE  FleetInv /\ Quiet /\ [Next]_vars => [FindsNothingAgain]_vars
<1> SUFFICES ASSUME FleetInv, Quiet, Next PROVE FindsNothingAgain
  OBVIOUS
<1> SUFFICES ASSUME NEW a \in Agent, run[a].outcome = "RESOLVED",
                    run'[a].outcome # "RESOLVED"
             PROVE  run'[a].outcome = "CONSISTENT"
  BY DEF FindsNothingAgain
<1>1. run \in [Agent -> RunType] /\ QuietRun(run[a], store)
  BY DEF FleetInv, Runs, Quiet
<1>2. run[a].stage \in {"observing", "finished"}
  BY <1>1 DEF QuietRun
<1>3. \A b \in Agent : b = a
  BY DEF Still, Alone
<1>4. CASE Analyse(a)
  <2>1. run' = [run EXCEPT ![a] = Finished(run[a], "CONSISTENT")]
    BY <1>4, AnalysisFindsNothing
  <2> QED BY <1>1, <2>1 DEF Finished, RunType
<1>5. ~Start(a)
  <2>1. Start(a) => run'[a].outcome = run[a].outcome
    BY <1>1 DEF Start, NewRun
  <2> QED BY <2>1
<1>6. ~(Reassess(a) \/ Resolve(a) \/ ExecuteUpdate(a))
  BY <1>2 DEF Reassess, Resolve, ExecuteUpdate
<1>7. ASSUME NEW w \in Warehouse
      PROVE  ~(AnswerCatalogue(a, w) \/ AnswerEvents(a, w)
               \/ AnswerVerification(a, w))
  <2>1. AnswerCatalogue(a, w) => run'[a].outcome = run[a].outcome
    BY <1>1 DEF AnswerCatalogue, RunType
  <2>2. ~(AnswerEvents(a, w) \/ AnswerVerification(a, w))
    BY <1>2 DEF AnswerEvents, AnswerVerification
  <2> QED BY <2>1, <2>2
<1> QED BY <1>3, <1>4, <1>5, <1>6, <1>7, StillSteps

(* "Running the agent a second time to prove convergence and no repeated   *)
(* writes" (README.md:432): when nothing else changes the warehouses, the  *)
(* run after a resolved one finds nothing to do, however the first one     *)
(* came to its decision and whatever fleet it started from.                *)
THEOREM SecondRunIsConsistent ==
  ASSUME \A a, b \in Agent : a = b,
         MaxLosses = 0, MaxMiscounts = 0, Deltas = <<>>
  PROVE  Spec => SecondRunFindsNothing
<1>1. Still
  BY DEF Still, Alone
<1>2. FleetInv /\ Quiet /\ [Next]_vars => Quiet'
  BY <1>1, NextQuiet
<1>3. FleetInv /\ Quiet /\ [Next]_vars => [FindsNothingAgain]_vars
  BY <1>1, StepFindsNothingAgain
<1>4. Spec => []Quiet
  BY <1>2, InitQuiet, FleetInvariant, PTL DEF Spec
<1>5. SecondRunFindsNothing <=> [][FindsNothingAgain]_vars
  BY DEF SecondRunFindsNothing, FindsNothingAgain
<1>6. Spec => [][FindsNothingAgain]_vars
  BY <1>3, <1>4, FleetInvariant, PTL DEF Spec
<1> QED BY <1>5, <1>6

-----------------------------------------------------------------------------
(* The conflicts the README promises to resolve, as an agent sees them     *)

StaleFrom(obs, w) ==
  /\ Agree(obs, Warehouse \ {w})
  /\ \A v \in Warehouse \ {w} : OneBehind(obs, w, v)

NewerFrom(obs, read, w) ==
  /\ Agree(obs, Warehouse \ {w})
  /\ \A v \in Warehouse \ {w} :
       /\ OneBehind(obs, v, w)
       /\ Extends(read[w], obs[v]) /\ Explains(read[w], obs[v], obs[w])

OneFrom(obs, read, w) ==
  /\ SameVersionDivergence(obs)
  /\ \A u, v \in Warehouse : read[u] = read[v]
  /\ \A v \in Warehouse : Complete(read[v])
  /\ \A v \in Warehouse : Total(read[v]) = obs[v].inventory.on_hand <=> v # w

(* The histories a client reads of the fleet f *)
Recent(f) == [w \in Warehouse |-> RecentEvents(f.store[w].hist, HistoryLimit)]

(* Last written before the start *)
Early(rec) == rec.last.at < StartTime

Hopeful(obs, f) ==
  /\ DOMAIN obs = Warehouse
  /\ \E w \in Warehouse :
       \/ StaleFrom(obs, w)
       \/ /\ \A v \in Warehouse : Early(obs[v])
          /\ NewerFrom(obs, Recent(f), w) \/ OneFrom(obs, Recent(f), w)

FirstLook(obs) == [obs |-> obs, histories |-> <<>>]

LEMMA FirstLookIsObserved ==
  ASSUME NEW obs \in [Warehouse -> Record], ~IdentityMismatch(obs)
  PROVE  /\ Observed(FirstLook(obs)) /\ Investigated(FirstLook(obs)) = {}
         /\ FirstLook(obs).obs = obs
<1>1. DOMAIN <<>> = {}
  OBVIOUS
<1> QED BY <1>1 DEF FirstLook, Observed, Investigated

LEMMA StaleStart ==
  ASSUME Cardinality(Warehouse) >= 3,
         NEW obs \in [Warehouse -> Record], NEW w \in Warehouse,
         StaleFrom(obs, w)
  PROVE  /\ Odd(obs, w)
         /\ \A v \in Warehouse \ {w} : /\ obs[w].version < obs[v].version
                                       /\ obs[w].cursor < obs[v].cursor
<1>1. Several(Warehouse \ {w})
  BY SeveralOthers
<1>2. \A v \in Warehouse : obs[v].version \in Nat /\ obs[v].cursor \in Nat
  BY DEF Record
<1>3. \A v \in Warehouse \ {w} : /\ obs[w].version < obs[v].version
                                 /\ obs[w].cursor < obs[v].cursor
                                 /\ obs[v].version # obs[w].version
  BY <1>2 DEF StaleFrom, OneBehind
<1> QED BY <1>1, <1>3 DEF Odd, StaleFrom, Agree

LEMMA NewerStart ==
  ASSUME Cardinality(Warehouse) >= 3,
         NEW obs \in [Warehouse -> Record], NEW w \in Warehouse,
         Agree(obs, Warehouse \ {w}),
         \A v \in Warehouse \ {w} : OneBehind(obs, v, w)
  PROVE  Leads(obs, w)
<1>1. Several(Warehouse \ {w})
  BY SeveralOthers
<1>2. \A v \in Warehouse : obs[v].version \in Nat /\ obs[v].cursor \in Nat
  BY DEF Record
<1>3. \A v \in Warehouse \ {w} : /\ obs[v].version < obs[w].version
                                 /\ obs[v].cursor < obs[w].cursor
                                 /\ obs[v].version # obs[w].version
  BY <1>2 DEF OneBehind
<1> QED BY <1>1, <1>3 DEF Leads, Odd, Agree

LEMMA HopefulIsAConflict ==
  ASSUME Cardinality(Warehouse) >= 3,
         NEW obs \in [Warehouse -> Record], NEW f, Hopeful(obs, f)
  PROVE  Conflict(obs)
<1>1. PICK w \in Warehouse :
        \/ StaleFrom(obs, w)
        \/ NewerFrom(obs, Recent(f), w) \/ OneFrom(obs, Recent(f), w)
  BY DEF Hopeful
<1>2. CASE OneFrom(obs, Recent(f), w)
  BY <1>2 DEF OneFrom, SameVersionDivergence, Conflict
<1>3. CASE StaleFrom(obs, w) \/ NewerFrom(obs, Recent(f), w)
  <2>1. PICK v \in Warehouse \ {w} : TRUE
    BY SeveralOthers DEF Several
  <2>2. Odd(obs, w)
    BY <1>3, StaleStart, NewerStart DEF NewerFrom, Leads
  <2>3. obs[v].version # obs[w].version
    BY <2>2 DEF Odd
  <2>4. Several(Versions(obs))
    BY <2>3 DEF Several, Versions, Values, VersionOf
  <2> QED BY <2>4 DEF Conflict
<1> QED BY <1>1, <1>2, <1>3

(* At first sight the agent decides for a plan that levels the fleet or    *)
(* for reading histories.                                                  *)
LEMMA HopefulAtFirst ==
  ASSUME Cardinality(Warehouse) >= 3, ReadOnly = {},
         NEW obs \in [Warehouse -> Record], ~IdentityMismatch(obs),
         NEW f, Hopeful(obs, f)
  PROVE  LET d == Decide(FirstLook(obs)) IN
         \/ Promising(d, obs)
         \/ d.outcome = "INVESTIGATE"
<1> DEFINE e == FirstLook(obs)
<1>1. Observed(e) /\ Investigated(e) = {} /\ e.obs = obs
  BY FirstLookIsObserved
<1> HIDE DEF e
<1>2. PICK w \in Warehouse :
        \/ StaleFrom(obs, w)
        \/ NewerFrom(obs, Recent(f), w) \/ OneFrom(obs, Recent(f), w)
  BY DEF Hopeful
<1>3. CASE StaleFrom(obs, w)
  <2> DEFINE g == Warehouse \ {w}
             source == Min(g)
             targets == {w}
  <2>1. Odd(obs, w) /\ \A v \in g : /\ obs[w].version < obs[v].version
                                    /\ obs[w].cursor < obs[v].cursor
    BY <1>3, StaleStart
  <2>2. source \in g
    <3>1. g \in SUBSET Warehouse /\ g # {}
      BY SeveralOthers DEF Several
    <3> HIDE DEF g
    <3> QED BY <3>1, WarehousesAreNumbers
  <2>3. Decide(e) = Reconcile(source, targets)
    BY <1>1, <2>1, StaleIsReconciled
  <2>4. /\ \A v \in targets : /\ obs[v].version < obs[source].version
                              /\ obs[v].cursor + 1 = obs[source].cursor
        /\ \A v \in Warehouse \ targets :
             LogicalKey(obs[v]) = LogicalKey(obs[source])
        /\ targets \in SUBSET Warehouse /\ targets # {} /\ source \notin targets
        /\ source \in Warehouse
    BY <1>3, <2>1, <2>2 DEF StaleFrom, Agree, OneBehind
  <2> HIDE DEF source, targets
  <2>5. Promising(Reconcile(source, targets), obs)
    BY <2>4, ForwardPlans
  <2> QED BY <2>3, <2>5 DEF e
<1>4. CASE NewerFrom(obs, Recent(f), w)
  <2>1. Leads(obs, w)
    BY <1>4, NewerStart DEF NewerFrom
  <2>2. Decide(e) = Investigate({w})
    BY <1>1, <2>1, NewerIsAskedFirst
  <2> QED BY <2>2, InvestigateFields DEF e
<1>5. CASE OneFrom(obs, Recent(f), w)
  <2>1. Decide(e) = Investigate(Warehouse)
    BY <1>1, <1>5, DivergenceIsInvestigated DEF OneFrom
  <2> QED BY <2>1, InvestigateFields DEF e
<1> QED BY <1>2, <1>3, <1>4, <1>5

(* Once they are read it decides for such a plan.                          *)
LEMMA HopefulThen ==
  ASSUME Cardinality(Warehouse) >= 3, ReadOnly = {},
         NEW obs \in [Warehouse -> Record], ~IdentityMismatch(obs),
         NEW f, Hopeful(obs, f),
         Decide(FirstLook(obs)).outcome = "INVESTIGATE",
         NEW e, e.obs = obs,
         Investigated(e) = Decide(FirstLook(obs)).investigate,
         (\A v \in Warehouse : Early(obs[v])) =>
           \A w \in Investigated(e) : e.histories[w] = Recent(f)[w]
  PROVE  Promising(Decide(e), obs)
<1> DEFINE first == FirstLook(obs)
<1>1. Observed(first) /\ Investigated(first) = {} /\ first.obs = obs
  BY FirstLookIsObserved
<1>2. /\ Decide(first).outcome = "INVESTIGATE"
      /\ Investigated(e) = Decide(first).investigate
  OBVIOUS
<1> HIDE DEF first
<1>3. PICK w \in Warehouse :
        \/ StaleFrom(obs, w)
        \/ /\ \A v \in Warehouse : Early(obs[v])
           /\ NewerFrom(obs, Recent(f), w) \/ OneFrom(obs, Recent(f), w)
  BY DEF Hopeful
<1> DEFINE g == Warehouse \ {w}
<1>4. CASE StaleFrom(obs, w)
  <2>1. Decide(first) = Reconcile(Min(g), {w})
    BY <1>1, <1>4, StaleStart, StaleIsReconciled
  <2> QED BY <1>2, <2>1, ReconcileFields
<1>5. CASE /\ \A v \in Warehouse : Early(obs[v])
           /\ NewerFrom(obs, Recent(f), w)
  <2>1. Leads(obs, w)
    BY <1>5, NewerStart DEF NewerFrom
  <2>2. Decide(first) = Investigate({w})
    BY <1>1, <2>1, NewerIsAskedFirst
  <2>3. Investigated(e) = {w} /\ e.histories[w] = Recent(f)[w]
    BY <1>2, <1>5, <2>2, InvestigateFields
  <2>4. Observed(e)
    BY <2>3 DEF Observed
  <2>5. \A v \in g : Extends(e.histories[w], e.obs[v])
                     /\ Explains(e.histories[w], e.obs[v], e.obs[w])
    BY <1>5, <2>3 DEF NewerFrom
  <2>6. Decide(e) = Reconcile(w, g)
    BY <2>1, <2>3, <2>4, <2>5, NewerIsReconciled
  <2>7. /\ \A v \in g : /\ obs[v].version < obs[w].version
                        /\ obs[v].cursor + 1 = obs[w].cursor
        /\ \A v \in Warehouse \ g : LogicalKey(obs[v]) = LogicalKey(obs[w])
        /\ w \notin g /\ g \in SUBSET Warehouse /\ g # {}
    BY <1>5, <2>1, SeveralOthers DEF NewerFrom, OneBehind, Leads, Several
  <2> HIDE DEF g
  <2>8. Promising(Reconcile(w, g), obs)
    BY <2>7, ForwardPlans
  <2> QED BY <2>6, <2>8
<1>6. CASE /\ \A v \in Warehouse : Early(obs[v])
           /\ OneFrom(obs, Recent(f), w)
  <2> DEFINE source == Min(g)
             targets == {w}
  <2>1. SameVersionDivergence(obs)
    BY <1>6 DEF OneFrom
  <2>2. Decide(first) = Investigate(Warehouse)
    BY <1>1, <2>1, DivergenceIsInvestigated
  <2>3. Investigated(e) = Warehouse
        /\ \A v \in Warehouse : e.histories[v] = Recent(f)[v]
    BY <1>2, <1>6, <2>2, InvestigateFields
  <2>4. Observed(e)
    BY <2>3 DEF Observed
  <2>5. /\ \A v, u \in Warehouse : e.histories[v] = e.histories[u]
        /\ \A v \in Warehouse : Complete(e.histories[v])
        /\ \A v \in Warehouse : Replays(e, v) <=> v # w
    BY <1>6, <2>3 DEF OneFrom, Replays
  <2>6. Decide(e) = Reconcile(source, targets) /\ source \in g
    BY <2>1, <2>3, <2>4, <2>5, DivergenceIsRepaired
  <2>7. obs[w].inventory # obs[source].inventory /\ source \in Warehouse
    BY <1>6, <2>6 DEF OneFrom
  <2> HIDE DEF g, source
  <2>8. Promising(Reconcile(source, targets), obs)
    BY <2>1, <2>7, RepairPlans
  <2> QED BY <2>6, <2>8
<1> QED BY <1>3, <1>4, <1>5, <1>6

-----------------------------------------------------------------------------
(* What an entry has become since the fleet e0, ids0 was found: it is as   *)
(* it was or was written since, at the end of its history.                 *)
Stems(e, ids, e0, ids0) ==
  \/ e = e0 /\ ids = ids0
  \/ /\ e # Missing /\ e0 # Missing /\ ~Early(e.rec)
     /\ e.rec.product = e0.rec.product
     /\ e.hist[1] = e0.hist[1] /\ Len(e0.hist) <= Len(e.hist)
     /\ Range(e0.hist) \subseteq Range(e.hist)
     /\ \A x \in Range(e.hist) : x.at < StartTime => x \in Range(e0.hist)

(* No two warehouses were written at one time.                             *)
Apart(st) ==
  \A v, w \in Warehouse :
    (v # w /\ st[v] # Missing /\ st[w] # Missing /\ ~Early(st[v].rec)) =>
      st[w].rec.last # st[v].rec.last

(* A warehouse that was written since is at no version of its own.         *)
Followed(recs) ==
  \A w \in Warehouse : ~Early(recs[w]) =>
    \E v \in Warehouse \ {w} : recs[w].version <= recs[v].version

Since(f) ==
  /\ feed = f.feed /\ StartTime <= clock
  /\ \A w \in Warehouse : Stems(store[w], reflected[w], f.store[w], f.reflected[w])
  /\ \A w \in Warehouse : store[w] # Missing => store[w].rec.last.at < clock
  /\ Apart(store)

Traced(obs, known, f) ==
  /\ \A w \in DOMAIN obs : /\ f.store[w] # Missing
                           /\ obs[w].product = f.store[w].rec.product
  /\ \A w \in DOMAIN obs : Early(obs[w]) =>
       obs[w] = f.store[w].rec /\ known[w] = f.reflected[w]
  /\ \A v, w \in DOMAIN obs : v # w /\ ~Early(obs[v]) => obs[w].last # obs[v].last
  /\ DOMAIN obs = Warehouse => Followed(obs)

(* An agent that reads histories has read the fleet as it is.              *)
Asking(r, st) ==
  /\ r.ok /\ AsTheyAre(r.obs, st)
  /\ Decide(FirstLook(r.obs)).outcome = "INVESTIGATE"
  /\ r.queried = Decide(FirstLook(r.obs)).investigate
  /\ DOMAIN r.histories = r.queried \ r.waiting
  /\ \A w \in DOMAIN r.histories :
       r.histories[w] = RecentEvents(st[w].hist, HistoryLimit)

(* A target that has taken its write                                       *)
Taken(e, rec, plan) ==
  /\ e # Missing
  /\ e.rec.version = plan.version /\ e.rec.inventory = plan.inventory
  /\ e.rec.product = rec.product
  /\ rec.version = plan.version => e.rec = rec
  /\ rec.version # plan.version => e.rec.cursor = rec.cursor + 1

(* A plan whose writes are all taken, and how far it has come              *)
Carried(r, st) ==
  /\ r.ok /\ DOMAIN r.obs = Warehouse
  /\ \A w \in r.plan.targets :
       /\ r.obs[w].version <= r.plan.version
       /\ r.obs[w].version = r.plan.version =>
            r.obs[w].inventory = r.plan.inventory
       /\ r.obs[w].version # r.plan.version =>
            \E v \in Warehouse \ {w} :
              v \in r.plan.targets \/ r.obs[v].version = r.plan.version
  /\ \A w \in Warehouse :
       IF w \in r.plan.targets \ r.todo
       THEN Taken(st[w], r.obs[w], r.plan)
       ELSE st[w] # Missing /\ st[w].rec = r.obs[w]

RunSince(r, f, st, rf) ==
  /\ r.stage = "observing" =>
       \A w \in Warehouse \ r.waiting :
         w \in DOMAIN r.known /\ r.known[w] = rf[w]
  /\ r.stage \notin {"idle", "observing"} => Traced(r.obs, r.known, f)
  /\ r.stage = "investigating" => Asking(r, st)
  /\ r.stage \in {"executing", "verifying"} => Carried(r, st)
  /\ (r.stage \in {"executing", "verifying"} /\ Hopeful(r.obs, f)) =>
       Levels(r.plan, r.obs)
  /\ r.stage = "verifying" =>
       r.todo = {} /\ DOMAIN r.checked = Warehouse \ r.waiting
  /\ (r.stage = "finished" /\ Hopeful(r.obs, f)) => r.outcome = "RESOLVED"
  /\ (r.stage # "executing" /\ AllKnown(st)) => Followed(Records(st))

Promised(f) ==
  /\ Since(f)
  /\ \A a \in Agent : RunSince(run[a], f, store, reflected)

-----------------------------------------------------------------------------
LEMMA RecordsAreRead ==
  ASSUME FleetInv, NEW f, Since(f), NEW obs \in Partial(Record),
         AsTheyAre(obs, store), NEW known,
         \A w \in DOMAIN obs : known[w] = reflected[w],
         AllKnown(store) => Followed(Records(store))
  PROVE  Traced(obs, known, f)
<1>1. \A w \in DOMAIN obs : w \in Warehouse /\ store[w] # Missing
                            /\ obs[w] = store[w].rec
  BY PartialFunctions DEF AsTheyAre
<1>2. ASSUME NEW w \in DOMAIN obs
      PROVE  /\ f.store[w] # Missing
             /\ obs[w].product = f.store[w].rec.product
             /\ Early(obs[w]) => obs[w] = f.store[w].rec
                                 /\ known[w] = f.reflected[w]
  <2>1. Stems(store[w], reflected[w], f.store[w], f.reflected[w])
    BY <1>1 DEF Since
  <2> QED BY <1>1, <2>1 DEF Stems
<1>3. \A v, w \in DOMAIN obs : v # w /\ ~Early(obs[v]) => obs[w].last # obs[v].last
  BY <1>1 DEF Since, Apart
<1>4. ASSUME DOMAIN obs = Warehouse PROVE Followed(obs)
  <2>1. AllKnown(store)
    BY <1>1, <1>4 DEF AllKnown
  <2>2. obs = Records(store)
    BY <1>4, ReadAsTheyAre
  <2> QED BY <2>1, <2>2
<1> QED BY <1>2, <1>3, <1>4 DEF Traced

(* All that was read is of one product. *)
LEMMA OneProductIsRead ==
  ASSUME NEW f, EvidentFleet(f), NEW obs, NEW known, Traced(obs, known, f),
         DOMAIN obs = Warehouse
  PROVE  ~IdentityMismatch(obs)
<1> DEFINE first == [w \in Warehouse |-> f.store[w].rec]
<1>1. ~IdentityMismatch(first)
  <2>1. \A w \in Warehouse : f.store[w] # Missing
    BY DEF Traced
  <2> QED BY <2>1 DEF EvidentFleet
<1>2. \A v, w \in Warehouse : f.store[v].rec.product = f.store[w].rec.product
  <2>1. \A w \in Warehouse : first[w] = f.store[w].rec
    OBVIOUS
  <2>2. DOMAIN first = Warehouse
    OBVIOUS
  <2> HIDE DEF first
  <2> QED BY <1>1, <2>1, <2>2, OneProduct
<1>3. \A v, w \in Warehouse : obs[v].product = obs[w].product
  BY <1>2 DEF Traced
<1> QED BY <1>3 DEF IdentityMismatch, Several, Values, ProductOf

(* The agent's step of its own run, when it leaves the warehouses alone *)
LEMMA SinceStays ==
  ASSUME NEW f, Since(f), UNCHANGED world
  PROVE  Since(f)'
BY DEF world, Since, Apart

LEMMA PromisedStep ==
  ASSUME Alone, FleetInv, NEW f, Promised(f), Since(f)', NEW a \in Agent, NEW x,
         run' = [run EXCEPT ![a] = x], RunSince(x, f, store', reflected')
  PROVE  Promised(f)'
<1>1. run'[a] = x
  BY DEF FleetInv, Runs
<1>2. \A b \in Agent : RunSince(run'[b], f, store', reflected')
  BY <1>1 DEF Alone
<1> QED BY <1>2 DEF Promised

LEMMA StartPromised ==
  ASSUME Alone, FleetInv, NEW f, Promised(f), NEW a \in Agent, Start(a)
  PROVE  Promised(f)'
<1> DEFINE r == [NewRun EXCEPT !.stage = "observing", !.waiting = Warehouse,
                               !.outcome = run[a].outcome]
<1>1. run' = [run EXCEPT ![a] = r] /\ UNCHANGED world
  BY DEF Start
<1>2. Since(f)' /\ store' = store /\ reflected' = reflected
  BY <1>1, SinceStays DEF Promised, world
<1>3. RunSince(run[a], f, store, reflected) /\ run[a].stage # "executing"
  BY DEF Promised, Start
<1>4. r.stage = "observing" /\ r.waiting = Warehouse
  BY DEF NewRun
<1> HIDE DEF r
<1>5. RunSince(r, f, store', reflected')
  BY <1>2, <1>3, <1>4 DEF RunSince
<1> QED BY <1>1, <1>2, <1>5, PromisedStep

LEMMA AnswerPromised ==
  ASSUME Alone, FleetInv, Quiet, NEW f, Promised(f), NEW a \in Agent,
         NEW w \in Warehouse,
         AnswerCatalogue(a, w) \/ AnswerEvents(a, w) \/ AnswerVerification(a, w)
  PROVE  Promised(f)'
<1>1. /\ run[a] \in RunType /\ RunInv(run[a]) /\ QuietRun(run[a], store)
      /\ run \in [Agent -> RunType] /\ RunSince(run[a], f, store, reflected)
  BY ARun DEF Quiet, FleetInv, Runs, Promised
<1>2. UNCHANGED world
  BY DEF AnswerCatalogue, AnswerEvents, AnswerVerification
<1>3. Since(f)' /\ store' = store /\ reflected' = reflected
  BY <1>2, SinceStays DEF Promised, world
<1>4. CASE AnswerCatalogue(a, w)
  <2> DEFINE obs == IF store[w] = Missing THEN run[a].obs
                    ELSE With(run[a].obs, w, store[w].rec)
             known == With(run[a].known, w, reflected[w])
             r == [run[a] EXCEPT !.waiting = @ \ {w}, !.obs = obs,
                                 !.known = known]
  <2>1. run' = [run EXCEPT ![a] = r] /\ run[a].stage = "observing"
    BY <1>1, <1>4 DEF AnswerCatalogue, RunType
  <2>2. \A v \in Warehouse \ (run[a].waiting \ {w}) :
          v \in DOMAIN known /\ known[v] = reflected[v]
    <3> HIDE DEF r, obs
    <3>1. DOMAIN known = DOMAIN run[a].known \cup {w}
      BY WithDomain
    <3>2. \A v \in DOMAIN run[a].known \cup {w} :
            known[v] = IF v = w THEN reflected[w] ELSE run[a].known[v]
      BY WithValue
    <3>3. \A v \in Warehouse \ run[a].waiting :
            v \in DOMAIN run[a].known /\ run[a].known[v] = reflected[v]
      BY <1>1, <2>1 DEF RunSince
    <3> HIDE DEF known
    <3> QED BY <3>1, <3>2, <3>3
  <2> HIDE DEF obs, known
  <2>3. r.stage = "observing" /\ r.known = known
        /\ r.waiting = run[a].waiting \ {w}
    BY <1>1, <2>1 DEF RunType
  <2> HIDE DEF r
  <2>4. RunSince(r, f, store, reflected)
    BY <1>1, <2>1, <2>2, <2>3 DEF RunSince
  <2> QED BY <1>3, <2>1, <2>4, PromisedStep
<1>5. CASE AnswerEvents(a, w)
  <2> DEFINE h == RecentEvents(store[w].hist, HistoryLimit)
             hs == With(run[a].histories, w, h)
             r == [run[a] EXCEPT !.waiting = @ \ {w}, !.histories = hs]
  <2>1. run' = [run EXCEPT ![a] = r] /\ run[a].stage = "investigating"
        /\ w \in run[a].waiting
    BY <1>1, <1>5 DEF AnswerEvents, RunType
  <2>2. Asking(run[a], store) /\ run[a].waiting \subseteq run[a].queried
    BY <1>1, <2>1 DEF RunSince, RunInv
  <2>3. /\ DOMAIN hs = run[a].queried \ (run[a].waiting \ {w})
        /\ \A v \in DOMAIN hs : hs[v] = RecentEvents(store[v].hist, HistoryLimit)
    <3>1. DOMAIN hs = DOMAIN run[a].histories \cup {w}
      BY WithDomain
    <3>2. \A v \in DOMAIN run[a].histories \cup {w} :
            hs[v] = IF v = w THEN h ELSE run[a].histories[v]
      BY WithValue
    <3> HIDE DEF hs
    <3> QED BY <2>1, <2>2, <3>1, <3>2 DEF Asking
  <2> HIDE DEF hs
  <2>4. /\ r.stage = "investigating" /\ r.obs = run[a].obs
        /\ r.queried = run[a].queried /\ r.histories = hs
        /\ r.waiting = run[a].waiting \ {w} /\ r.known = run[a].known
        /\ r.ok = run[a].ok
    BY <1>1, <2>1 DEF RunType
  <2> HIDE DEF r
  <2>5. Asking(r, store)
    BY <2>2, <2>3, <2>4 DEF Asking
  <2>6. RunSince(r, f, store, reflected)
    BY <1>1, <2>1, <2>4, <2>5 DEF RunSince
  <2> QED BY <1>3, <2>1, <2>6, PromisedStep
<1>6. CASE AnswerVerification(a, w)
  <2> DEFINE ch == With(run[a].checked, w, store[w].rec)
             r == [run[a] EXCEPT !.waiting = @ \ {w}, !.checked = ch]
  <2>1. run' = [run EXCEPT ![a] = r] /\ run[a].stage = "verifying"
        /\ w \in run[a].waiting
    BY <1>1, <1>6 DEF AnswerVerification, RunType
  <2>2. DOMAIN ch = DOMAIN run[a].checked \cup {w}
    BY WithDomain
  <2> HIDE DEF ch
  <2>3. /\ r.stage = "verifying" /\ r.obs = run[a].obs /\ r.checked = ch
        /\ r.plan = run[a].plan /\ r.todo = run[a].todo /\ r.ok = run[a].ok
        /\ r.waiting = run[a].waiting \ {w} /\ r.known = run[a].known
    BY <1>1, <2>1 DEF RunType
  <2> HIDE DEF r
  <2>4. DOMAIN r.checked = Warehouse \ r.waiting
    BY <1>1, <2>1, <2>2, <2>3 DEF RunSince
  <2>5. Carried(r, store)
    BY <1>1, <2>1, <2>3 DEF RunSince, Carried
  <2>6. RunSince(r, f, store, reflected)
    BY <1>1, <2>1, <2>3, <2>4, <2>5 DEF RunSince
  <2> QED BY <1>3, <2>1, <2>6, PromisedStep
<1> QED BY <1>4, <1>5, <1>6

-----------------------------------------------------------------------------
(* A decision for a plan that levels the fleet starts it. *)
LEMMA PromisingStarts ==
  ASSUME NEW r, NEW d, Promising(d, r.obs)
  PROVE  LET plan == ReconciliationPlan(d, r.obs)
         IN  /\ plan.targets # {}
             /\ Concluded(r, d) = [r EXCEPT !.stage = "executing", !.plan = plan,
                                            !.todo = plan.targets]
<1> DEFINE plan == ReconciliationPlan(d, r.obs)
<1>1. d.outcome = "RECONCILE" /\ SafePlan(plan, d, r.obs) /\ plan.targets # {}
  BY DEF Promising, Levels
<1> QED BY <1>1 DEF Concluded

(* What a validated plan writes has another warehouse to follow. *)
LEMMA PlannedWritesFollow ==
  ASSUME Cardinality(Warehouse) >= 3, NEW obs \in [Warehouse -> Record], NEW d,
         SoundReconciliation(d, obs),
         SafePlan(ReconciliationPlan(d, obs), d, obs)
  PROVE  LET plan == ReconciliationPlan(d, obs) IN
         \A w \in plan.targets :
           /\ obs[w].version <= plan.version
           /\ obs[w].version = plan.version => obs[w].inventory = plan.inventory
           /\ obs[w].version # plan.version =>
                \E v \in Warehouse \ {w} :
                  v \in plan.targets \/ obs[v].version = plan.version
<1> DEFINE plan == ReconciliationPlan(d, obs)
<1>1. d.source \in Warehouse
  BY DEF SoundReconciliation
<1>2. plan.repair => plan.targets = Warehouse
  BY DEF ReconciliationPlan
<1>3. ~plan.repair => plan.version = obs[d.source].version
  BY DEF ReconciliationPlan
<1>4. \A w \in plan.targets :
        /\ w \in Warehouse /\ plan.version >= obs[w].version
        /\ plan.version = obs[w].version => plan.inventory = obs[w].inventory
  BY DEF SafePlan
<1>5. plan.version \in Nat
  BY PlansAreSound
<1> HIDE DEF plan
<1>6. ASSUME NEW w \in plan.targets, obs[w].version # plan.version
      PROVE  \E v \in Warehouse \ {w} :
               v \in plan.targets \/ obs[v].version = plan.version
  <2>1. CASE plan.repair
    <3>1. PICK v \in Warehouse \ {w} : TRUE
      BY <1>4, SeveralOthers DEF Several
    <3> QED BY <1>2, <2>1, <3>1
  <2>2. CASE ~plan.repair
    BY <1>1, <1>3, <1>6, <2>2
  <2> QED BY <2>1, <2>2
<1>7. \A w \in Warehouse : obs[w].version \in Nat
  BY DEF Record
<1>8. \A w \in plan.targets :
        /\ obs[w].version <= plan.version
        /\ obs[w].version = plan.version => obs[w].inventory = plan.inventory
  BY <1>4, <1>5, <1>7
<1> QED BY <1>6, <1>8 DEF plan

LEMMA ConcludedSince ==
  ASSUME Cardinality(Warehouse) >= 3, NEW f, NEW st, NEW rf, NEW r \in RunType,
         r.ok, AsTheyAre(r.obs, st), Traced(r.obs, r.known, f),
         NEW e, e.obs = r.obs, NEW p, NEW d \in {Decide(e), Reassessed(p, e)},
         SoundDecision(d, r.obs),
         Hopeful(r.obs, f) => Promising(d, r.obs),
         AllKnown(st) => Followed(Records(st))
  PROVE  RunSince(Concluded(r, d), f, st, rf)
<1> DEFINE plan == ReconciliationPlan(d, r.obs)
           s == [r EXCEPT !.stage = "executing", !.plan = plan,
                          !.todo = plan.targets]
<1>1. \/ /\ Concluded(r, d) \in {Finished(r, "NO_ACTION"),
                                 Finished(r, "ESCALATED")}
         /\ ~Promising(d, r.obs)
      \/ /\ d.outcome = "RECONCILE" /\ SafePlan(plan, d, r.obs)
         /\ Concluded(r, d) = s
  BY Zenon DEF Concluded, Promising, Levels, plan
<1>2. ASSUME NEW outcome \in {"NO_ACTION", "ESCALATED"}, ~Promising(d, r.obs)
      PROVE  RunSince(Finished(r, outcome), f, st, rf)
  <2> DEFINE t == Finished(r, outcome)
  <2>1. t.stage = "finished" /\ t.obs = r.obs /\ t.known = r.known
    BY DEF Finished, RunType
  <2> HIDE DEF t
  <2> QED BY <1>2, <2>1 DEF RunSince, t
<1>3. CASE /\ d.outcome = "RECONCILE" /\ SafePlan(plan, d, r.obs)
           /\ Concluded(r, d) = s
  <2>1. DOMAIN r.obs = Warehouse
    BY <1>3, ReconcileKnowsAll
  <2>2. r.obs \in [Warehouse -> Record]
    BY <2>1, PartialFunctions DEF RunType
  <2>3. SoundReconciliation(d, r.obs)
    BY <1>3, ReconcileIsSound
  <2>4. \A w \in plan.targets :
          /\ r.obs[w].version <= plan.version
          /\ r.obs[w].version = plan.version =>
               r.obs[w].inventory = plan.inventory
          /\ r.obs[w].version # plan.version =>
               \E v \in Warehouse \ {w} :
                 v \in plan.targets \/ r.obs[v].version = plan.version
    BY <1>3, <2>2, <2>3, PlannedWritesFollow
  <2>5. Hopeful(r.obs, f) => Levels(plan, r.obs)
    BY DEF Promising
  <2> HIDE DEF plan
  <2>6. s.stage = "executing" /\ s.obs = r.obs /\ s.known = r.known
        /\ s.plan = plan /\ s.todo = plan.targets /\ s.ok = r.ok
    BY DEF RunType
  <2> HIDE DEF s
  <2>7. Carried(s, st)
    <3>1. \A w \in Warehouse : st[w] # Missing /\ st[w].rec = r.obs[w]
      BY <2>1 DEF AsTheyAre
    <3> QED BY <2>1, <2>4, <2>6, <3>1 DEF Carried
  <2>8. RunSince(s, f, st, rf)
    BY <2>5, <2>6, <2>7 DEF RunSince
  <2> QED BY <1>3, <2>8
<1> QED BY <1>1, <1>2, <1>3

(* What an agent makes of a fleet it is promised to resolve *)
LEMMA HopefulIsOneProduct ==
  ASSUME NEW f, EvidentFleet(f), NEW obs \in Partial(Record), NEW known,
         Traced(obs, known, f), Hopeful(obs, f)
  PROVE  obs \in [Warehouse -> Record] /\ ~IdentityMismatch(obs)
<1>1. DOMAIN obs = Warehouse
  BY DEF Hopeful
<1> QED BY <1>1, PartialFunctions, OneProductIsRead

LEMMA AnalysePromised ==
  ASSUME Alone, Cardinality(Warehouse) >= 3, ReadOnly = {},
         FleetInv, Quiet, NEW f, EvidentFleet(f), Promised(f),
         NEW a \in Agent, Analyse(a)
  PROVE  Promised(f)'
<1> DEFINE r == run[a]
           e == Assessment(r)
           d == Decide(e)
           asked == InvestigationPlan(d, e)
           s == [r EXCEPT !.stage = "investigating", !.waiting = asked,
                          !.queried = asked]
<1>1. /\ r \in RunType /\ RunInv(r) /\ GoodRun(r, store) /\ QuietRun(r, store)
      /\ r.stage = "observing" /\ r.waiting = {} /\ Since(f)
      /\ RunSince(r, f, store, reflected)
  BY ARun DEF Quiet, Analyse, Promised
<1>2. Since(f)' /\ store' = store /\ reflected' = reflected
  BY <1>1, SinceStays DEF Analyse, world
<1>3. r.ok /\ AsTheyAre(r.obs, store) /\ r.plan = NoPlan
      /\ DOMAIN r.histories = {} /\ r.obs \in Partial(Record)
  BY <1>1 DEF QuietRun, RunInv, RunType
<1>4. AllKnown(store) => Followed(Records(store))
  BY <1>1 DEF RunSince
<1>5. Traced(r.obs, r.known, f)
  <2>1. \A w \in DOMAIN r.obs : w \in Warehouse
    BY <1>3, PartialFunctions
  <2>2. \A w \in DOMAIN r.obs : r.known[w] = reflected[w]
    BY <1>1, <2>1 DEF RunSince
  <2> HIDE DEF r
  <2> QED BY <1>1, <1>3, <1>4, <2>2, RecordsAreRead
<1>6. e = FirstLook(r.obs) /\ e.obs = r.obs
  <2>1. r.histories = <<>>
    <3>1. r.histories \in [{} -> SUBSET Event]
      BY <1>1, <1>3, PartialFunctions DEF RunType
    <3> QED BY <3>1
  <2> QED BY <2>1 DEF Assessment, FirstLook
<1>7. Hopeful(r.obs, f) =>
        /\ r.obs \in [Warehouse -> Record] /\ ~IdentityMismatch(r.obs)
        /\ Conflict(r.obs)
  <2> HIDE DEF r
  <2> QED BY <1>3, <1>5, HopefulIsOneProduct, HopefulIsAConflict
<1>8. SoundDecision(d, r.obs)
  BY <1>1, RunsAreAssessed, DecisionsAreSound
<1>9. CASE ~Conflict(r.obs)
  <2> DEFINE t == Finished(r, "CONSISTENT")
  <2>1. run' = [run EXCEPT ![a] = t]
    BY <1>3, <1>9 DEF Analyse
  <2>2. t.stage = "finished" /\ t.obs = r.obs /\ t.known = r.known
    BY <1>1 DEF Finished, RunType
  <2> HIDE DEF t, r
  <2>3. RunSince(t, f, store', reflected')
    BY <1>2, <1>4, <1>5, <1>7, <1>9, <2>2 DEF RunSince
  <2> QED BY <1>2, <2>1, <2>3, PromisedStep
<1>10. CASE Conflict(r.obs) /\ d.outcome = "INVESTIGATE"
  <2>1. run' = [run EXCEPT ![a] = s]
    BY <1>3, <1>10 DEF Analyse
  <2>2. asked = Decide(FirstLook(r.obs)).investigate
        /\ Decide(FirstLook(r.obs)).outcome = "INVESTIGATE"
    <3>1. Investigated(e) = {}
      BY <1>3 DEF Investigated, Assessment
    <3>2. asked = d.investigate
      BY <1>10, <3>1 DEF InvestigationPlan
    <3> QED BY <1>6, <1>10, <3>2
  <2> HIDE DEF asked
  <2>3. s.stage = "investigating" /\ s.waiting = asked /\ s.queried = asked
        /\ s.obs = r.obs /\ s.known = r.known /\ s.ok = r.ok
        /\ s.histories = r.histories
    BY <1>1 DEF RunType
  <2> HIDE DEF s, r
  <2>4. Asking(s, store')
    BY <1>2, <1>3, <2>2, <2>3 DEF Asking
  <2>5. RunSince(s, f, store', reflected')
    BY <1>2, <1>4, <1>5, <2>3, <2>4 DEF RunSince
  <2> QED BY <1>2, <2>1, <2>5, PromisedStep
<1>11. CASE Conflict(r.obs) /\ d.outcome # "INVESTIGATE"
  <2>1. run' = [run EXCEPT ![a] = Concluded(r, d)]
    BY <1>3, <1>11 DEF Analyse
  <2>2. Hopeful(r.obs, f) => Promising(d, r.obs)
    <3> HIDE DEF r
    <3>1. Hopeful(r.obs, f) =>
            \/ Promising(Decide(FirstLook(r.obs)), r.obs)
            \/ Decide(FirstLook(r.obs)).outcome = "INVESTIGATE"
      BY <1>7, HopefulAtFirst
    <3> QED BY <1>6, <1>11, <3>1
  <2> HIDE DEF r, e
  <2>3. RunSince(Concluded(r, d), f, store, reflected)
    BY <1>1, <1>3, <1>4, <1>5, <1>6, <1>8, <2>2, ConcludedSince
  <2> QED BY <1>2, <2>1, <2>3, PromisedStep
<1> QED BY <1>9, <1>10, <1>11

LEMMA ReassessPromised ==
  ASSUME Alone, Cardinality(Warehouse) >= 3, ReadOnly = {},
         FleetInv, Quiet, NEW f, EvidentFleet(f), Promised(f),
         NEW a \in Agent, Reassess(a)
  PROVE  Promised(f)'
<1> DEFINE r == run[a]
           e == Assessment(r)
           d == Reassessed(r.queried, e)
<1>1. /\ r \in RunType /\ RunInv(r) /\ GoodRun(r, store)
      /\ r.stage = "investigating" /\ r.waiting = {} /\ Since(f)
      /\ RunSince(r, f, store, reflected)
  BY ARun DEF Reassess, Promised
<1>2. /\ Since(f)' /\ store' = store /\ reflected' = reflected
      /\ run' = [run EXCEPT ![a] = Concluded(r, d)]
  BY <1>1, SinceStays DEF Reassess, world
<1>3. /\ Asking(r, store) /\ Traced(r.obs, r.known, f)
      /\ AllKnown(store) => Followed(Records(store))
  BY <1>1 DEF RunSince
<1>4. SoundDecision(d, r.obs)
  BY <1>1, RunsAreAssessed, ReassessedIsSound
<1>5. e.obs = r.obs /\ e.histories = r.histories
      /\ Investigated(e) = Decide(FirstLook(r.obs)).investigate
      /\ Decide(FirstLook(r.obs)).outcome = "INVESTIGATE"
      /\ Investigated(e) = r.queried
  BY <1>1, <1>3 DEF Assessment, Investigated, Asking
<1>6. r.obs \in Partial(Record) /\ r.queried \subseteq DOMAIN r.obs
      /\ r.queried \subseteq Warehouse
  BY <1>1 DEF RunType, RunInv
<1> HIDE DEF r, e
<1>7. ASSUME Hopeful(r.obs, f) PROVE Promising(d, r.obs)
  <2>1. r.obs \in [Warehouse -> Record] /\ ~IdentityMismatch(r.obs)
    BY <1>3, <1>6, <1>7, HopefulIsOneProduct
  <2>2. ASSUME \A v \in Warehouse : Early(r.obs[v]), NEW w \in Investigated(e)
        PROVE  e.histories[w] = Recent(f)[w]
    <3>1. /\ w \in Warehouse /\ w \in DOMAIN r.obs /\ w \in DOMAIN r.histories
      BY <1>3, <1>1, <1>5, <1>6, <2>2 DEF Asking
    <3>2. Early(store[w].rec)
      BY <1>3, <2>2, <3>1 DEF Asking, AsTheyAre
    <3>3. Stems(store[w], reflected[w], f.store[w], f.reflected[w])
      BY <1>1, <3>1 DEF Since
    <3>4. store[w] = f.store[w]
      BY <3>2, <3>3 DEF Stems
    <3>5. r.histories[w] = RecentEvents(store[w].hist, HistoryLimit)
      BY <1>3, <3>1 DEF Asking
    <3> QED BY <1>5, <3>1, <3>4, <3>5 DEF Recent
  <2>3. Promising(Decide(e), r.obs)
    BY <1>5, <1>7, <2>1, <2>2, HopefulThen
  <2>4. Decide(e).outcome = "RECONCILE"
    BY <2>3 DEF Promising
  <2>5. d = Decide(e)
    BY <2>4 DEF Reassessed
  <2> QED BY <2>3, <2>5
<1>8. r.ok /\ AsTheyAre(r.obs, store)
  BY <1>3 DEF Asking
<1>9. RunSince(Concluded(r, d), f, store, reflected)
  <2> HIDE DEF d
  <2>1. d \in {Decide(e), Reassessed(r.queried, e)}
    BY DEF d
  <2> QED BY <1>1, <1>3, <1>4, <1>5, <1>7, <1>8, <2>1, ConcludedSince
<1> QED BY <1>2, <1>9, PromisedStep

-----------------------------------------------------------------------------
(* A PUT of a still world is taken. *)

LEMMA PutIsTaken ==
  ASSUME ReadOnly = {}, reflected \in [Warehouse -> SUBSET Nat],
         NEW r, NEW w \in Warehouse, NEW outcome,
         r.plan.version \in Nat, store[w].rec \in Record,
         store[w].rec = r.obs[w],
         r.obs[w].version <= r.plan.version,
         r.obs[w].version = r.plan.version =>
           r.obs[w].inventory = r.plan.inventory,
         Handle(Message(r, w), outcome)
  PROVE  \/ /\ outcome = "unchanged" /\ UNCHANGED <<store, reflected, clock>>
            /\ r.obs[w].version = r.plan.version
         \/ /\ outcome = "updated"
            /\ r.obs[w].version # r.plan.version
            /\ store' = [store EXCEPT ![w] =
                           AfterUpdate(@, Request(r, w), clock)]
            /\ clock' = clock + 1
            /\ \A v \in Warehouse \ {w} :
                 reflected'[v] = reflected[v]
<1> DEFINE m == Message(r, w)
<1>1. m.to = w /\ m.request = Request(r, w)
  BY DEF Message
<1>2. /\ m.request.expected = store[w].rec.version
      /\ m.request.target = r.plan.version
      /\ m.request.inventory = r.plan.inventory
  BY <1>1 DEF Request
<1>3. store[w].rec.version \in Nat
  BY DEF Record
<1> HIDE DEF m
<1>4. UpdateOutcome(store[w].rec, m.request, w \notin ReadOnly)
        = IF r.obs[w].version = r.plan.version
          THEN "unchanged" ELSE "updated"
  BY <1>2, <1>3 DEF UpdateOutcome
<1>5. outcome = UpdateOutcome(store[w].rec, m.request, w \notin ReadOnly)
  BY <1>1 DEF Handle, m
<1>6. CASE outcome = "updated"
  <2>1. /\ store' = [store EXCEPT ![w] = AfterUpdate(@, m.request, clock)]
        /\ reflected' = [reflected EXCEPT ![w] = m.carries]
        /\ clock' = clock + 1
    BY <1>1, <1>6 DEF Handle, m
  <2> QED BY <1>1, <1>4, <1>5, <1>6, <2>1
<1>7. CASE outcome # "updated"
  <2>1. UNCHANGED <<store, reflected, clock>>
    BY <1>7 DEF Handle
  <2> QED BY <1>4, <1>5, <1>7, <2>1
<1> QED BY <1>6, <1>7

(* What a warehouse has become by a write at the time now *)
Rewritten(e, e1, req, now) ==
  /\ e1 # Missing
  /\ e1.rec.version = req.target /\ e1.rec.inventory = req.inventory
  /\ e1.rec.product = e.rec.product
  /\ e1.rec.cursor = e.rec.cursor + 1
  /\ e1.rec.last.at = now
  /\ e1.hist[1] = e.hist[1] /\ Len(e.hist) <= Len(e1.hist)
  /\ Range(e.hist) \subseteq Range(e1.hist)
  /\ \A x \in Range(e1.hist) : x \in Range(e.hist) \/ x.at = now

(* An accepted update rewrites the entry so. *)
LEMMA TakenWrite ==
  ASSUME NEW e, Sealed(e), NEW req \in UpdateRequest, NEW now \in Nat,
         NEW e1, e1 = AfterUpdate(e, req, now)
  PROVE  Rewritten(e, e1, req, now)
<1> DEFINE ev == ReconcileEvent(e.rec, req, now)
<1>1. e \in Entry /\ e.rec \in Record /\ e.hist \in Seq(Event) /\ e.hist # <<>>
  BY SealedIsKnown DEF Sealed, Entry
<1>2. e1 \in Entry /\ e1.hist = Append(e.hist, ev) /\ e1.rec.last = ev
  BY <1>1, UpdateKeepsEntry
<1>3. ev.at = now
  BY DEF ReconcileEvent
<1>4. /\ e1.rec.version = req.target /\ e1.rec.inventory = req.inventory
      /\ e1.rec.product = e.rec.product
      /\ e1.rec.cursor = e.rec.cursor + 1
  BY <1>1 DEF AfterUpdate, Record
<1> HIDE DEF ev
<1>5. /\ Len(e1.hist) = Len(e.hist) + 1 /\ Len(e.hist) \in Nat
      /\ DOMAIN e1.hist = 1..(Len(e.hist) + 1) /\ DOMAIN e.hist = 1..Len(e.hist)
      /\ \A i \in 1..Len(e.hist) : e1.hist[i] = e.hist[i]
      /\ e1.hist[Len(e.hist) + 1] = ev /\ Len(e.hist) # 0
  <2>1. ev \in Event
    BY <1>1, ReconcileEventType DEF ev
  <2> QED BY <1>1, <1>2, <2>1
<1>6. e1.hist[1] = e.hist[1] /\ Len(e.hist) <= Len(e1.hist)
  BY <1>5
<1>7. Range(e.hist) \subseteq Range(e1.hist)
  BY <1>5 DEF Range
<1>8. ASSUME NEW x \in Range(e1.hist) PROVE x \in Range(e.hist) \/ x.at = now
  <2>1. PICK i \in DOMAIN e1.hist : x = e1.hist[i]
    BY DEF Range
  <2>2. CASE i \in 1..Len(e.hist)
    BY <1>5, <2>1, <2>2 DEF Range
  <2>3. CASE i = Len(e.hist) + 1
    BY <1>3, <1>5, <2>1, <2>3
  <2> QED BY <1>5, <2>1, <2>2, <2>3
<1>9. e1 # Missing
  BY <1>2, WarehouseAssumption
<1> QED BY <1>2, <1>3, <1>4, <1>6, <1>7, <1>8, <1>9 DEF Rewritten

(* A write at or after the start leaves the fleet one that stems from f. *)
LEMMA StemsAfterWrite ==
  ASSUME NEW e, Sealed(e), NEW req \in UpdateRequest, NEW now \in Nat,
         StartTime <= now, NEW e0, e0 # Missing, NEW ids, NEW ids0, NEW ids1,
         Stems(e, ids, e0, ids0), e0 \in Entry
  PROVE  Stems(AfterUpdate(e, req, now), ids1, e0, ids0)
<1> DEFINE e1 == AfterUpdate(e, req, now)
<1>0. e1 = AfterUpdate(e, req, now)
  OBVIOUS
<1> HIDE DEF e1
<1>1. /\ e1 # Missing
      /\ e1.rec.product = e.rec.product
      /\ e1.rec.last.at = now
      /\ e1.hist[1] = e.hist[1] /\ Len(e.hist) <= Len(e1.hist)
      /\ Range(e.hist) \subseteq Range(e1.hist)
      /\ \A x \in Range(e1.hist) : x \in Range(e.hist) \/ x.at = now
  <2>1. Rewritten(e, e1, req, now)
    BY <1>0, TakenWrite
  <2> QED BY <2>1 DEF Rewritten
<1>2. ~(now < StartTime) /\ StartTime \in Nat
  BY DEF StartTime
<1>3. ~Early(e1.rec)
  BY <1>1, <1>2 DEF Early
<1>4. Len(e.hist) \in Nat /\ Len(e0.hist) \in Nat /\ Len(e1.hist) \in Int
  <2>1. e.hist \in Seq(Event) /\ e0.hist \in Seq(Event)
    BY SealedIsKnown DEF Entry
  <2>2. e1 \in Entry
    BY UpdateKeepsEntry DEF e1, Sealed
  <2>3. e1.hist \in Seq(Event)
    BY <2>2 DEF Entry
  <2> QED BY <2>1, <2>3
<1>5. /\ e.rec.product = e0.rec.product
      /\ e.hist[1] = e0.hist[1] /\ Len(e0.hist) <= Len(e.hist)
      /\ Range(e0.hist) \subseteq Range(e.hist)
      /\ \A x \in Range(e.hist) : x.at < StartTime => x \in Range(e0.hist)
  BY <1>4 DEF Stems
<1>6. Len(e0.hist) <= Len(e1.hist)
  BY <1>1, <1>4, <1>5
<1>7. \A x \in Range(e1.hist) : x.at < StartTime => x \in Range(e0.hist)
  BY <1>1, <1>2, <1>5
<1> QED BY <1>1, <1>3, <1>5, <1>6, <1>7 DEF Stems, e1

(* When all writes are taken no warehouse is left at a version of its own. *)
LEMMA CarriedFollows ==
  ASSUME NEW r \in RunType, NEW f, NEW st, Carried(r, st), r.todo = {},
         Traced(r.obs, r.known, f)
  PROVE  Followed(Records(st))
<1> DEFINE recs == Records(st)
           T == r.plan.targets
<1>1. /\ r.obs \in [Warehouse -> Record] /\ r.plan.version \in Nat
      /\ T \subseteq Warehouse
  <2>1. DOMAIN r.obs = Warehouse /\ r.obs \in Partial(Record) /\ r.plan \in Plan
    BY DEF Carried, RunType
  <2> QED BY <2>1, PartialFunctions DEF Plan
<1>2. Followed(r.obs)
  BY <1>1 DEF Traced
<1>3. \A w \in Warehouse : recs[w] = st[w].rec
  BY DEF Records
<1>4. /\ \A w \in Warehouse \ T : recs[w] = r.obs[w]
      /\ \A w \in T : /\ recs[w].version = r.plan.version
                      /\ r.obs[w].version = r.plan.version => recs[w] = r.obs[w]
  BY <1>1, <1>3 DEF Carried, Taken
<1>5. /\ \A w \in T : r.obs[w].version <= r.plan.version
      /\ \A w \in T : r.obs[w].version # r.plan.version =>
           \E v \in Warehouse \ {w} :
             v \in T \/ r.obs[v].version = r.plan.version
  BY DEF Carried
<1>6. \A w \in Warehouse : r.obs[w].version \in Nat
  BY <1>1 DEF Record
<1> HIDE DEF recs, T
<1>7. \A v \in Warehouse : /\ r.obs[v].version <= recs[v].version
                           /\ recs[v].version \in Nat
  BY <1>1, <1>4, <1>5, <1>6
<1>8. ASSUME NEW w \in Warehouse, ~Early(recs[w])
      PROVE  \E v \in Warehouse \ {w} : recs[w].version <= recs[v].version
  <2>1. CASE recs[w] = r.obs[w]
    <3>1. PICK v \in Warehouse \ {w} : r.obs[w].version <= r.obs[v].version
      BY <1>2, <1>8, <2>1 DEF Followed
    <3>2. recs[w].version <= recs[v].version
      BY <1>6, <1>7, <2>1, <3>1
    <3> QED BY <3>2
  <2>2. CASE w \in T /\ r.obs[w].version # r.plan.version
    <3>1. PICK v \in Warehouse \ {w} : v \in T \/ r.obs[v].version = r.plan.version
      BY <1>5, <2>2
    <3>2. recs[v].version = r.plan.version
      BY <1>4, <3>1
    <3> QED BY <1>1, <1>4, <2>2, <3>2
  <2> QED BY <1>4, <2>1, <2>2
<1> QED BY <1>8 DEF Followed, recs

LEMMA WriteSince ==
  ASSUME FleetInv, NEW f \in Fleets, Since(f), NEW w \in Warehouse,
         store[w] # Missing, f.store[w] # Missing, NEW req \in UpdateRequest,
         store' = [store EXCEPT ![w] = AfterUpdate(@, req, clock)],
         \A v \in Warehouse \ {w} : reflected'[v] = reflected[v],
         clock' = clock + 1, feed' = feed
  PROVE  Since(f)'
<1> DEFINE e1 == AfterUpdate(store[w], req, clock)
<1>1. /\ Sealed(store[w]) /\ clock \in Nat /\ StartTime <= clock
      /\ StartTime \in Nat
      /\ store \in [Warehouse -> Entry \cup {Missing}]
      /\ \A v \in Warehouse : store[v] # Missing => Sealed(store[v])
  BY DEF FleetInv, World, GoodStore, Since, StartTime
<1>2. f.store[w] \in Entry
  BY ReconciliationAssumption DEF Fleet
<1>3. store'[w] = e1 /\ \A v \in Warehouse \ {w} : store'[v] = store[v]
  BY <1>1
<1>4. Stems(store[w], reflected[w], f.store[w], f.reflected[w])
  BY DEF Since
<1>5. Stems(e1, reflected'[w], f.store[w], f.reflected[w])
  BY <1>1, <1>2, <1>4, StemsAfterWrite
<1>6. e1.rec.last.at = clock
  <2>1. e1 = AfterUpdate(store[w], req, clock)
    OBVIOUS
  <2> HIDE DEF e1
  <2>2. Rewritten(store[w], e1, req, clock)
    BY <1>1, <2>1, TakenWrite
  <2> QED BY <2>2 DEF Rewritten
<1> HIDE DEF e1
<1>7. \A v \in Warehouse :
        Stems(store'[v], reflected'[v], f.store[v], f.reflected[v])
  BY <1>3, <1>5 DEF Since
<1>8. \A v \in Warehouse \ {w} :
        store'[v] # Missing => store'[v].rec.last.at < clock
  BY <1>3 DEF Since
<1>9. \A v \in Warehouse : store'[v] # Missing =>
        store'[v].rec.last.at \in Nat
  <2>1. \A v \in Warehouse \ {w} : store[v] # Missing =>
          store[v].rec.last.at \in Nat
    BY <1>1, SealedIsKnown DEF Record, Event
  <2> QED BY <1>1, <1>3, <1>6, <2>1
<1>10. \A v \in Warehouse : store'[v] # Missing =>
         store'[v].rec.last.at < clock + 1
  BY <1>1, <1>3, <1>6, <1>8, <1>9
<1>11. Apart(store')
  <2> SUFFICES ASSUME NEW u \in Warehouse, NEW v \in Warehouse, u # v,
                      store'[u] # Missing, store'[v] # Missing,
                      ~Early(store'[u].rec)
               PROVE  store'[v].rec.last # store'[u].rec.last
    BY DEF Apart
  <2>1. CASE u = w
    BY <1>1, <1>3, <1>6, <1>8, <2>1
  <2>2. CASE v = w
    BY <1>1, <1>3, <1>6, <1>8, <2>2
  <2>3. CASE u # w /\ v # w
    BY <1>3, <2>3 DEF Since, Apart
  <2> QED BY <2>1, <2>2, <2>3
<1>12. StartTime <= clock + 1
  BY <1>1
<1> QED BY <1>7, <1>10, <1>11, <1>12 DEF Since

LEMMA ExecutePromised ==
  ASSUME Alone, ReadOnly = {}, FleetInv, Quiet, NEW f \in Fleets, Promised(f),
         NEW a \in Agent, ExecuteUpdate(a)
  PROVE  Promised(f)'
<1> DEFINE r == run[a]
           w == Min(r.todo)
<1>1. /\ r \in RunType /\ RunInv(r) /\ GoodRun(r, store)
      /\ r.stage = "executing" /\ Since(f)
      /\ RunSince(r, f, store, reflected)
  BY ARun DEF ExecuteUpdate, Promised
<1>2. Carried(r, store) /\ Traced(r.obs, r.known, f)
      /\ (Hopeful(r.obs, f) => Levels(r.plan, r.obs))
  BY <1>1 DEF RunSince
<1>3. /\ w \in r.todo /\ w \in Warehouse /\ w \in r.plan.targets
      /\ Message(r, w) \in MessageType
  BY <1>1, NextMessageIsGood DEF GoodMessage, RunInv, RunType
<1>4. /\ DOMAIN r.obs = Warehouse /\ r.ok
      /\ store[w] # Missing /\ store[w].rec = r.obs[w]
      /\ r.obs[w].version <= r.plan.version
      /\ r.obs[w].version = r.plan.version =>
           r.obs[w].inventory = r.plan.inventory
  BY <1>2, <1>3 DEF Carried
<1>5. /\ Sealed(store[w]) /\ store[w].rec \in Record /\ clock \in Nat
      /\ reflected \in [Warehouse -> SUBSET Nat]
      /\ store \in [Warehouse -> Entry \cup {Missing}]
  BY <1>3, <1>4, SealedIsKnown DEF FleetInv, World, GoodStore
<1>6. r.plan.version \in Nat /\ r.plan.targets \subseteq Warehouse
      /\ r.plan.participants = Warehouse
  BY <1>1 DEF RunType, Plan, Quiet, QuietRun
<1>7. Request(r, w) \in UpdateRequest /\ f.store[w] # Missing
      /\ Request(r, w).target = r.plan.version
      /\ Request(r, w).inventory = r.plan.inventory
  BY <1>2, <1>3, <1>4 DEF Message, MessageType, Request, Traced
<1>8. PICK outcome :
        /\ Handle(Message(r, w), outcome)
        /\ run' = [run EXCEPT ![a] =
             IF outcome \notin {"unchanged", "updated"}
               THEN Verifying([r EXCEPT !.ok = FALSE])
             ELSE IF r.todo = {w} THEN Verifying(r)
             ELSE [r EXCEPT !.todo = @ \ {w}]]
        /\ feed' = feed
  BY DEF ExecuteUpdate
<1> HIDE DEF w
<1>9. \/ /\ outcome = "unchanged" /\ UNCHANGED <<store, reflected, clock>>
         /\ r.obs[w].version = r.plan.version
      \/ /\ outcome = "updated"
         /\ r.obs[w].version # r.plan.version
         /\ store' = [store EXCEPT ![w] = AfterUpdate(@, Request(r, w), clock)]
         /\ clock' = clock + 1
         /\ \A v \in Warehouse \ {w} : reflected'[v] = reflected[v]
  <2> HIDE DEF r
  <2>1. Handle(Message(r, w), outcome)
    BY <1>8
  <2> QED BY <1>3, <1>4, <1>5, <1>6, <2>1, PutIsTaken
<1> DEFINE req == Request(r, w)
           x == IF r.todo = {w} THEN Verifying(r) ELSE [r EXCEPT !.todo = @ \ {w}]
<1>10. run' = [run EXCEPT ![a] = x]
  BY <1>8, <1>9
<1>11. /\ x \in RunType
       /\ x.obs = r.obs /\ x.known = r.known /\ x.plan = r.plan
       /\ x.ok = r.ok /\ x.checked = r.checked /\ x.todo = r.todo \ {w}
       /\ \/ x.stage = "executing" /\ r.todo # {w}
          \/ x.stage = "verifying" /\ x.waiting = Warehouse /\ r.todo = {w}
  BY <1>1, <1>6 DEF Verifying, RunType, Stage
<1>12. DOMAIN x.checked = {}
  BY <1>1, <1>11 DEF Quiet, QuietRun
<1> HIDE DEF r, x, req
<1>13. Since(f)'
  <2>1. CASE outcome = "updated"
    BY <1>1, <1>3, <1>4, <1>7, <1>8, <1>9, <2>1, WriteSince
  <2>2. CASE outcome # "updated"
    <3>1. UNCHANGED <<store, reflected, clock, feed>>
      BY <1>8, <1>9, <2>2
    <3> QED BY <1>1, <3>1 DEF Since, Apart
  <2> QED BY <2>1, <2>2
<1>14. /\ Taken(store'[w], r.obs[w], r.plan)
       /\ \A v \in Warehouse \ {w} : store'[v] = store[v]
  <2>1. CASE outcome = "updated"
    <3>1. \A v \in Warehouse \ {w} : store'[v] = store[v]
      BY <1>5, <1>9, <2>1
    <3>2. store'[w] = AfterUpdate(store[w], req, clock) /\ req \in UpdateRequest
      BY <1>3, <1>5, <1>7, <1>9, <2>1 DEF req
    <3>3. /\ store'[w] # Missing
          /\ store'[w].rec.version = req.target
          /\ store'[w].rec.inventory = req.inventory
          /\ store'[w].rec.product = store[w].rec.product
          /\ store'[w].rec.cursor = store[w].rec.cursor + 1
      <4>1. Rewritten(store[w], store'[w], req, clock)
        BY <1>5, <3>2, TakenWrite
      <4> QED BY <4>1 DEF Rewritten
    <3> QED BY <1>4, <1>7, <1>9, <2>1, <3>1, <3>3 DEF Taken, req
  <2>2. CASE outcome # "updated"
    <3>1. store' = store /\ r.obs[w].version = r.plan.version
      BY <1>9, <2>2
    <3> QED BY <1>4, <3>1 DEF Taken
  <2> QED BY <2>1, <2>2
<1>15. Carried(x, store')
  <2>1. ASSUME NEW v \in Warehouse
        PROVE  IF v \in x.plan.targets \ x.todo
               THEN Taken(store'[v], x.obs[v], x.plan)
               ELSE store'[v] # Missing /\ store'[v].rec = x.obs[v]
    <3>1. CASE v = w
      BY <1>3, <1>11, <1>14, <3>1
    <3>2. CASE v # w
      <4>1. store'[v] = store[v]
        BY <1>14, <3>2
      <4>2. v \in x.plan.targets \ x.todo <=> v \in r.plan.targets \ r.todo
        BY <1>11, <3>2
      <4>3. IF v \in r.plan.targets \ r.todo
            THEN Taken(store[v], r.obs[v], r.plan)
            ELSE store[v] # Missing /\ store[v].rec = r.obs[v]
        BY <1>2 DEF Carried
      <4> QED BY <1>11, <4>1, <4>2, <4>3
    <3> QED BY <3>1, <3>2
  <2> QED BY <1>2, <1>11, <2>1 DEF Carried
<1>16. x.stage = "verifying" => Followed(Records(store'))
  <2>1. Traced(x.obs, x.known, f)
    BY <1>2, <1>11
  <2>2. x.stage = "verifying" => x.todo = {}
    BY <1>11
  <2> QED BY <1>11, <1>15, <2>1, <2>2, CarriedFollows
<1>17. RunSince(x, f, store', reflected')
  BY <1>2, <1>11, <1>12, <1>15, <1>16 DEF RunSince
<1> QED BY <1>10, <1>13, <1>17, PromisedStep

(* A plan that levels is found to have levelled. *)
LEMMA LevelledIsVerified ==
  ASSUME NEW r \in RunType, NEW f, EvidentFleet(f), NEW st, Carried(r, st),
         r.todo = {}, Traced(r.obs, r.known, f), Levels(r.plan, r.obs),
         r.checked = Records(st)
  PROVE  Verified(r)
<1> DEFINE recs == Records(st)
           T == r.plan.targets
<1>1. DOMAIN r.obs = Warehouse /\ r.obs \in [Warehouse -> Record]
      /\ r.plan.participants = Warehouse /\ T \subseteq Warehouse
  <2>1. DOMAIN r.obs = Warehouse /\ r.obs \in Partial(Record)
    BY DEF Carried, RunType
  <2> QED BY <2>1, PartialFunctions DEF Levels
<1>2. \A w \in Warehouse : recs[w] = st[w].rec
  BY DEF Records
<1>3. DOMAIN recs = Warehouse
  BY DEF Records
<1>4. PICK c \in Nat : \A w \in Warehouse :
        r.obs[w].cursor = IF w \in T THEN c - 1 ELSE c
  BY <1>1 DEF Levels
<1>5. \A w \in Warehouse : r.obs[w].version \in Nat /\ r.plan.version \in Nat
  BY <1>1 DEF Record, RunType, Plan
<1>6. \A w \in T : r.obs[w].version # r.plan.version
  BY <1>1, <1>5 DEF Levels
<1>7. \A w \in Warehouse \ T :
        r.obs[w].inventory = r.plan.inventory /\ r.obs[w].version = r.plan.version
  BY <1>1 DEF Levels
<1>8. \A w \in T : Taken(st[w], r.obs[w], r.plan)
  BY <1>1 DEF Carried
<1>9. \A w \in Warehouse \ T : st[w].rec = r.obs[w]
  BY DEF Carried
<1> HIDE DEF recs, T
<1>10. ASSUME NEW w \in Warehouse
       PROVE  /\ recs[w].inventory = r.plan.inventory
              /\ recs[w].version = r.plan.version
              /\ recs[w].cursor = c
              /\ recs[w].product = r.obs[w].product
  <2>1. CASE w \in T
    <3>1. recs[w].cursor = r.obs[w].cursor + 1
      BY <1>2, <1>6, <1>8, <2>1 DEF Taken
    <3> QED BY <1>2, <1>4, <1>8, <2>1, <3>1 DEF Taken
  <2>2. CASE w \notin T
    BY <1>2, <1>4, <1>7, <1>9, <2>2
  <2> QED BY <2>1, <2>2
<1>11. ~Several(Inventories(recs)) /\ ~Several(Versions(recs))
       /\ ~Several(Cursors(recs))
  BY <1>3, <1>10 DEF Several, Inventories, Versions, Cursors, Values,
     InventoryOf, VersionOf, CursorOf
<1>12. ~IdentityMismatch(recs)
  <2>1. ~IdentityMismatch(r.obs)
    BY <1>1, OneProductIsRead
  <2>2. \A v, w \in Warehouse : r.obs[v].product = r.obs[w].product
    BY <1>1, <2>1, OneProduct
  <2> QED BY <1>3, <1>10, <2>2 DEF IdentityMismatch, Several, Values, ProductOf
<1>13. r.checked = recs
  BY DEF recs
<1> QED BY <1>1, <1>3, <1>10, <1>11, <1>12, <1>13 DEF Verified

LEMMA ResolvePromised ==
  ASSUME Alone, FleetInv, Quiet, NEW f, EvidentFleet(f), Promised(f),
         NEW a \in Agent, Resolve(a)
  PROVE  Promised(f)'
<1> DEFINE r == run[a]
           outcome == IF r.ok /\ Verified(r) THEN "RESOLVED" ELSE "ESCALATED"
           x == Finished(r, outcome)
<1>1. /\ r \in RunType /\ QuietRun(r, store) /\ r.stage = "verifying"
      /\ r.waiting = {} /\ Since(f) /\ RunSince(r, f, store, reflected)
  BY ARun DEF Quiet, Resolve, Promised
<1>2. /\ Since(f)' /\ store' = store /\ reflected' = reflected
      /\ run' = [run EXCEPT ![a] = x]
  BY <1>1, SinceStays DEF Resolve, world
<1>3. /\ Carried(r, store) /\ Traced(r.obs, r.known, f)
      /\ r.todo = {} /\ DOMAIN r.checked = Warehouse
      /\ Hopeful(r.obs, f) => Levels(r.plan, r.obs)
      /\ AllKnown(store) => Followed(Records(store))
  BY <1>1 DEF RunSince
<1>4. r.checked = Records(store)
  BY <1>1, <1>3, ReadAsTheyAre DEF QuietRun, RunType
<1>5. Hopeful(r.obs, f) => outcome = "RESOLVED"
  BY <1>1, <1>3, <1>4, LevelledIsVerified DEF Carried
<1> HIDE DEF outcome
<1>6. x.stage = "finished" /\ x.obs = r.obs /\ x.known = r.known
      /\ x.outcome = outcome
  BY <1>1 DEF Finished, RunType
<1> HIDE DEF x, r
<1>7. RunSince(x, f, store, reflected)
  BY <1>3, <1>5, <1>6 DEF RunSince
<1> QED BY <1>2, <1>7, PromisedStep

-----------------------------------------------------------------------------
(* What the promise says of the end of a run was so at its start. *)

LEMMA EvidenceOfTheFleet ==
  ASSUME NEW f, EvidentFleet(f), \A w \in Warehouse : f.store[w] # Missing,
         NEW obs, obs = [w \in Warehouse |-> f.store[w].rec]
  PROVE  /\ \A w \in Warehouse : \A x \in Range(f.store[w].hist) :
              x.at <= obs[w].last.at
         /\ \A w \in Warehouse : obs[w].last.at < StartTime
         /\ \A v, w \in Warehouse :
              (/\ OneBehind(obs, v, w) /\ ReadInFull(f.store[w].hist)
               /\ obs[v].inventory.on_hand = TrueStockOf(f.feed, f.reflected[v])
               /\ obs[w].inventory.on_hand = TrueStockOf(f.feed, f.reflected[w])
               /\ obs[v].last \in Range(f.store[w].hist))
              => /\ Extends(Recent(f)[w], obs[v])
                 /\ Explains(Recent(f)[w], obs[v], obs[w])
         /\ (\A w \in Warehouse : ReadInFull(f.store[w].hist)) =>
              \A w \in Warehouse :
                /\ Complete(Recent(f)[w])
                /\ obs[w].inventory.on_hand = TrueStockOf(f.feed, f.reflected[w])
                   <=> Total(Recent(f)[w]) = obs[w].inventory.on_hand
<1>1. \A w \in Warehouse : obs[w] = f.store[w].rec
  OBVIOUS
<1>2. \A w \in Warehouse : Recent(f)[w] = RecentEvents(f.store[w].hist, HistoryLimit)
  BY DEF Recent
<1> DEFINE read == [w \in Warehouse |-> RecentEvents(f.store[w].hist, HistoryLimit)]
<1>3. Recent(f) = read
  BY DEF Recent
<1> QED BY <1>1, <1>3, Zenon DEF EvidentFleet

LEMMA WholeHistory ==
  ASSUME NEW h \in Seq(Event), ReadInFull(h)
  PROVE  RecentEvents(h, HistoryLimit) = Range(h)
<1>1. Len(h) \in Nat /\ HistoryLimit \in Nat /\ Len(h) < HistoryLimit
      /\ DOMAIN h = 1..Len(h)
  BY ReconciliationAssumption DEF ReadInFull
<1>2. {j \in DOMAIN h : j > Len(h) - HistoryLimit} = DOMAIN h
  BY <1>1
<1> QED BY <1>2 DEF RecentEvents, Range

(* The history of a warehouse goes on from the one it started with. *)
LEMMA HistoryGoesOn ==
  ASSUME FleetInv, NEW f \in Fleets, Since(f), NEW w \in Warehouse,
         f.store[w] # Missing
  PROVE  /\ f.store[w].hist \in Seq(Event) /\ store[w].hist \in Seq(Event)
         /\ Range(f.store[w].hist) \subseteq Range(store[w].hist)
         /\ \A x \in Range(store[w].hist) :
              x.at < StartTime => x \in Range(f.store[w].hist)
         /\ FullHistory(w) => ReadInFull(f.store[w].hist)
<1>1. Stems(store[w], reflected[w], f.store[w], f.reflected[w])
  BY DEF Since
<1>2. f.store[w] \in Entry
  BY ReconciliationAssumption DEF Fleet
<1>3. store[w] \in Entry
  <2>1. store[w] # Missing
    BY <1>1 DEF Stems
  <2> QED BY <2>1 DEF FleetInv, World, GoodStore, Sealed
<1>4. f.store[w].hist \in Seq(Event) /\ store[w].hist \in Seq(Event)
  BY <1>2, <1>3 DEF Entry
<1>5. /\ Range(f.store[w].hist) \subseteq Range(store[w].hist)
      /\ \A x \in Range(store[w].hist) :
           x.at < StartTime => x \in Range(f.store[w].hist)
  BY <1>1 DEF Stems
<1>6. f.store[w].hist[1] = store[w].hist[1]
      /\ Len(f.store[w].hist) <= Len(store[w].hist)
  BY <1>1, <1>4 DEF Stems
<1>7. FullHistory(w) => ReadInFull(f.store[w].hist)
  <2>1. Len(f.store[w].hist) \in Nat /\ Len(store[w].hist) \in Nat
    BY <1>4
  <2>2. HistoryLimit \in Nat
    BY ReconciliationAssumption
  <2> QED BY <1>6, <2>1, <2>2 DEF FullHistory, ReadInFull
<1> QED BY <1>4, <1>5, <1>7

LEMMA EarlyIsAsFound ==
  ASSUME NEW f, NEW obs, NEW known, DOMAIN obs = Warehouse,
         Traced(obs, known, f), \A w \in Warehouse : Early(obs[w])
  PROVE  \A w \in Warehouse : /\ obs[w] = f.store[w].rec
                              /\ f.store[w] # Missing
                              /\ known[w] = f.reflected[w]
BY DEF Traced

LEMMA SoundAsFound ==
  ASSUME NEW f, Since(f), NEW r, NEW w, r.known[w] = f.reflected[w]
  PROVE  Sound(r, w) <=> r.obs[w].inventory.on_hand
                           = TrueStockOf(f.feed, f.reflected[w])
BY DEF Since, Sound, TrueStock

(* The newer warehouse and the agreeing others have not been written since. *)
LEMMA NewerIsEarly ==
  ASSUME Cardinality(Warehouse) >= 3, NEW f, NEW known,
         NEW obs \in [Warehouse -> Record], Traced(obs, known, f),
         NEW w \in Warehouse, Agree(obs, Warehouse \ {w}),
         \A v \in Warehouse \ {w} : OneBehind(obs, v, w)
  PROVE  \A v \in Warehouse : Early(obs[v])
<1>1. ASSUME NEW v \in Warehouse \ {w} PROVE Early(obs[v])
  <2>1. PICK u \in Warehouse \ {w} : u # v
    BY SeveralOthers DEF Several
  <2>2. LogicalKey(obs[u]) = LogicalKey(obs[v])
    BY DEF Agree
  <2>3. obs[u].last = obs[v].last
    BY <2>2, KeysAreEqual
  <2> QED BY <2>1, <2>3 DEF Traced
<1>2. Early(obs[w])
  <2>1. SUFFICES ASSUME ~Early(obs[w]) PROVE FALSE
    OBVIOUS
  <2>2. PICK v \in Warehouse \ {w} : obs[w].version <= obs[v].version
    BY <2>1 DEF Traced, Followed
  <2>3. obs[v].version + 1 = obs[w].version /\ obs[v].version \in Nat
    BY DEF OneBehind, Record
  <2> QED BY <2>2, <2>3
<1> QED BY <1>1, <1>2

LEMMA MiscountedIsEarly ==
  ASSUME Cardinality(Warehouse) >= 3, NEW f, NEW known,
         NEW obs \in [Warehouse -> Record], Traced(obs, known, f),
         \A v, u \in Warehouse : SameRevision(obs[v], obs[u])
  PROVE  \A v \in Warehouse : Early(obs[v])
<1> SUFFICES ASSUME NEW v \in Warehouse PROVE Early(obs[v])
  OBVIOUS
<1>1. PICK u \in Warehouse \ {v} : TRUE
  BY SeveralOthers DEF Several
<1>2. obs[u].last = obs[v].last
  BY DEF SameRevision
<1> QED BY <1>1, <1>2 DEF Traced

LEMMA PromisedIsHopeful ==
  ASSUME Cardinality(Warehouse) >= 3, FleetInv, NEW f \in Fleets,
         EvidentFleet(f), Since(f), NEW r, r.obs \in [Warehouse -> Record],
         Traced(r.obs, r.known, f), NEW w \in Warehouse,
         StaleByOne(r, w) \/ NewerByOne(r, w) \/ OneMiscounted(r, w)
  PROVE  Hopeful(r.obs, f)
<1> DEFINE obs == r.obs
<1>1. DOMAIN obs = Warehouse
  OBVIOUS
<1>2. CASE StaleByOne(r, w)
  <2>1. StaleFrom(obs, w)
    BY <1>2 DEF StaleByOne, StaleFrom
  <2> QED BY <1>1, <2>1 DEF Hopeful
<1>3. CASE NewerByOne(r, w)
  <2>1. /\ Agree(obs, Warehouse \ {w})
        /\ \A v \in Warehouse \ {w} : OneBehind(obs, v, w)
        /\ FullHistory(w)
        /\ \A v \in Warehouse : Sound(r, v) /\ obs[v].last \in Range(store[w].hist)
    BY <1>3 DEF NewerByOne
  <2>2. \A v \in Warehouse : Early(obs[v])
    BY <2>1, NewerIsEarly
  <2>3. /\ obs = [v \in Warehouse |-> f.store[v].rec]
        /\ \A v \in Warehouse : f.store[v] # Missing
                                /\ r.known[v] = f.reflected[v]
    <3> HIDE DEF obs
    <3>1. obs \in [Warehouse -> Record] /\ Traced(obs, r.known, f)
      BY DEF obs
    <3>2. \A v \in Warehouse : /\ obs[v] = f.store[v].rec
                                /\ f.store[v] # Missing
                                /\ r.known[v] = f.reflected[v]
      BY <1>1, <2>2, <3>1, EarlyIsAsFound
    <3> QED BY <3>1, <3>2
  <2>4. \A v \in Warehouse :
          obs[v].inventory.on_hand = TrueStockOf(f.feed, f.reflected[v])
    BY <2>1, <2>3, SoundAsFound
  <2>5. /\ ReadInFull(f.store[w].hist)
        /\ \A v \in Warehouse : obs[v].last \in Range(f.store[w].hist)
    BY <2>1, <2>2, <2>3, HistoryGoesOn DEF Early
  <2> HIDE DEF obs
  <2>6. \A v \in Warehouse \ {w} :
          /\ Extends(Recent(f)[w], obs[v])
          /\ Explains(Recent(f)[w], obs[v], obs[w])
    BY <2>1, <2>3, <2>4, <2>5, EvidenceOfTheFleet
  <2>7. NewerFrom(obs, Recent(f), w)
    BY <2>1, <2>6 DEF NewerFrom
  <2> QED BY <1>1, <2>2, <2>7 DEF Hopeful, obs
<1>4. CASE OneMiscounted(r, w)
  <2>1. /\ \A v, u \in Warehouse : SameRevision(obs[v], obs[u])
        /\ \A v, u \in Warehouse : EventsThen(r, v) = EventsThen(r, u)
        /\ \A v \in Warehouse : FullHistory(v) /\ (Sound(r, v) <=> v # w)
    BY <1>4 DEF OneMiscounted
  <2>2. \A v \in Warehouse : Early(obs[v])
    BY <2>1, MiscountedIsEarly
  <2>3. /\ obs = [v \in Warehouse |-> f.store[v].rec]
        /\ \A v \in Warehouse : f.store[v] # Missing
                                /\ r.known[v] = f.reflected[v]
    <3> HIDE DEF obs
    <3>1. obs \in [Warehouse -> Record] /\ Traced(obs, r.known, f)
      BY DEF obs
    <3>2. \A v \in Warehouse : /\ obs[v] = f.store[v].rec
                                /\ f.store[v] # Missing
                                /\ r.known[v] = f.reflected[v]
      BY <1>1, <2>2, <3>1, EarlyIsAsFound
    <3> QED BY <3>1, <3>2
  <2>4. \A v \in Warehouse :
          obs[v].inventory.on_hand = TrueStockOf(f.feed, f.reflected[v])
            <=> v # w
    BY <2>1, <2>3, SoundAsFound
  <2>5. \A v \in Warehouse : ReadInFull(f.store[v].hist)
    BY <2>1, <2>3, HistoryGoesOn
  <2>6. ASSUME NEW v \in Warehouse PROVE EventsThen(r, v) = Recent(f)[v]
    <3>1. Recent(f)[v] = Range(f.store[v].hist)
      BY <2>3, <2>5, WholeHistory, HistoryGoesOn DEF Recent
    <3>2. obs[v].last.at < StartTime /\ obs[v].last.at \in Nat
      BY <2>2 DEF Early, Record, Event
    <3>3. \A x \in Range(store[v].hist) : x.at \in Nat
      <4>1. store[v].hist \in Seq(Event)
        BY <2>3, HistoryGoesOn
      <4>2. ASSUME NEW x \in Range(store[v].hist) PROVE x.at \in Nat
        <5>1. PICK i \in DOMAIN store[v].hist : x = store[v].hist[i]
          BY DEF Range
        <5>2. x \in Event
          BY <4>1, <5>1, EventsOfAHistory
        <5> QED BY <5>2 DEF Event
      <4> QED BY <4>2
    <3>4. StartTime \in Nat
      BY DEF StartTime
    <3>5. \A x \in Range(store[v].hist) :
            x.at <= obs[v].last.at => x.at < StartTime
      BY <3>2, <3>3, <3>4
    <3>6. \A x \in Range(store[v].hist) :
            x.at < StartTime => x \in Range(f.store[v].hist)
      BY <2>3, HistoryGoesOn
    <3>7. \A x \in Range(f.store[v].hist) :
            x \in Range(store[v].hist) /\ x.at <= obs[v].last.at
      <4>1. Range(f.store[v].hist) \subseteq Range(store[v].hist)
        BY <2>3, HistoryGoesOn
      <4> HIDE DEF obs
      <4>2. \A x \in Range(f.store[v].hist) : x.at <= obs[v].last.at
        BY <2>3, EvidenceOfTheFleet
      <4> QED BY <4>1, <4>2
    <3>8. EventsThen(r, v) = {x \in Range(store[v].hist) : x.at <= obs[v].last.at}
      BY DEF EventsThen
    <3> HIDE DEF obs
    <3> QED BY <3>1, <3>5, <3>6, <3>7, <3>8
  <2>7. \A u, v \in Warehouse : Recent(f)[u] = Recent(f)[v]
    BY <2>1, <2>6
  <2> HIDE DEF obs
  <2>8. \A v \in Warehouse :
          /\ Complete(Recent(f)[v])
          /\ Total(Recent(f)[v]) = obs[v].inventory.on_hand <=> v # w
    BY <2>3, <2>4, <2>5, EvidenceOfTheFleet
  <2>9. SameVersionDivergence(obs)
    <3>1. PICK v \in Warehouse \ {w} : TRUE
      BY SeveralOthers DEF Several
    <3>2. obs[v].inventory # obs[w].inventory
      BY <2>7, <2>8, <3>1
    <3>3. Several(Inventories(obs))
      BY <1>1, <3>1, <3>2 DEF Several, Inventories, Values, InventoryOf
    <3>4. ~Several(Versions(obs)) /\ ~Several(Cursors(obs))
      BY <1>1, <2>1 DEF Several, Versions, Cursors, Values, VersionOf,
         CursorOf, SameRevision
    <3> QED BY <3>3, <3>4 DEF SameVersionDivergence
  <2>10. OneFrom(obs, Recent(f), w)
    BY <2>7, <2>8, <2>9 DEF OneFrom
  <2> QED BY <1>1, <2>2, <2>10 DEF Hopeful, obs
<1> QED BY <1>2, <1>3, <1>4

-----------------------------------------------------------------------------
LEMMA InitPromised ==
  ASSUME \A f \in Fleets : EvidentFleet(f)
  PROVE  Init => \E f \in Fleets : Promised(f)
<1> SUFFICES ASSUME Init PROVE \E f \in Fleets : Promised(f)
  OBVIOUS
<1>1. PICK f \in Fleets : store = f.store /\ reflected = f.reflected
                          /\ feed = f.feed
  BY DEF Init
<1>2. clock = StartTime /\ StartTime \in Nat
      /\ \A a \in Agent : run[a] = NewRun
  BY DEF Init, StartTime
<1>3. \A w \in Warehouse : store[w] # Missing => Early(store[w].rec)
  BY <1>1 DEF EvidentFleet, Early
<1>4. Since(f)
  BY <1>1, <1>2, <1>3 DEF Since, Stems, Apart, Early
<1>5. AllKnown(store) => Followed(Records(store))
  BY <1>3 DEF AllKnown, Followed, Records
<1>6. NewRun.stage = "idle"
  BY DEF NewRun
<1>7. RunSince(NewRun, f, store, reflected)
  BY <1>5, <1>6 DEF RunSince
<1> QED BY <1>1, <1>2, <1>4, <1>7 DEF Promised

LEMMA NextPromised ==
  ASSUME Still, Cardinality(Warehouse) >= 3, ReadOnly = {},
         NEW f \in Fleets, EvidentFleet(f),
         FleetInv, Quiet, Promised(f), [Next]_vars
  PROVE  Promised(f)'
<1>1. CASE UNCHANGED vars
  BY <1>1 DEF vars, Promised, Since, Apart
<1>2. CASE Next
  <2>1. Alone
    BY DEF Still
  <2> QED BY <1>2, <2>1, StillSteps, StartPromised, AnswerPromised,
             AnalysePromised, ReassessPromised, ExecutePromised, ResolvePromised
<1> QED BY <1>1, <1>2

LEMMA PromisedIsResolved ==
  ASSUME Cardinality(Warehouse) >= 3, FleetInv, NEW f \in Fleets,
         EvidentFleet(f), Promised(f)
  PROVE  PromisedFleetsAreResolved
<1> SUFFICES ASSUME NEW a \in Agent, Ended(run[a]),
                    DOMAIN run[a].obs = Warehouse, NEW w \in Warehouse,
                    \/ StaleByOne(run[a], w) \/ NewerByOne(run[a], w)
                    \/ OneMiscounted(run[a], w)
             PROVE  run[a].outcome = "RESOLVED"
  BY DEF PromisedFleetsAreResolved
<1>1. run[a] \in RunType /\ Since(f) /\ RunSince(run[a], f, store, reflected)
      /\ run[a].stage = "finished"
  BY ARun DEF Promised, Ended
<1>2. run[a].obs \in [Warehouse -> Record]
  BY <1>1, PartialFunctions DEF RunType
<1>3. Traced(run[a].obs, run[a].known, f)
  BY <1>1 DEF RunSince
<1>4. Hopeful(run[a].obs, f)
  BY <1>1, <1>2, <1>3, PromisedIsHopeful
<1> QED BY <1>1, <1>4 DEF RunSince

(* Every fleet with one warehouse one event behind, one warehouse one      *)
(* explained event ahead, or one miscounted warehouse at the common        *)
(* revision ends RESOLVED (README.md:86-94): with any number of warehouses *)
(* from three on, any histories that tell the truth, however many runs     *)
(* came before, if nothing else changes the warehouses.                    *)
THEOREM PromisesAreKept ==
  ASSUME \A a, b \in Agent : a = b,
         MaxLosses = 0, MaxMiscounts = 0, Deltas = <<>>,
         Cardinality(Warehouse) >= 3, ReadOnly = {},
         \A f \in Fleets : EvidentFleet(f)
  PROVE  Spec => []PromisedFleetsAreResolved
<1> DEFINE Kept == \E f \in Fleets : Promised(f)
<1>1. Still
  BY DEF Still, Alone
<1>2. FleetInv /\ Quiet /\ [Next]_vars => Quiet'
  BY <1>1, NextQuiet
<1>3. Init => Kept
  BY InitPromised
<1>4. FleetInv /\ Quiet /\ Kept /\ [Next]_vars => Kept'
  BY <1>1, NextPromised
<1>5. FleetInv /\ Kept => PromisedFleetsAreResolved
  BY PromisedIsResolved
<1> HIDE DEF Kept
<1> QED BY <1>2, <1>3, <1>4, <1>5, InitQuiet, FleetInvariant, PTL DEF Spec

-----------------------------------------------------------------------------
(* No wrong stock is spread, in a still world whose fleets show it.  What  *)
(* the agent writes is true, and what nobody has written since is as it    *)
(* was found, so whatever a later decision rests on was already so then.   *)

Grown(rec, rec0) == rec0.version <= rec.version /\ rec0.cursor <= rec.cursor

(* A warehouse that was written since holds what it accounts for.          *)
TrueSince(rec, ids, f) ==
  ~Early(rec) => rec.inventory.on_hand = TrueStockOf(f.feed, ids)

(* Once an agent has written, the fleet is at one version or some of it    *)
(* agree; so no warehouse is behind all others but as it was found.        *)
Settled(recs) ==
  \/ \A w \in Warehouse : Early(recs[w])
  \/ \A v, w \in Warehouse : recs[v].version = recs[w].version
  \/ \E v, w \in Warehouse : v # w /\ LogicalKey(recs[v]) = LogicalKey(recs[w])

Recorded(obs, known, f) ==
  /\ \A w \in DOMAIN obs : /\ Grown(obs[w], f.store[w].rec)
                           /\ TrueSince(obs[w], known[w], f)
  /\ DOMAIN obs = Warehouse => Settled(obs)

(* A plan whose writes settle the fleet *)
Settles(plan, obs) ==
  \/ \A w \in Warehouse : w \in plan.targets \/ obs[w].version = plan.version
  \/ \E v, w \in Warehouse \ plan.targets :
       v # w /\ LogicalKey(obs[v]) = LogicalKey(obs[w])

RunTrue(r, f, st) ==
  /\ r.stage \notin {"idle", "observing"} => Recorded(r.obs, r.known, f)
  /\ Planned(r) =>
       r.plan.inventory.on_hand = TrueStockOf(f.feed, r.known[r.plan.source])
  /\ r.stage = "executing" => Settles(r.plan, r.obs)
  /\ (r.stage # "executing" /\ AllKnown(st)) => Settled(Records(st))

HoldsTrue(f) ==
  \A w \in Warehouse : store[w] # Missing =>
    /\ Grown(store[w].rec, f.store[w].rec)
    /\ TrueSince(store[w].rec, reflected[w], f)

Truthful(f) == HoldsTrue(f) /\ \A a \in Agent : RunTrue(run[a], f, store)

-----------------------------------------------------------------------------
(* What a fleet in which wrong stock shows says of its records             *)
LEMMA WrongStockOfTheFleet ==
  ASSUME NEW f, WrongStockShows(f), \A w \in Warehouse : f.store[w] # Missing,
         NEW w \in Warehouse,
         f.store[w].rec.inventory.on_hand # TrueStockOf(f.feed, f.reflected[w])
  PROVE  LET obs == [v \in Warehouse |-> f.store[v].rec] IN
         /\ \A v \in Warehouse \ {w} : Agree(obs, {v, w}) =>
              \A u \in Warehouse : ~Behind(obs, u, w)
         /\ \A v \in Warehouse :
              (/\ \/ \E u \in Warehouse \ {v} : Agree(obs, {u, v})
                  \/ \A u \in Warehouse \ {v} : Behind(obs, v, u)
               /\ \/ obs[w].version > obs[v].version
                  \/ obs[w].cursor > obs[v].cursor)
              => ~(/\ Extends(Recent(f)[w], obs[v])
                   /\ Explains(Recent(f)[w], obs[v], obs[w]))
         /\ Complete(Recent(f)[w]) =>
              Total(Recent(f)[w]) # obs[w].inventory.on_hand
<1> DEFINE obs == [v \in Warehouse |-> f.store[v].rec]
           read == [v \in Warehouse |-> RecentEvents(f.store[v].hist, HistoryLimit)]
<1>1. obs[w].inventory.on_hand # TrueStockOf(f.feed, f.reflected[w])
  OBVIOUS
<1>2. Recent(f) = read
  BY DEF Recent
<1> QED BY <1>1, <1>2, Zenon DEF WrongStockShows

(* Warehouses that agree were not written since. *)
LEMMA AgreeingIsEarly ==
  ASSUME NEW f, NEW obs, NEW known, Traced(obs, known, f),
         NEW v \in DOMAIN obs, NEW w \in DOMAIN obs, v # w,
         LogicalKey(obs[v]) = LogicalKey(obs[w])
  PROVE  /\ Early(obs[v]) /\ Early(obs[w])
         /\ obs[v] = f.store[v].rec /\ known[v] = f.reflected[v]
         /\ obs[w] = f.store[w].rec /\ known[w] = f.reflected[w]
<1>1. obs[v].last = obs[w].last
  BY KeysAreEqual
<1>2. Early(obs[v]) /\ Early(obs[w])
  BY <1>1 DEF Traced
<1> QED BY <1>2 DEF Traced

(* What is observed of f now, and what f was.  The facts the three kinds of *)
(* source have in common                                                   *)
Reading(e, known, f) ==
  /\ e.obs \in [Warehouse -> Record]
  /\ Traced(e.obs, known, f) /\ Recorded(e.obs, known, f)
  /\ Investigated(e) \subseteq Warehouse
  /\ \A w \in Investigated(e) : Early(e.obs[w]) => e.histories[w] = Recent(f)[w]

TrueOf(e, known, f, w) ==
  e.obs[w].inventory.on_hand = TrueStockOf(f.feed, known[w])

LEMMA AgreedIsTrue ==
  ASSUME NEW f \in Fleets, WrongStockShows(f), NEW e, NEW known, Reading(e, known, f),
         NEW v \in Warehouse, NEW x \in Warehouse, NEW u \in Warehouse, v # x,
         LogicalKey(e.obs[v]) = LogicalKey(e.obs[x]), Behind(e.obs, u, v)
  PROVE  TrueOf(e, known, f, v)
<1> DEFINE obs == e.obs
           first == [w \in Warehouse |-> f.store[w].rec]
<1>1. DOMAIN obs = Warehouse /\ Traced(obs, known, f)
      /\ Grown(obs[u], f.store[u].rec)
      /\ \A w \in Warehouse : f.store[w] # Missing
  BY DEF Reading, Recorded, Traced
<1>2. /\ obs[v] = first[v] /\ obs[x] = first[x] /\ known[v] = f.reflected[v]
  BY <1>1, AgreeingIsEarly
<1>3. Agree(first, {x, v})
  BY <1>2 DEF Agree
<1>4. Behind(first, u, v)
  <2>1. f.store[u].rec \in Record /\ obs[u] \in Record /\ obs[v] \in Record
    BY <1>1, ReconciliationAssumption DEF Fleet, Entry, Reading
  <2>2. first[u].version <= obs[u].version /\ first[u].cursor <= obs[u].cursor
    BY <1>1 DEF Grown
  <2>3. obs[u].version < first[v].version /\ obs[u].cursor < first[v].cursor
    BY <1>2 DEF Behind
  <2> QED BY <1>2, <2>1, <2>2, <2>3 DEF Behind, Record
<1>5. obs[v].inventory.on_hand = TrueStockOf(f.feed, f.reflected[v])
  <2> HIDE DEF obs
  <2> SUFFICES ASSUME obs[v].inventory.on_hand
                        # TrueStockOf(f.feed, f.reflected[v])
               PROVE  FALSE
    OBVIOUS
  <2>1. f.store[v].rec.inventory.on_hand # TrueStockOf(f.feed, f.reflected[v])
    BY <1>2
  <2>2. \A y \in Warehouse \ {v} : Agree(first, {y, v}) =>
          \A z \in Warehouse : ~Behind(first, z, v)
    BY <1>1, <2>1, WrongStockOfTheFleet
  <2> HIDE DEF first
  <2> QED BY <1>3, <1>4, <2>2
<1> QED BY <1>2, <1>5 DEF TrueOf

LEMMA StaleSourceIsTrue ==
  ASSUME NEW f \in Fleets, WrongStockShows(f), NEW e, NEW known, Reading(e, known, f),
         GroupsWithStale(e) # {}
  PROVE  /\ TrueOf(e, known, f, ReconcileStale(e).source)
         /\ Settles(ReconciliationPlan(ReconcileStale(e), e.obs), e.obs)
<1> DEFINE g == FirstGroup(GroupsWithStale(e))
           d == ReconcileStale(e)
           t == Min(BehindGroup(e.obs, g))
           plan == ReconciliationPlan(d, e.obs)
<1>1. e.obs \in [Warehouse -> Record] /\ DOMAIN e.obs = Warehouse
  BY DEF Reading
<1>2. GroupsWithStale(e) \in SUBSET AgreementGroups(e.obs)
  BY DEF GroupsWithStale, Agreeing
<1>3. g \in GroupsWithStale(e)
  BY <1>1, <1>2, FirstGroupIsAGroup
<1>4. /\ g \in AgreementGroups(e.obs) /\ BehindGroup(e.obs, g) # {}
      /\ Several(g)
  BY <1>2, <1>3 DEF GroupsWithStale, Agreeing
<1> HIDE DEF g
<1>5. StateOf(e.obs, g) = e.obs[Min(g)]
  BY DEF StateOf
<1>6. g \subseteq Warehouse /\ g # {} /\ Min(g) \in g
  BY <1>1, <1>4, GroupsAreSound, WarehousesAreNumbers
<1>7. \A y, z \in g : LogicalKey(e.obs[y]) = LogicalKey(e.obs[z])
  BY <1>4 DEF AgreementGroups
<1>8. PICK x \in g : x # Min(g)
  BY <1>4 DEF Several
<1>9. t \in BehindGroup(e.obs, g)
  <2>1. BehindGroup(e.obs, g) \in SUBSET Warehouse
    BY <1>1 DEF BehindGroup
  <2> QED BY <1>4, <2>1, WarehousesAreNumbers
<1>10. d = Reconcile(Min(g), {t})
  BY DEF ReconcileStale, g
<1>11. d.source = Min(g) /\ d.targets = {t}
  BY <1>10, ReconcileFields
<1> HIDE DEF d, t
<1>12. t \in Warehouse /\ t \notin g /\ Behind(e.obs, t, Min(g))
  BY <1>1, <1>5, <1>9 DEF BehindGroup, Behind
<1>13. TrueOf(e, known, f, Min(g))
  <2>1. LogicalKey(e.obs[Min(g)]) = LogicalKey(e.obs[x])
    BY <1>6, <1>7, <1>8
  <2> QED BY <1>6, <1>8, <1>12, <2>1, AgreedIsTrue
<1>14. Settles(plan, e.obs)
  <2>1. plan.targets = Warehouse \/ plan.targets = {t}
    BY <1>1, <1>11 DEF ReconciliationPlan
  <2> HIDE DEF plan
  <2> QED BY <1>6, <1>7, <1>8, <1>12, <2>1 DEF Settles
<1> QED BY <1>11, <1>13, <1>14 DEF d

(* A newer warehouse that is explained from a state it is compared with    *)
LEMMA ExplainedIsTrue ==
  ASSUME NEW f \in Fleets, WrongStockShows(f), NEW e, NEW known, Reading(e, known, f),
         NEW w \in Investigated(e), NEW v \in Warehouse,
         e.obs[v] = f.store[v].rec,
         LET first == [u \in Warehouse |-> f.store[u].rec] IN
           \/ \E u \in Warehouse \ {v} : Agree(first, {u, v})
           \/ \A u \in Warehouse \ {v} : Behind(first, v, u),
         \/ e.obs[w].version > e.obs[v].version
         \/ e.obs[w].cursor > e.obs[v].cursor,
         Extends(e.histories[w], e.obs[v]),
         Explains(e.histories[w], e.obs[v], e.obs[w])
  PROVE  TrueOf(e, known, f, w)
<1> DEFINE first == [u \in Warehouse |-> f.store[u].rec]
<1>1. w \in Warehouse /\ DOMAIN e.obs = Warehouse
  BY DEF Reading
<1>2. CASE ~Early(e.obs[w])
  BY <1>1, <1>2 DEF Reading, Recorded, TrueSince, TrueOf
<1>3. CASE Early(e.obs[w])
  <2>1. /\ e.obs[w] = f.store[w].rec /\ known[w] = f.reflected[w]
        /\ e.histories[w] = Recent(f)[w]
        /\ \A u \in Warehouse : f.store[u] # Missing
    BY <1>1, <1>3 DEF Reading, Traced
  <2> SUFFICES ASSUME f.store[w].rec.inventory.on_hand
                        # TrueStockOf(f.feed, f.reflected[w])
               PROVE  FALSE
    BY <2>1 DEF TrueOf
  <2>2. \A x \in Warehouse :
          (/\ \/ \E u \in Warehouse \ {x} : Agree(first, {u, x})
              \/ \A u \in Warehouse \ {x} : Behind(first, x, u)
           /\ \/ first[w].version > first[x].version
              \/ first[w].cursor > first[x].cursor)
          => ~(/\ Extends(Recent(f)[w], first[x])
               /\ Explains(Recent(f)[w], first[x], first[w]))
    BY <1>1, <2>1, WrongStockOfTheFleet
  <2>3. first[w] = e.obs[w] /\ first[v] = e.obs[v]
    BY <1>1, <2>1
  <2>4. \/ \E u \in Warehouse \ {v} : Agree(first, {u, v})
        \/ \A u \in Warehouse \ {v} : Behind(first, v, u)
    OBVIOUS
  <2> HIDE DEF first
  <2>5. /\ Extends(Recent(f)[w], first[v])
        /\ Explains(Recent(f)[w], first[v], first[w])
    BY <2>1, <2>3
  <2>6. \/ first[w].version > first[v].version
        \/ first[w].cursor > first[v].cursor
    BY <2>3
  <2> QED BY <2>2, <2>4, <2>5, <2>6
<1> QED BY <1>2, <1>3

(* A state that newer warehouses are compared with is as it was found, and *)
(* was one they could be compared with.                                    *)
LEMMA ReferenceIsAsFound ==
  ASSUME NEW f \in Fleets, NEW e, NEW known, Reading(e, known, f),
         NEW g \in ReferenceGroups(e.obs), NEW w \in Warehouse, w \notin g
  PROVE  LET v == Min(g)
             first == [u \in Warehouse |-> f.store[u].rec]
         IN  /\ v \in Warehouse /\ e.obs[v] = f.store[v].rec
             /\ \/ \E u \in Warehouse \ {v} : Agree(first, {u, v})
                \/ \A u \in Warehouse \ {v} : Behind(first, v, u)
<1> DEFINE obs == e.obs
           v == Min(g)
           first == [u \in Warehouse |-> f.store[u].rec]
<1>1. obs \in [Warehouse -> Record] /\ DOMAIN obs = Warehouse
      /\ Traced(obs, known, f) /\ Settled(obs)
  BY DEF Reading, Recorded
<1>2. g \in AgreementGroups(obs)
  BY ReferencesAreGroups
<1> HIDE DEF obs
<1>3. g \subseteq Warehouse /\ v \in g /\ v \in Warehouse
  BY <1>1, <1>2, GroupsAreSound, WarehousesAreNumbers
<1>4. \A y \in g : \A z \in Warehouse :
        z \in g <=> LogicalKey(obs[y]) = LogicalKey(obs[z])
  BY <1>1, <1>2 DEF AgreementGroups
<1> HIDE DEF v
<1>5. CASE Several(g)
  <2>1. PICK x \in g : x # v
    BY <1>5 DEF Several
  <2>2. LogicalKey(obs[v]) = LogicalKey(obs[x]) /\ x \in Warehouse
    BY <1>3, <1>4, <2>1
  <2>3. obs[v] = first[v] /\ obs[x] = first[x]
    BY <1>1, <1>3, <2>1, <2>2, AgreeingIsEarly
  <2> HIDE DEF first
  <2>4. Agree(first, {x, v})
    BY <2>2, <2>3 DEF Agree
  <2>5. obs[v] = f.store[v].rec
    BY <1>3, <2>3 DEF first
  <2> QED BY <1>3, <2>1, <2>2, <2>4, <2>5 DEF obs, first, v
<1>6. CASE ~Several(g)
  <2>1. g \notin Agreeing(obs)
    BY <1>6 DEF Agreeing
  <2>2. /\ Agreeing(obs) = {}
        /\ \A o \in AgreementGroups(obs) \ {g} :
             /\ StateOf(obs, g).version < StateOf(obs, o).version
             /\ StateOf(obs, g).cursor < StateOf(obs, o).cursor
    BY <2>1 DEF ReferenceGroups, obs
  <2>3. ASSUME NEW u \in Warehouse \ {v} PROVE Behind(obs, v, u)
    <3> DEFINE o == {x \in DOMAIN obs : LogicalKey(obs[x]) = LogicalKey(obs[u])}
    <3>1. o \in AgreementGroups(obs) /\ u \in o
      BY <1>1 DEF AgreementGroups
    <3>2. u \notin g
      BY <1>3, <1>6 DEF Several
    <3>3. Min(o) \in o
      BY <1>1, <3>1, WarehousesAreNumbers
    <3>4. obs[Min(o)].version = obs[u].version
          /\ obs[Min(o)].cursor = obs[u].cursor
      BY <3>3, KeysAreEqual
    <3> HIDE DEF o
    <3>5. StateOf(obs, o) = obs[Min(o)] /\ StateOf(obs, g) = obs[v]
      BY DEF StateOf, v
    <3>6. o # g
      BY <3>1, <3>2
    <3> QED BY <2>2, <3>1, <3>4, <3>5, <3>6 DEF Behind
  <2>4. ~\E x, y \in Warehouse : x # y /\ LogicalKey(obs[x]) = LogicalKey(obs[y])
    <3> SUFFICES ASSUME NEW x \in Warehouse, NEW y \in Warehouse, x # y,
                        LogicalKey(obs[x]) = LogicalKey(obs[y])
                 PROVE  FALSE
      OBVIOUS
    <3> DEFINE o == {z \in DOMAIN obs : LogicalKey(obs[z]) = LogicalKey(obs[x])}
    <3>1. o \in AgreementGroups(obs) /\ x \in o /\ y \in o
      BY <1>1 DEF AgreementGroups
    <3> HIDE DEF o
    <3>2. o \in Agreeing(obs)
      BY <3>1 DEF Agreeing, Several
    <3> QED BY <2>2, <3>2
  <2>5. ~\A x, y \in Warehouse : obs[x].version = obs[y].version
    <3>1. w # v /\ Behind(obs, v, w)
      BY <1>3, <2>3
    <3>2. obs[v].version \in Nat /\ obs[w].version \in Nat
      BY <1>1, <1>3 DEF Record
    <3>3. obs[v].version # obs[w].version
      BY <3>1, <3>2 DEF Behind
    <3> QED BY <1>3, <3>3
  <2>6. \A u \in Warehouse : Early(obs[u])
    BY <1>1, <2>4, <2>5 DEF Settled
  <2>7. \A u \in Warehouse : obs[u] = first[u]
    BY <1>1, <2>6, EarlyIsAsFound
  <2> HIDE DEF first
  <2>8. \A u \in Warehouse \ {v} : Behind(first, v, u)
    BY <1>3, <2>3, <2>7 DEF Behind
  <2>9. obs[v] = f.store[v].rec
    BY <1>3, <2>7 DEF first
  <2> QED BY <1>3, <2>8, <2>9 DEF obs, first, v
<1> QED BY <1>5, <1>6

LEMMA NewerSourceIsTrue ==
  ASSUME NEW f \in Fleets, WrongStockShows(f), NEW e, NEW known, Reading(e, known, f),
         Cardinality(Extensions(e)) = 1
  PROVE  LET source == (CHOOSE p \in Extensions(e) : TRUE)[1]
             d == Reconcile(source, DOMAIN e.obs \ {source})
         IN  /\ TrueOf(e, known, f, source)
             /\ Settles(ReconciliationPlan(d, e.obs), e.obs)
<1> DEFINE p == CHOOSE p \in Extensions(e) : TRUE
           source == p[1]
           d == Reconcile(source, DOMAIN e.obs \ {source})
           plan == ReconciliationPlan(d, e.obs)
<1>1. DOMAIN e.obs = Warehouse /\ Assessed(e, Warehouse)
  BY DEF Reading, Assessed
<1>2. p \in Extensions(e)
  <2>1. PICK q : Extensions(e) = {q}
    BY <1>1, ExtensionsAreFinite, FS_Singleton
  <2> QED BY <2>1
<1> HIDE DEF p
<1>3. /\ p[1] \in Investigated(e) /\ p[2] \in ReferenceGroups(e.obs)
      /\ AheadOf(e.obs, p[1], p[2])
      /\ Extends(e.histories[p[1]], StateOf(e.obs, p[2]))
      /\ Explains(e.histories[p[1]], StateOf(e.obs, p[2]), e.obs[p[1]])
  BY <1>2 DEF Extensions, NewerPairs, Extensible, Explained
<1> DEFINE v == Min(p[2])
<1>4. StateOf(e.obs, p[2]) = e.obs[v]
  BY DEF StateOf
<1>5. source \in Warehouse /\ source \notin p[2]
      /\ \/ e.obs[source].version > e.obs[v].version
         \/ e.obs[source].cursor > e.obs[v].cursor
  BY <1>3, <1>4 DEF AheadOf, Reading
<1>6. LET first == [u \in Warehouse |-> f.store[u].rec] IN
        /\ v \in Warehouse /\ e.obs[v] = f.store[v].rec
        /\ \/ \E u \in Warehouse \ {v} : Agree(first, {u, v})
           \/ \A u \in Warehouse \ {v} : Behind(first, v, u)
  BY <1>3, <1>5, ReferenceIsAsFound
<1>7. TrueOf(e, known, f, source)
  <2> HIDE DEF v
  <2> QED BY <1>3, <1>4, <1>5, <1>6, ExplainedIsTrue
<1>8. Settles(plan, e.obs)
  <2>1. d.source = source /\ d.targets = Warehouse \ {source}
    BY <1>1, ReconcileFields
  <2> HIDE DEF d, source
  <2>2. CASE IsRepair(d, e.obs)
    <3>1. plan.targets = Warehouse
      BY <1>1, <2>2 DEF ReconciliationPlan
    <3> HIDE DEF plan
    <3> QED BY <3>1 DEF Settles
  <2>3. CASE ~IsRepair(d, e.obs)
    <3>1. plan.targets = Warehouse \ {source}
          /\ plan.version = e.obs[source].version
      BY <2>1, <2>3 DEF ReconciliationPlan
    <3> HIDE DEF plan
    <3> QED BY <1>5, <3>1 DEF Settles
  <2> QED BY <2>2, <2>3
<1> QED BY <1>7, <1>8 DEF p

LEMMA RepairSourceIsTrue ==
  ASSUME NEW f \in Fleets, WrongStockShows(f), NEW e, NEW known, Reading(e, known, f),
         SameVersionDivergence(e.obs), RepairSupported(e)
  PROVE  /\ TrueOf(e, known, f, Repair(e).source)
         /\ Settles(ReconciliationPlan(Repair(e), e.obs), e.obs)
<1> DEFINE w == Min(Supported(e))
           plan == ReconciliationPlan(Repair(e), e.obs)
<1>1. DOMAIN e.obs = Warehouse /\ e.obs \in [Warehouse -> Record]
  BY DEF Reading
<1>2. w \in Supported(e)
  <2>1. Supported(e) \in SUBSET Warehouse
    BY DEF Supported, Reading
  <2> QED BY <2>1, WarehousesAreNumbers DEF RepairSupported
<1>3. Repair(e).source = w
  BY ReconcileFields DEF Repair
<1> HIDE DEF w
<1>4. /\ w \in Investigated(e) /\ w \in Warehouse
      /\ Complete(e.histories[w])
      /\ Total(e.histories[w]) = e.obs[w].inventory.on_hand
  BY <1>2 DEF Supported, Replays, Reading
<1>5. ASSUME ~Early(e.obs[w]) PROVE TrueOf(e, known, f, w)
  BY <1>1, <1>4, <1>5 DEF Reading, Recorded, TrueSince, TrueOf
<1>6. ASSUME Early(e.obs[w]) PROVE TrueOf(e, known, f, w)
  <2>1. /\ e.obs[w] = f.store[w].rec /\ known[w] = f.reflected[w]
        /\ e.histories[w] = Recent(f)[w]
        /\ \A u \in Warehouse : f.store[u] # Missing
    BY <1>1, <1>4, <1>6 DEF Reading, Traced
  <2> SUFFICES ASSUME f.store[w].rec.inventory.on_hand
                        # TrueStockOf(f.feed, f.reflected[w])
               PROVE  FALSE
    BY <2>1 DEF TrueOf
  <2> DEFINE first == [u \in Warehouse |-> f.store[u].rec]
  <2>2. Complete(Recent(f)[w]) => Total(Recent(f)[w]) # first[w].inventory.on_hand
    BY <1>4, <2>1, WrongStockOfTheFleet
  <2> QED BY <1>4, <2>1, <2>2
<1>7. Settles(plan, e.obs)
  <2>1. \A u, v \in Warehouse : e.obs[u].version = e.obs[v].version
    BY <1>1 DEF SameVersionDivergence, Several, Versions, Values, VersionOf
  <2>2. \/ plan.targets = Warehouse
        \/ plan.version = e.obs[w].version
    BY <1>1, <1>3 DEF ReconciliationPlan
  <2> HIDE DEF plan
  <2> QED BY <1>4, <2>1, <2>2 DEF Settles
<1> QED BY <1>3, <1>5, <1>6, <1>7

(* What a decision to write spreads is true, and settles the fleet. *)
LEMMA DecisionIsTrue ==
  ASSUME NEW f \in Fleets, WrongStockShows(f), NEW e, NEW known, Reading(e, known, f),
         Decide(e).outcome = "RECONCILE"
  PROVE  /\ TrueOf(e, known, f, Decide(e).source)
         /\ Settles(ReconciliationPlan(Decide(e), e.obs), e.obs)
<1> DEFINE source == (CHOOSE p \in Extensions(e) : TRUE)[1]
           newer == Reconcile(source, DOMAIN e.obs \ {source})
<1>1. Escalate.outcome = "ESCALATE" /\ NoAction.outcome = "NO_ACTION"
      /\ \A ws : Investigate(ws).outcome = "INVESTIGATE"
  BY DEF Escalate, NoAction, Investigate
<1>2. \/ Cardinality(Extensions(e)) = 1 /\ Decide(e) = newer
      \/ /\ SameVersionDivergence(e.obs) /\ RepairSupported(e)
         /\ Decide(e) = Repair(e)
      \/ GroupsWithStale(e) # {} /\ Decide(e) = ReconcileStale(e)
  <2> HIDE DEF newer
  <2>1. \/ Decide(e) \in {Escalate, NoAction,
             Investigate(AheadWarehouses(e.obs)), Investigate(DOMAIN e.obs),
             Investigate(UnsupportedAhead(e) \ Investigated(e))}
        \/ Cardinality(Extensions(e)) = 1 /\ Decide(e) = newer
        \/ /\ SameVersionDivergence(e.obs) /\ RepairSupported(e)
           /\ Decide(e) = Repair(e)
        \/ GroupsWithStale(e) # {} /\ Decide(e) = ReconcileStale(e)
    BY Zenon DEF Decide, newer
  <2> QED BY <1>1, <2>1
<1>3. CASE Cardinality(Extensions(e)) = 1 /\ Decide(e) = newer
  <2>1. newer.source = source
    BY ReconcileFields
  <2>2. /\ TrueOf(e, known, f, source)
        /\ Settles(ReconciliationPlan(newer, e.obs), e.obs)
    BY <1>3, NewerSourceIsTrue
  <2> HIDE DEF newer, source
  <2> QED BY <1>3, <2>1, <2>2
<1>4. CASE /\ SameVersionDivergence(e.obs) /\ RepairSupported(e)
           /\ Decide(e) = Repair(e)
  BY <1>4, RepairSourceIsTrue
<1>5. CASE GroupsWithStale(e) # {} /\ Decide(e) = ReconcileStale(e)
  BY <1>5, StaleSourceIsTrue
<1> QED BY <1>2, <1>3, <1>4, <1>5

-----------------------------------------------------------------------------
(* The steps of the agent                                                  *)
LEMMA TrueStep ==
  ASSUME Alone, FleetInv, NEW f, HoldsTrue(f)', NEW a \in Agent, NEW x,
         run' = [run EXCEPT ![a] = x], RunTrue(x, f, store')
  PROVE  Truthful(f)'
<1>1. run'[a] = x
  BY DEF FleetInv, Runs
<1>2. \A b \in Agent : RunTrue(run'[b], f, store')
  BY <1>1 DEF Alone
<1> QED BY <1>2 DEF Truthful

LEMMA SameTrue ==
  ASSUME NEW r, NEW x, NEW f, NEW st, RunTrue(r, f, st), x.stage = r.stage,
         x.obs = r.obs, x.known = r.known, x.plan = r.plan
  PROVE  RunTrue(x, f, st)
BY DEF RunTrue, Planned

LEMMA StartTrue ==
  ASSUME Alone, FleetInv, NEW f, Truthful(f), NEW a \in Agent, Start(a)
  PROVE  Truthful(f)'
<1> DEFINE r == [NewRun EXCEPT !.stage = "observing", !.waiting = Warehouse,
                               !.outcome = run[a].outcome]
<1>1. run' = [run EXCEPT ![a] = r] /\ store' = store /\ reflected' = reflected
  BY DEF Start, world
<1>2. RunTrue(run[a], f, store) /\ run[a].stage # "executing"
  BY DEF Truthful, Start
<1>3. r.stage = "observing" /\ r.plan = NoPlan
  BY DEF NewRun
<1> HIDE DEF r
<1>4. RunTrue(r, f, store')
  BY <1>1, <1>2, <1>3 DEF RunTrue, Planned
<1>5. HoldsTrue(f)'
  BY <1>1 DEF Truthful, HoldsTrue
<1> QED BY <1>1, <1>4, <1>5, TrueStep

LEMMA AnswerTrue ==
  ASSUME Alone, FleetInv, NEW f, Truthful(f), NEW a \in Agent,
         NEW w \in Warehouse,
         AnswerCatalogue(a, w) \/ AnswerEvents(a, w) \/ AnswerVerification(a, w)
  PROVE  Truthful(f)'
<1>1. /\ run[a] \in RunType /\ RunInv(run[a]) /\ RunTrue(run[a], f, store)
      /\ run \in [Agent -> RunType]
  BY ARun DEF FleetInv, Runs, Truthful
<1>2. store' = store /\ reflected' = reflected
  BY DEF AnswerCatalogue, AnswerEvents, AnswerVerification, world
<1>3. HoldsTrue(f)'
  BY <1>2 DEF Truthful, HoldsTrue
<1>4. CASE AnswerCatalogue(a, w)
  <2> DEFINE r == [run[a] EXCEPT
               !.waiting = @ \ {w},
               !.obs = IF store[w] = Missing THEN @
                       ELSE With(@, w, store[w].rec),
               !.known = With(@, w, reflected[w])]
  <2>1. run' = [run EXCEPT ![a] = r] /\ run[a].stage = "observing"
    BY <1>1, <1>4 DEF AnswerCatalogue, RunType
  <2>2. r.stage = "observing" /\ r.plan = NoPlan
    BY <1>1, <2>1 DEF RunType, RunInv
  <2> HIDE DEF r
  <2>3. RunTrue(r, f, store')
    BY <1>1, <1>2, <2>1, <2>2 DEF RunTrue, Planned
  <2> QED BY <1>3, <2>1, <2>3, TrueStep
<1>5. CASE AnswerEvents(a, w)
  <2> DEFINE h == RecentEvents(store[w].hist, HistoryLimit)
             r == [run[a] EXCEPT !.waiting = @ \ {w},
                                 !.histories = With(@, w, h)]
  <2>1. run' = [run EXCEPT ![a] = r]
    BY <1>1, <1>5 DEF AnswerEvents, RunType
  <2>2. r.stage = run[a].stage /\ r.obs = run[a].obs
        /\ r.known = run[a].known /\ r.plan = run[a].plan
    BY <1>1 DEF RunType
  <2> HIDE DEF r
  <2>3. RunTrue(r, f, store')
    BY <1>1, <1>2, <2>2, SameTrue
  <2> QED BY <1>3, <2>1, <2>3, TrueStep
<1>6. CASE AnswerVerification(a, w)
  <2> DEFINE r == [run[a] EXCEPT !.waiting = @ \ {w},
                                 !.checked = With(@, w, store[w].rec)]
  <2>1. run' = [run EXCEPT ![a] = r]
    BY <1>1, <1>6 DEF AnswerVerification, RunType
  <2>2. r.stage = run[a].stage /\ r.obs = run[a].obs
        /\ r.known = run[a].known /\ r.plan = run[a].plan
    BY <1>1 DEF RunType
  <2> HIDE DEF r
  <2>3. RunTrue(r, f, store')
    BY <1>1, <1>2, <2>2, SameTrue
  <2> QED BY <1>3, <2>1, <2>3, TrueStep
<1> QED BY <1>4, <1>5, <1>6

(* A run concludes with a true plan or with none. *)
LEMMA ConcludedTrue ==
  ASSUME NEW f, NEW st, NEW r \in RunType, r.plan = NoPlan,
         Recorded(r.obs, r.known, f), AllKnown(st) => Settled(Records(st)),
         NEW d,
         d.outcome = "RECONCILE" =>
           /\ r.obs[d.source].inventory.on_hand
                = TrueStockOf(f.feed, r.known[d.source])
           /\ Settles(ReconciliationPlan(d, r.obs), r.obs)
  PROVE  RunTrue(Concluded(r, d), f, st)
<1> DEFINE plan == ReconciliationPlan(d, r.obs)
           s == [r EXCEPT !.stage = "executing", !.plan = plan,
                          !.todo = plan.targets]
<1>1. \/ Concluded(r, d) \in {Finished(r, "NO_ACTION"),
                              Finished(r, "ESCALATED")}
      \/ d.outcome = "RECONCILE" /\ Concluded(r, d) = s
  BY Zenon DEF Concluded, plan
<1>2. ASSUME NEW outcome \in {"NO_ACTION", "ESCALATED"}
      PROVE  RunTrue(Finished(r, outcome), f, st)
  <2> DEFINE t == Finished(r, outcome)
  <2>1. t.stage = "finished" /\ t.obs = r.obs /\ t.known = r.known
        /\ t.plan = NoPlan
    BY DEF Finished, RunType
  <2> HIDE DEF t
  <2> QED BY <2>1 DEF RunTrue, Planned, t
<1>3. CASE d.outcome = "RECONCILE" /\ Concluded(r, d) = s
  <2>1. plan.source = d.source /\ plan.inventory = r.obs[d.source].inventory
    BY DEF ReconciliationPlan
  <2> HIDE DEF plan
  <2>2. s.stage = "executing" /\ s.obs = r.obs /\ s.known = r.known
        /\ s.plan = plan
    BY DEF RunType
  <2> HIDE DEF s
  <2>3. Settles(plan, r.obs)
    BY <1>3 DEF plan
  <2> QED BY <1>3, <2>1, <2>2, <2>3 DEF RunTrue
<1> QED BY <1>1, <1>2, <1>3

LEMMA AnalyseTrue ==
  ASSUME Alone, FleetInv, Quiet, NEW f \in Fleets, WrongStockShows(f),
         Promised(f), Truthful(f), NEW a \in Agent, Analyse(a)
  PROVE  Truthful(f)'
<1> DEFINE r == run[a]
           e == Assessment(r)
           d == Decide(e)
           asked == InvestigationPlan(d, e)
           s == [r EXCEPT !.stage = "investigating", !.waiting = asked,
                          !.queried = asked]
<1>1. /\ r \in RunType /\ RunInv(r) /\ QuietRun(r, store)
      /\ r.stage = "observing" /\ r.waiting = {} /\ Since(f)
      /\ RunSince(r, f, store, reflected) /\ RunTrue(r, f, store)
  BY ARun DEF Quiet, Analyse, Promised, Truthful
<1>2. store' = store /\ reflected' = reflected
  BY DEF Analyse, world
<1>3. HoldsTrue(f)'
  BY <1>2 DEF Truthful, HoldsTrue
<1>4. r.ok /\ AsTheyAre(r.obs, store) /\ r.plan = NoPlan
      /\ DOMAIN r.histories = {} /\ r.obs \in Partial(Record)
  BY <1>1 DEF QuietRun, RunInv, RunType
<1>5. \A w \in DOMAIN r.obs : w \in Warehouse /\ r.known[w] = reflected[w]
  <2>1. \A w \in DOMAIN r.obs : w \in Warehouse
    BY <1>4, PartialFunctions
  <2> QED BY <1>1, <2>1 DEF RunSince
<1>6. /\ AllKnown(store) => Settled(Records(store))
      /\ AllKnown(store) => Followed(Records(store))
  BY <1>1 DEF RunTrue, RunSince
<1>7. e.obs = r.obs /\ Investigated(e) = {}
  BY <1>4 DEF Assessment, Investigated
<1>8. \/ \E outcome \in {"FAILED", "CONSISTENT"} :
           run' = [run EXCEPT ![a] = Finished(r, outcome)]
      \/ run' = [run EXCEPT ![a] = s]
      \/ run' = [run EXCEPT ![a] = Concluded(r, d)]
  BY Zenon DEF Analyse
<1> HIDE DEF r
<1>9. Recorded(r.obs, r.known, f)
  <2>1. \A w \in DOMAIN r.obs : /\ Grown(r.obs[w], f.store[w].rec)
                                /\ TrueSince(r.obs[w], r.known[w], f)
    BY <1>4, <1>5 DEF AsTheyAre, Truthful, HoldsTrue
  <2>2. ASSUME DOMAIN r.obs = Warehouse PROVE Settled(r.obs)
    <3>1. AllKnown(store)
      BY <1>4, <2>2 DEF AsTheyAre, AllKnown
    <3>2. r.obs = Records(store)
      BY <1>4, <2>2, ReadAsTheyAre
    <3> QED BY <1>6, <3>1, <3>2
  <2> QED BY <2>1, <2>2 DEF Recorded
<1>10. Traced(r.obs, r.known, f)
  BY <1>1, <1>4, <1>5, <1>6, RecordsAreRead
<1>11. ASSUME NEW outcome \in {"FAILED", "CONSISTENT"}
       PROVE  RunTrue(Finished(r, outcome), f, store')
  <2> DEFINE t == Finished(r, outcome)
  <2>1. t.stage = "finished" /\ t.obs = r.obs /\ t.known = r.known
        /\ t.plan = NoPlan
    BY <1>1, <1>4 DEF Finished, RunType
  <2> HIDE DEF t
  <2> QED BY <1>2, <1>6, <1>9, <2>1 DEF RunTrue, Planned, t
<1>12. RunTrue(s, f, store')
  <2> HIDE DEF asked
  <2>1. s.stage = "investigating" /\ s.obs = r.obs /\ s.known = r.known
        /\ s.plan = NoPlan
    BY <1>1, <1>4 DEF RunType
  <2> HIDE DEF s
  <2> QED BY <1>2, <1>6, <1>9, <2>1 DEF RunTrue, Planned
<1>13. RunTrue(Concluded(r, d), f, store')
  <2> HIDE DEF e
  <2>1. ASSUME d.outcome = "RECONCILE"
        PROVE  /\ r.obs[d.source].inventory.on_hand
                    = TrueStockOf(f.feed, r.known[d.source])
               /\ Settles(ReconciliationPlan(d, r.obs), r.obs)
    <3>1. DOMAIN e.obs = Warehouse
      BY <2>1, ReconcileKnowsAll
    <3>2. Reading(e, r.known, f)
      BY <1>4, <1>7, <1>9, <1>10, <3>1, PartialFunctions DEF Reading
    <3>3. /\ TrueOf(e, r.known, f, d.source)
          /\ Settles(ReconciliationPlan(d, e.obs), e.obs)
      BY <2>1, <3>2, DecisionIsTrue
    <3> QED BY <1>7, <3>3 DEF TrueOf
  <2> HIDE DEF d
  <2> QED BY <1>1, <1>2, <1>4, <1>6, <1>9, <2>1, ConcludedTrue
<1> HIDE DEF s, d, e
<1> QED BY <1>3, <1>8, <1>11, <1>12, <1>13, TrueStep DEF r

LEMMA ReassessTrue ==
  ASSUME Alone, FleetInv, NEW f \in Fleets, WrongStockShows(f),
         Promised(f), Truthful(f), NEW a \in Agent, Reassess(a)
  PROVE  Truthful(f)'
<1> DEFINE r == run[a]
           e == Assessment(r)
           d == Reassessed(r.queried, e)
<1>1. /\ r \in RunType /\ RunInv(r) /\ r.stage = "investigating"
      /\ r.waiting = {} /\ Since(f)
      /\ RunSince(r, f, store, reflected) /\ RunTrue(r, f, store)
  BY ARun DEF Reassess, Promised, Truthful
<1>2. store' = store /\ reflected' = reflected
      /\ run' = [run EXCEPT ![a] = Concluded(r, d)]
  BY DEF Reassess, world
<1>3. HoldsTrue(f)'
  BY <1>2 DEF Truthful, HoldsTrue
<1>4. /\ Asking(r, store) /\ Traced(r.obs, r.known, f)
      /\ Recorded(r.obs, r.known, f)
      /\ AllKnown(store) => Settled(Records(store))
  BY <1>1 DEF RunSince, RunTrue
<1>5. e.obs = r.obs /\ e.histories = r.histories
      /\ Investigated(e) = DOMAIN r.histories
  BY DEF Assessment, Investigated
<1>6. r.obs \in Partial(Record) /\ DOMAIN r.histories \subseteq DOMAIN r.obs
      /\ DOMAIN r.histories \subseteq Warehouse /\ r.plan = NoPlan
  BY <1>1 DEF RunType, RunInv
<1> HIDE DEF r, e
<1>7. ASSUME d.outcome = "RECONCILE"
      PROVE  /\ r.obs[d.source].inventory.on_hand
                  = TrueStockOf(f.feed, r.known[d.source])
             /\ Settles(ReconciliationPlan(d, r.obs), r.obs)
  <2>1. d = Decide(e) /\ DOMAIN e.obs = Warehouse
    <3>1. Escalate.outcome = "ESCALATE"
      BY DEF Escalate
    <3>2. d \in {Escalate, Decide(e)}
      BY DEF Reassessed
    <3> QED BY <1>7, <3>1, <3>2, ReconcileKnowsAll
  <2>2. ASSUME NEW w \in Investigated(e), Early(e.obs[w])
        PROVE  e.histories[w] = Recent(f)[w]
    <3>1. w \in Warehouse /\ w \in DOMAIN r.obs /\ w \in DOMAIN r.histories
      BY <1>5, <1>6
    <3>2. Early(store[w].rec)
      BY <1>4, <1>5, <2>2, <3>1 DEF Asking, AsTheyAre
    <3>3. Stems(store[w], reflected[w], f.store[w], f.reflected[w])
      BY <1>1, <3>1 DEF Since
    <3>4. store[w] = f.store[w]
      BY <3>2, <3>3 DEF Stems
    <3>5. r.histories[w] = RecentEvents(store[w].hist, HistoryLimit)
      BY <1>4, <3>1 DEF Asking
    <3> QED BY <1>5, <3>1, <3>4, <3>5 DEF Recent
  <2>3. Reading(e, r.known, f)
    BY <1>4, <1>5, <1>6, <2>1, <2>2, PartialFunctions DEF Reading
  <2>4. /\ TrueOf(e, r.known, f, Decide(e).source)
        /\ Settles(ReconciliationPlan(Decide(e), e.obs), e.obs)
    BY <1>7, <2>1, <2>3, DecisionIsTrue
  <2> QED BY <1>5, <2>1, <2>4 DEF TrueOf
<1>8. RunTrue(Concluded(r, d), f, store')
  <2> HIDE DEF d
  <2> QED BY <1>1, <1>2, <1>4, <1>6, <1>7, ConcludedTrue
<1> HIDE DEF d
<1> QED BY <1>2, <1>3, <1>8, TrueStep DEF r

(* When all writes are taken the fleet is settled. *)
LEMMA CarriedSettles ==
  ASSUME NEW r \in RunType, NEW st, Carried(r, st), r.todo = {},
         Settles(r.plan, r.obs)
  PROVE  Settled(Records(st))
<1> DEFINE recs == Records(st)
           T == r.plan.targets
<1>1. \A w \in Warehouse : recs[w] = st[w].rec
  BY DEF Records
<1>2. /\ \A w \in Warehouse \ T : recs[w] = r.obs[w]
      /\ \A w \in T : recs[w].version = r.plan.version
  <2>1. T \subseteq Warehouse
    BY DEF RunType, Plan
  <2> QED BY <1>1, <2>1 DEF Carried, Taken
<1> HIDE DEF recs
<1>3. CASE \A w \in Warehouse : w \in T \/ r.obs[w].version = r.plan.version
  <2>1. \A w \in Warehouse : recs[w].version = r.plan.version
    BY <1>2, <1>3
  <2> QED BY <2>1 DEF Settled, recs
<1>4. CASE \E v, w \in Warehouse \ T :
             v # w /\ LogicalKey(r.obs[v]) = LogicalKey(r.obs[w])
  <2>1. PICK v \in Warehouse \ T, w \in Warehouse \ T :
          v # w /\ LogicalKey(r.obs[v]) = LogicalKey(r.obs[w])
    BY <1>4
  <2>2. LogicalKey(recs[v]) = LogicalKey(recs[w])
    BY <1>2, <2>1
  <2> QED BY <2>1, <2>2 DEF Settled, recs
<1> QED BY <1>3, <1>4 DEF Settles

LEMMA ExecuteTrue ==
  ASSUME Alone, FleetInv, FleetInv', NEW f \in Fleets, Promised(f), Promised(f)',
         Truthful(f), NEW a \in Agent, ExecuteUpdate(a)
  PROVE  Truthful(f)'
<1> DEFINE r == run[a]
           w == Min(r.todo)
           again == [r EXCEPT !.ok = FALSE]
           next == [r EXCEPT !.todo = @ \ {w}]
<1>1. /\ r \in RunType /\ RunInv(r) /\ GoodRun(r, store)
      /\ r.stage = "executing" /\ Since(f)
      /\ RunSince(r, f, store, reflected) /\ RunTrue(r, f, store)
  BY ARun DEF ExecuteUpdate, Promised, Truthful
<1>2. /\ w \in r.todo /\ w \in Warehouse /\ w \in r.plan.targets
  BY <1>1, NextMessageIsGood DEF GoodMessage, RunInv, RunType
<1>3. /\ Carried(r, store) /\ Recorded(r.obs, r.known, f)
      /\ Settles(r.plan, r.obs)
      /\ r.plan.inventory.on_hand = TrueStockOf(f.feed, r.known[r.plan.source])
  <2>1. Planned(r)
    BY <1>2 DEF Planned, NoPlan
  <2> QED BY <1>1, <2>1 DEF RunSince, RunTrue
<1>4. PICK outcome :
        /\ Handle(Message(r, w), outcome)
        /\ run' = [run EXCEPT ![a] =
             IF outcome \notin {"unchanged", "updated"}
               THEN Verifying([r EXCEPT !.ok = FALSE])
             ELSE IF r.todo = {w} THEN Verifying(r)
             ELSE [r EXCEPT !.todo = @ \ {w}]]
  BY DEF ExecuteUpdate
<1>5. PICK x : /\ run' = [run EXCEPT ![a] = x]
               /\ x \in {Verifying(again), Verifying(r), next}
  BY <1>4
<1>6. store \in [Warehouse -> Entry \cup {Missing}]
      /\ reflected \in [Warehouse -> SUBSET Nat]
  BY DEF FleetInv, World, GoodStore
<1>7. \/ UNCHANGED <<store, reflected>>
      \/ /\ \A v \in Warehouse \ {w} :
              store'[v] = store[v] /\ reflected'[v] = reflected[v]
         /\ reflected'[w] = r.known[r.plan.source]
  <2> DEFINE m == Message(r, w)
  <2>1. m.to = w /\ m.carries = r.known[r.plan.source]
    BY DEF Message
  <2> HIDE DEF m, r, w
  <2>2. \/ UNCHANGED <<store, reflected>>
        \/ /\ store' = [store EXCEPT ![w] = AfterUpdate(@, m.request, clock)]
           /\ reflected' = [reflected EXCEPT ![w] = m.carries]
    BY <1>4, <2>1 DEF Handle, m
  <2> QED BY <1>2, <1>6, <2>1, <2>2
<1> HIDE DEF w
<1>8. /\ x.obs = r.obs /\ x.known = r.known /\ x.plan = r.plan
      /\ x.stage \in {"executing", "verifying"} /\ w \notin x.todo
      /\ x.stage = "verifying" => x.todo = {}
  <2> DEFINE Same(y) ==
        /\ y.obs = r.obs /\ y.known = r.known /\ y.plan = r.plan
        /\ y.stage \in {"executing", "verifying"} /\ w \notin y.todo
        /\ y.stage = "verifying" => y.todo = {}
  <2>1. Same(next)
    BY <1>1 DEF RunType
  <2>2. Same(Verifying(r))
    BY <1>1 DEF Verifying, RunType
  <2>3. Same(Verifying(again))
    BY <1>1 DEF Verifying, RunType
  <2> HIDE DEF again, next, r
  <2> QED BY <1>5, <2>1, <2>2, <2>3
<1> HIDE DEF again, next, r
<1>9. run'[a] = x
  BY <1>5 DEF FleetInv, Runs
<1>10. x \in RunType /\ Carried(x, store')
  <2>1. RunSince(run'[a], f, store', reflected')
    BY DEF Promised
  <2>2. run'[a] \in RunType
    BY DEF FleetInv, Runs, GoodRun
  <2> QED BY <1>8, <1>9, <2>1, <2>2 DEF RunSince
<1>11. Taken(store'[w], r.obs[w], r.plan)
  BY <1>2, <1>8, <1>10 DEF Carried
<1>12. HoldsTrue(f)'
  <2>1. CASE UNCHANGED <<store, reflected>>
    BY <2>1 DEF Truthful, HoldsTrue
  <2>2. CASE /\ \A v \in Warehouse \ {w} :
                  store'[v] = store[v] /\ reflected'[v] = reflected[v]
             /\ reflected'[w] = r.known[r.plan.source]
    <3>1. TrueSince(store'[w].rec, reflected'[w], f)
      BY <1>3, <1>11, <2>2 DEF Taken, TrueSince
    <3>2. Grown(store'[w].rec, f.store[w].rec)
      <4>1. /\ Grown(r.obs[w], f.store[w].rec) /\ f.store[w] # Missing
            /\ r.obs[w].version <= r.plan.version
        <5>1. DOMAIN r.obs = Warehouse /\ Traced(r.obs, r.known, f)
          BY <1>1, <1>3 DEF Carried, RunSince
        <5> QED BY <1>2, <1>3, <5>1 DEF Recorded, Traced, Carried
      <4>2. r.obs[w] \in Record /\ f.store[w].rec \in Record
            /\ r.plan.version \in Nat
        <5>1. r.obs \in [Warehouse -> Record]
          BY <1>1, <1>3, PartialFunctions DEF RunType, Carried
        <5>2. f.store[w] \in Entry
          BY <1>2, <4>1, ReconciliationAssumption DEF Fleet
        <5>3. r.plan.version \in Nat
          BY <1>1 DEF RunType, Plan
        <5> QED BY <1>2, <5>1, <5>2, <5>3 DEF Entry
      <4>3. store'[w].rec = r.obs[w]
            \/ /\ store'[w].rec.version = r.plan.version
               /\ store'[w].rec.cursor = r.obs[w].cursor + 1
        BY <1>11 DEF Taken
      <4> QED BY <4>1, <4>2, <4>3 DEF Grown, Record
    <3> QED BY <2>2, <3>1, <3>2 DEF Truthful, HoldsTrue
  <2> QED BY <1>7, <2>1, <2>2
<1>13. RunTrue(x, f, store')
  <2>1. x.stage # "executing" => Settled(Records(store'))
    BY <1>3, <1>8, <1>10, CarriedSettles
  <2> QED BY <1>3, <1>8, <2>1 DEF RunTrue
<1> QED BY <1>5, <1>12, <1>13, TrueStep

LEMMA ResolveTrue ==
  ASSUME Alone, FleetInv, NEW f, Truthful(f), NEW a \in Agent, Resolve(a)
  PROVE  Truthful(f)'
<1> DEFINE r == run[a]
           outcome == IF r.ok /\ Verified(r) THEN "RESOLVED" ELSE "ESCALATED"
           x == Finished(r, outcome)
<1>1. r \in RunType /\ r.stage = "verifying" /\ RunTrue(r, f, store)
  BY ARun DEF Resolve, Truthful
<1>2. store' = store /\ reflected' = reflected
      /\ run' = [run EXCEPT ![a] = x]
  BY DEF Resolve, world
<1>3. HoldsTrue(f)'
  BY <1>2 DEF Truthful, HoldsTrue
<1> HIDE DEF outcome
<1>4. x.stage = "finished" /\ x.obs = r.obs /\ x.known = r.known
      /\ x.plan = r.plan
  BY <1>1 DEF Finished, RunType
<1> HIDE DEF x, r
<1>5. RunTrue(x, f, store')
  BY <1>1, <1>2, <1>4 DEF RunTrue, Planned
<1> QED BY <1>2, <1>3, <1>5, TrueStep

LEMMA InitTruthful ==
  ASSUME \A f \in Fleets : EvidentFleet(f)
  PROVE  Init => \E f \in Fleets : Promised(f) /\ Truthful(f)
<1> SUFFICES ASSUME Init PROVE \E f \in Fleets : Promised(f) /\ Truthful(f)
  OBVIOUS
<1>1. PICK f \in Fleets : Promised(f)
  BY InitPromised
<1>2. \A w \in Warehouse : store[w] # Missing =>
        Early(store[w].rec) /\ store[w] = f.store[w]
  <2>1. PICK g \in Fleets : store = g.store
    BY DEF Init
  <2>2. \A w \in Warehouse : store[w] # Missing => Early(store[w].rec)
    BY <2>1 DEF EvidentFleet, Early
  <2>3. \A w \in Warehouse : store[w] = f.store[w] \/ ~Early(store[w].rec)
    BY <1>1 DEF Promised, Since, Stems
  <2> QED BY <2>2, <2>3
<1>3. \A w \in Warehouse : store[w] # Missing => store[w].rec \in Record
  BY InitFleetInv, SealedIsKnown DEF FleetInv, World, GoodStore
<1>4. HoldsTrue(f)
  <2>1. ASSUME NEW w \in Warehouse, store[w] # Missing
        PROVE  Grown(store[w].rec, f.store[w].rec)
    <3>1. store[w] = f.store[w] /\ store[w].rec \in Record
      BY <1>2, <1>3, <2>1
    <3>2. store[w].rec.version <= store[w].rec.version
          /\ store[w].rec.cursor <= store[w].rec.cursor
      BY <3>1 DEF Record
    <3> QED BY <3>1, <3>2 DEF Grown
  <2> QED BY <1>2, <2>1 DEF HoldsTrue, TrueSince
<1>5. NewRun.stage = "idle" /\ NewRun.plan = NoPlan
  BY DEF NewRun
<1>6. AllKnown(store) => Settled(Records(store))
  BY <1>2 DEF AllKnown, Settled, Records
<1>7. RunTrue(NewRun, f, store)
  BY <1>5, <1>6 DEF RunTrue, Planned
<1>8. \A a \in Agent : run[a] = NewRun
  BY DEF Init
<1> QED BY <1>1, <1>4, <1>7, <1>8 DEF Truthful

LEMMA NextTruthful ==
  ASSUME Still, NEW f \in Fleets, WrongStockShows(f),
         FleetInv, FleetInv', Quiet, Promised(f), Promised(f)', Truthful(f),
         [Next]_vars
  PROVE  Truthful(f)'
<1>1. CASE UNCHANGED vars
  BY <1>1 DEF vars, Truthful, HoldsTrue
<1>2. CASE Next
  <2>1. Alone
    BY DEF Still
  <2> QED BY <1>2, <2>1, StillSteps, StartTrue, AnswerTrue, AnalyseTrue,
             ReassessTrue, ExecuteTrue, ResolveTrue
<1> QED BY <1>1, <1>2

(* What an agent decides to spread is the stock that the opening count and *)
(* the accounted events make, never the value of a miscounted warehouse    *)
(* (README.md:94, 98-99): for any fleets in which wrong stock shows, and   *)
(* however many runs have written them before, if nothing else changes the *)
(* warehouses.                                                             *)
THEOREM WrongStockIsNotSpread ==
  ASSUME \A a, b \in Agent : a = b,
         MaxLosses = 0, MaxMiscounts = 0, Deltas = <<>>,
         Cardinality(Warehouse) >= 3, ReadOnly = {},
         \A f \in Fleets : EvidentFleet(f) /\ WrongStockShows(f)
  PROVE  Spec => []OnlyTrueStockIsSpread
<1> DEFINE Kept == \E f \in Fleets : Promised(f) /\ Truthful(f)
<1>1. Still
  BY DEF Still, Alone
<1>2. FleetInv /\ Quiet /\ [Next]_vars => Quiet'
  BY <1>1, NextQuiet
<1>3. Init => Kept
  BY InitTruthful
<1>4. FleetInv /\ FleetInv' /\ Quiet /\ Kept /\ [Next]_vars => Kept'
  BY <1>1, NextPromised, NextTruthful
<1>5. Kept => OnlyTrueStockIsSpread
  <2> SUFFICES ASSUME NEW f \in Fleets, Promised(f), Truthful(f),
                      NEW a \in Agent, Planned(run[a])
               PROVE  run[a].plan.inventory.on_hand
                        = TrueStock(run[a].known[run[a].plan.source])
    BY DEF OnlyTrueStockIsSpread
  <2>1. feed = f.feed
    BY DEF Promised, Since
  <2>2. run[a].plan.inventory.on_hand
          = TrueStockOf(f.feed, run[a].known[run[a].plan.source])
    BY DEF Truthful, RunTrue
  <2> QED BY <2>1, <2>2 DEF TrueStock
<1> HIDE DEF Kept
<1> QED BY <1>2, <1>3, <1>4, <1>5, InitQuiet, FleetInvariant, PTL DEF Spec
=============================================================================
