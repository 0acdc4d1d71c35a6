--------------------------- MODULE Reconciliation ---------------------------
(***************************************************************************)
(* The fleet: warehouses that hold the same SKU, the agents that reconcile *)
(* it (run_agent_v3 of agent/runner.py with observer, executor and         *)
(* verifier), the HTTP exchange between them and the world that goes on    *)
(* posting stock events meanwhile.                                         *)
(*                                                                         *)
(* A GET is answered at one instant and the answers of one gather() come   *)
(* in any order; what an agent does between two awaits is one step.  A PUT *)
(* is one step of its warehouse.  A PUT the agent gives up on (a timeout,  *)
(* a broken connection) may have reached the warehouse or may reach it at  *)
(* any later time, or never: it goes to "late".                            *)
(***************************************************************************)
EXTENDS RunSteps

CONSTANTS
  Agent,
  Fleets,        \* initial states of the fleet: [store, reflected, feed]
  HistoryLimit,  \* events asked for in an investigation (planner.py: 10)
  Deltas,        \* the stock events the world will post, by their number
  MaxRuns,       \* bound: runs started by one agent
  MaxLosses,     \* bound: exchanges that fail
  MaxMiscounts,  \* bound: records whose stock changes without a revision
  OpeningStock   \* what every warehouse opened with (ghost)

(* What a fleet starts with.  "reflected" has the numbers of the stock     *)
(* events that the warehouse's on_hand accounts for, "feed" the events     *)
(* posted so far: the truth that no component of the program can see.      *)
Fleet ==
  [store : [Warehouse -> Entry \cup {Missing}],
   reflected : [Warehouse -> SUBSET Nat],
   feed : Seq(Event)]

ASSUME ReconciliationAssumption ==
  /\ \A f \in Fleets : f \in Fleet
  /\ HistoryLimit \in Nat \ {0}
  /\ Deltas \in Seq(Int \ {0}) /\ Len(Deltas) < ReconcileBase
  /\ ReadOnly \subseteq Warehouse
  /\ {MaxRuns, MaxLosses, MaxMiscounts, OpeningStock} \subseteq Nat

(* The fleets are as the loader and earlier requests have left them (see   *)
(* WarehouseStore), and external events never have the id of an update.    *)
ASSUME FleetsAssumption ==
  \A f \in Fleets :
    /\ \A w \in Warehouse : f.store[w] # Missing =>
         LET e == f.store[w]
         IN  /\ e.hist[Len(e.hist)] = e.rec.last
             /\ UniqueIds(e.hist)
             /\ \A i \in DOMAIN e.hist :
                  \/ e.hist[i].id < ReconcileBase
                  \/ e.hist[i].id <= ReconcileBase + e.rec.cursor
    /\ \A k \in DOMAIN f.feed :
         f.feed[k].id < ReconcileBase /\ f.feed[k].delta # 0

VARIABLES
  store,      \* warehouse -> entry of the SKU
  reflected,  \* warehouse -> events its on_hand accounts for (ghost)
  feed,       \* the stock events posted so far
  clock,      \* the time: every write and every posted event has its own
  run,        \* agent -> the state of its run
  late,       \* PUTs whose sender has given up
  losses, runs, miscounts

vars == <<store, reflected, feed, clock, run, late, losses, runs, miscounts>>

-----------------------------------------------------------------------------
(* The state of a run (agent/models.RunState, for one SKU).  "known" keeps *)
(* what the observed records accounted for (ghost).                        *)

(* "outcome" is that of the last run that ended.                           *)
NewRun ==
  [stage |-> "idle", outcome |-> "none", waiting |-> {}, ok |-> TRUE,
   obs |-> <<>>, known |-> <<>>, histories |-> <<>>, queried |-> {},
   plan |-> NoPlan, todo |-> {}, checked |-> <<>>]

Assessment(r) == [obs |-> r.obs, histories |-> r.histories]

Finished(r, outcome) ==
  [r EXCEPT !.stage = "finished", !.outcome = outcome, !.waiting = {}]

(* Faulty: the plan is executed on every participant. *)
ConcludedForAll(r, d) ==
  LET plan == ReconciliationPlan(d, r.obs)
  IN  IF d.outcome # "RECONCILE" THEN Finished(r, "ESCALATED")
      ELSE IF ~SafePlan(plan, d, r.obs) THEN Finished(r, "ESCALATED")
      ELSE [r EXCEPT !.stage = "executing", !.plan = plan,
                     !.todo = plan.participants]

(* From a decision to a write plan or to the end of the run                *)
Concluded(r, d) ==
  LET plan == ReconciliationPlan(d, r.obs)
  IN  IF d.outcome = "NO_ACTION" THEN Finished(r, "NO_ACTION")
      ELSE IF d.outcome # "RECONCILE" THEN Finished(r, "ESCALATED")
      ELSE IF plan.targets = {} \/ ~SafePlan(plan, d, r.obs)
        THEN Finished(r, "ESCALATED")
      ELSE [r EXCEPT !.stage = "executing", !.plan = plan,
                     !.todo = plan.targets]

(* Faulty: the expected version is that of the moment of the write. *)
RequestOfTheMoment(r, w) ==
  [expected |-> store[w].rec.version, target |-> r.plan.version,
   inventory |-> r.plan.inventory]

Request(r, w) ==
  [expected |-> r.obs[w].version, target |-> r.plan.version,
   inventory |-> r.plan.inventory]

(* A PUT on the wire, with the record its sender had read and what that    *)
(* record's replacement accounts for (ghosts)                              *)
Message(r, w) ==
  [to |-> w, request |-> Request(r, w), read |-> r.obs[w],
   carries |-> r.known[r.plan.source]]

Verifying(r) ==
  [r EXCEPT !.stage = "verifying", !.waiting = r.plan.participants,
            !.todo = {}]

-----------------------------------------------------------------------------
StartTime == 10  \* later than anything a fleet starts with

Init ==
  /\ \E f \in Fleets :
       store = f.store /\ reflected = f.reflected /\ feed = f.feed
  /\ clock = StartTime
  /\ run = [a \in Agent |-> NewRun]
  /\ late = {}
  /\ losses = 0 /\ miscounts = 0
  /\ runs = [a \in Agent |-> 0]

world == <<store, reflected, feed, clock, late, miscounts>>

Start(a) ==
  /\ run[a].stage \in {"idle", "finished"}
  /\ runs[a] < MaxRuns
  /\ runs' = [runs EXCEPT ![a] = @ + 1]
  /\ run' = [run EXCEPT ![a] =
       [NewRun EXCEPT !.stage = "observing", !.waiting = Warehouse,
                      !.outcome = run[a].outcome]]
  /\ UNCHANGED <<world, losses>>

(* GET /inventory; a warehouse that does not know the SKU omits it.        *)
AnswerCatalogue(a, w) ==
  /\ run[a].stage = "observing" /\ w \in run[a].waiting
  /\ run' = [run EXCEPT
       ![a].waiting = @ \ {w},
       ![a].obs = IF store[w] = Missing THEN @ ELSE With(@, w, store[w].rec),
       ![a].known = With(@, w, reflected[w])]
  /\ UNCHANGED <<world, losses, runs>>

(* GET /inventory/{sku}/events *)
AnswerEvents(a, w) ==
  /\ run[a].stage = "investigating" /\ w \in run[a].waiting
  /\ store[w] # Missing
  /\ run' = [run EXCEPT
       ![a].waiting = @ \ {w},
       ![a].histories = With(@, w, RecentEvents(store[w].hist, HistoryLimit))]
  /\ UNCHANGED <<world, losses, runs>>

(* GET /inventory/{sku} *)
AnswerVerification(a, w) ==
  /\ run[a].stage = "verifying" /\ w \in run[a].waiting
  /\ store[w] # Missing
  /\ run' = [run EXCEPT ![a].waiting = @ \ {w},
                        ![a].checked = With(@, w, store[w].rec)]
  /\ UNCHANGED <<world, losses, runs>>

(* A GET fails.  One missing catalogue fails the run; a missing history is *)
(* evidence that was not gathered; a missing record fails verification.    *)
LoseRead(a, w) ==
  /\ run[a].stage \in {"observing", "investigating", "verifying"}
  /\ w \in run[a].waiting
  /\ losses < MaxLosses
  /\ losses' = losses + 1
  /\ run' = [run EXCEPT ![a].waiting = @ \ {w},
                        ![a].ok = @ /\ run[a].stage # "observing"]
  /\ UNCHANGED <<world, runs>>

(* All catalogues are in: detect, decide, and read histories if need be.   *)
Analyse(a) ==
  LET r == run[a]
      d == Decide(Assessment(r))
      asked == InvestigationPlan(d, Assessment(r))
  IN  /\ r.stage = "observing" /\ r.waiting = {}
      /\ run' = [run EXCEPT ![a] =
           IF ~r.ok THEN Finished(r, "FAILED")
           ELSE IF ~Conflict(r.obs) THEN Finished(r, "CONSISTENT")
           ELSE IF d.outcome = "INVESTIGATE"
             THEN [r EXCEPT !.stage = "investigating", !.waiting = asked,
                            !.queried = asked]
           ELSE Concluded(r, d)]
      /\ UNCHANGED <<world, losses, runs>>

Reassess(a) ==
  LET r == run[a]
  IN  /\ r.stage = "investigating" /\ r.waiting = {}
      /\ run' = [run EXCEPT ![a] =
           Concluded(r, Reassessed(r.queried, Assessment(r)))]
      /\ UNCHANGED <<world, losses, runs>>

(* What a PUT does to the warehouse it reaches *)
Handle(m, outcome) ==
  LET w == m.to
  IN  /\ outcome = UpdateOutcome(store[w].rec, m.request, w \notin ReadOnly)
      /\ IF outcome = "updated"
         THEN /\ store' = [store EXCEPT ![w] =
                             AfterUpdate(@, m.request, clock)]
              /\ reflected' = [reflected EXCEPT ![w] = m.carries]
              /\ clock' = clock + 1
         ELSE UNCHANGED <<store, reflected, clock>>

(* Faulty: a rejected PUT is sent again. *)
ExecuteUpdateRetrying(a) ==
  LET r == run[a]
      w == Min(r.todo)
  IN  /\ r.stage = "executing"
      /\ \E outcome \in {"not_writable", "version_conflict", "target_version",
                         "same_version_inventory", "unchanged", "updated"} :
           /\ Handle(Message(r, w), outcome)
           /\ run' = [run EXCEPT ![a] =
                IF outcome \notin {"unchanged", "updated"} THEN r
                ELSE IF r.todo = {w} THEN Verifying(r)
                ELSE [r EXCEPT !.todo = @ \ {w}]]
      /\ UNCHANGED <<feed, late, losses, runs, miscounts>>

(* The next PUT of the plan and its answer: go on, or stop at the first    *)
(* rejection and verify whatever has been done.                            *)
ExecuteUpdate(a) ==
  LET r == run[a]
      w == Min(r.todo)
  IN  /\ r.stage = "executing"
      /\ \E outcome \in {"not_writable", "version_conflict", "target_version",
                         "same_version_inventory", "unchanged", "updated"} :
           /\ Handle(Message(r, w), outcome)
           /\ run' = [run EXCEPT ![a] =
                IF outcome \notin {"unchanged", "updated"}
                  THEN Verifying([r EXCEPT !.ok = FALSE])
                ELSE IF r.todo = {w} THEN Verifying(r)
                ELSE [r EXCEPT !.todo = @ \ {w}]]
      /\ UNCHANGED <<feed, late, losses, runs, miscounts>>

(* No answer to the next PUT *)
LoseUpdate(a) ==
  LET r == run[a]
  IN  /\ r.stage = "executing"
      /\ losses < MaxLosses
      /\ losses' = losses + 1
      /\ late' = late \cup {Message(r, Min(r.todo))}
      /\ run' = [run EXCEPT ![a] = Verifying([r EXCEPT !.ok = FALSE])]
      /\ UNCHANGED <<store, reflected, feed, clock, runs, miscounts>>

HandleLate(m) ==
  /\ late' = late \ {m}
  /\ \E outcome \in {"not_writable", "version_conflict", "target_version",
                     "same_version_inventory", "unchanged", "updated"} :
       Handle(m, outcome)
  /\ UNCHANGED <<feed, run, losses, runs, miscounts>>

Resolve(a) ==
  LET r == run[a]
  IN  /\ r.stage = "verifying" /\ r.waiting = {}
      /\ run' = [run EXCEPT ![a] =
           Finished(r, IF r.ok /\ Verified(r) THEN "RESOLVED"
                       ELSE "ESCALATED")]
      /\ UNCHANGED <<world, losses, runs>>

-----------------------------------------------------------------------------
(* The world: an event stream that every warehouse processes in order, at  *)
(* its own pace, and stock that is miscounted now and then.                *)

EventNumber(k) ==
  IF k <= Len(feed) THEN feed[k]
  ELSE [id |-> k, delta |-> Deltas[k], opening |-> FALSE, at |-> clock]

Ingest(w) ==
  /\ store[w] # Missing
  /\ \E k \in DOMAIN Deltas \ reflected[w] :
       LET request == [expected |-> store[w].rec.version,
                       event |-> EventNumber(k)]
       IN  /\ 1..(k - 1) \subseteq reflected[w]
           /\ EventAccepted(store[w], request)
           /\ store' = [store EXCEPT ![w] = AfterEvent(@, request)]
           /\ reflected' = [reflected EXCEPT ![w] = @ \cup {k}]
           /\ IF k <= Len(feed) THEN UNCHANGED <<feed, clock>>
              ELSE feed' = Append(feed, EventNumber(k)) /\ clock' = clock + 1
  /\ UNCHANGED <<run, late, losses, runs, miscounts>>

Miscount(w) ==
  /\ store[w] # Missing
  /\ miscounts < MaxMiscounts
  /\ miscounts' = miscounts + 1
  /\ \E d \in {-1, 1} :
       LET request == [expected |-> store[w].rec.version,
                       on_hand |-> store[w].rec.inventory.on_hand + d]
       IN  /\ CorruptionAccepted(store[w], request)
           /\ store' = [store EXCEPT ![w] = AfterCorruption(@, request)]
  /\ UNCHANGED <<reflected, feed, clock, run, late, losses, runs>>

-----------------------------------------------------------------------------
AgentStep(a) ==
  \/ \E w \in Warehouse : \/ AnswerCatalogue(a, w)
                          \/ AnswerEvents(a, w)
                          \/ AnswerVerification(a, w)
  \/ Analyse(a)
  \/ Reassess(a)
  \/ ExecuteUpdate(a)
  \/ Resolve(a)

Next ==
  \/ \E a \in Agent : \/ Start(a)
                      \/ AgentStep(a)
                      \/ \E w \in Warehouse : LoseRead(a, w)
                      \/ LoseUpdate(a)
  \/ \E m \in late : HandleLate(m)
  \/ \E w \in Warehouse : Ingest(w) \/ Miscount(w)

Spec == Init /\ [][Next]_vars

-----------------------------------------------------------------------------
(* Types *)

Stage == {"idle", "observing", "investigating", "executing", "verifying",
          "finished"}

Outcome == {"none", "FAILED", "CONSISTENT", "NO_ACTION", "ESCALATED",
            "RESOLVED"}

RunOK(r) ==
  /\ r.stage \in Stage /\ r.outcome \in Outcome /\ r.ok \in BOOLEAN
  /\ {r.waiting, r.queried, r.todo} \subseteq SUBSET Warehouse
  /\ IsPartial(r.obs, Record) /\ IsPartial(r.checked, Record)
  /\ IsPartial(r.known, SUBSET Nat) /\ IsPartial(r.histories, SUBSET Event)
  /\ r.plan \in Plan /\ r.todo \subseteq r.plan.targets

TypeOK ==
  /\ store \in [Warehouse -> Entry \cup {Missing}]
  /\ reflected \in [Warehouse -> SUBSET Nat]
  /\ feed \in Seq(Event)
  /\ clock \in Nat
  /\ DOMAIN run = Agent /\ \A a \in Agent : RunOK(run[a])
  /\ \A m \in late : m.to \in Warehouse /\ m.request \in UpdateRequest
  /\ runs \in [Agent -> 0..MaxRuns]
  /\ losses \in 0..MaxLosses /\ miscounts \in 0..MaxMiscounts

-----------------------------------------------------------------------------
(* Safety *)

TrueStockOf(posted, ids) ==
  OpeningStock + MapThenSumSet(LAMBDA k : posted[k].delta, ids)

TrueStock(ids) == TrueStockOf(feed, ids)

Planned(r) == r.plan # NoPlan

SameRevision(x, y) ==
  x.version = y.version /\ x.cursor = y.cursor /\ x.last = y.last

InFlight ==
  late \cup {Message(run[a], Min(run[a].todo)) :
               a \in {b \in Agent : run[b].stage = "executing"}}

(* A write never replaces a revision other than the one its sender read:   *)
(* "this prevents the agent from overwriting a newer change that occurred  *)
(* after its initial read" (warehouse_rules.md:93).  It holds across       *)
(* delayed PUTs and several agents only because no two revisions of a      *)
(* warehouse ever share a version number.                                  *)
WriteReplacesWhatWasRead ==
  [][\A w \in Warehouse :
       /\ store'[w] # store[w]
       /\ store'[w].hist # store[w].hist
       /\ store'[w].rec.last.id > ReconcileBase
       => \E m \in InFlight :
            m.to = w /\ SameRevision(m.read, store[w].rec)]_vars

(* No stock event a warehouse accounts for is ever lost again: whichever   *)
(* events arrive while an agent reads, decides and writes, and whatever    *)
(* PUTs arrive late, what a write brings accounts for at least what it     *)
(* replaces.                                                               *)
NoStockEventLost ==
  [][\A w \in Warehouse : reflected[w] \subseteq reflected'[w]]_vars

(* What an agent decides to spread is the stock that the opening count and *)
(* the accounted events make, never the value of a miscounted warehouse    *)
(* (README.md:94, 98-99).                                                  *)
OnlyTrueStockIsSpread ==
  \A a \in Agent : LET r == run[a] IN
    Planned(r) =>
      r.plan.inventory.on_hand = TrueStock(r.known[r.plan.source])

(* A warehouse that is ahead of an agreed or lower state is never a target *)
(* of the plan (README.md:89-91).                                          *)
NewerIsNotOverwritten ==
  \A a \in Agent : LET r == run[a] IN
    r.plan.targets \cap AheadWarehouses(r.obs) \subseteq {r.plan.source}

(* After RESOLVED every participant is at the planned revision with the    *)
(* planned inventory, or has moved on to a later revision: no delayed PUT  *)
(* and no second agent undoes what verification has seen.                  *)
ResolvedStands ==
  \A a \in Agent : LET r == run[a] IN
    (r.stage = "finished" /\ r.outcome = "RESOLVED") =>
      \A w \in r.plan.participants :
        \/ store[w].rec.version > r.plan.version
        \/ /\ store[w].rec.version = r.plan.version
           /\ store[w].rec.inventory = r.plan.inventory

-----------------------------------------------------------------------------
(* What the README promises for the fleet an agent has found.  These hold  *)
(* when nothing else happens during the run.                               *)

Agree(obs, ws) == \A v, w \in ws : LogicalKey(obs[v]) = LogicalKey(obs[w])

Ended(r) == r.stage = "finished" /\ r.outcome # "FAILED"

Behind(obs, w, v) ==
  obs[w].version < obs[v].version /\ obs[w].cursor < obs[v].cursor

OneBehind(obs, w, v) ==
  /\ obs[w].version + 1 = obs[v].version
  /\ obs[w].cursor + 1 = obs[v].cursor

Sound(r, w) == r.obs[w].inventory.on_hand = TrueStock(r.known[w])

ReadInFull(hist) == hist[1].opening /\ Len(hist) < HistoryLimit

FullHistory(w) == ReadInFull(store[w].hist)

StaleByOne(r, w) ==
  /\ Agree(r.obs, Warehouse \ {w})
  /\ \A v \in Warehouse \ {w} : OneBehind(r.obs, w, v)

NewerByOne(r, w) ==
  /\ Agree(r.obs, Warehouse \ {w})
  /\ \A v \in Warehouse \ {w} : OneBehind(r.obs, v, w)
  /\ FullHistory(w)
  /\ \A v \in Warehouse : Sound(r, v) /\ r.obs[v].last \in Range(store[w].hist)

(* The events of a warehouse up to the record that was observed of it *)
EventsThen(r, w) ==
  {x \in Range(store[w].hist) : x.at <= r.obs[w].last.at}

OneMiscounted(r, w) ==
  /\ \A v, u \in Warehouse :
       SameRevision(r.obs[v], r.obs[u]) /\ EventsThen(r, v) = EventsThen(r, u)
  /\ \A v \in Warehouse : FullHistory(v) /\ (Sound(r, v) <=> v # w)

(* Every fleet with one warehouse one event behind, one warehouse one      *)
(* explained event ahead, or one miscounted warehouse at the common        *)
(* revision ends RESOLVED (README.md:86-94, agent_v3.md:108-127).          *)
PromisedFleetsAreResolved ==
  \A a \in Agent : LET r == run[a] IN
    (/\ Ended(r) /\ DOMAIN r.obs = Warehouse
     /\ \E w \in Warehouse :
          StaleByOne(r, w) \/ NewerByOne(r, w) \/ OneMiscounted(r, w))
    => r.outcome = "RESOLVED"

(* The promise presupposes fleets whose histories tell the truth: one that *)
(* is read in full makes the stock that the events it accounts for make,   *)
(* and shows how a warehouse one event ahead of another came to its stock. *)
EvidentFleet(f) ==
  LET obs == [w \in Warehouse |-> f.store[w].rec]
      read == [w \in Warehouse |-> RecentEvents(f.store[w].hist, HistoryLimit)]
      sound(w) ==
        obs[w].inventory.on_hand = TrueStockOf(f.feed, f.reflected[w])
      full(w) == ReadInFull(f.store[w].hist)
  IN  /\ \A w \in Warehouse : f.store[w] # Missing =>
           /\ obs[w].last.at < StartTime
           /\ \A x \in Range(f.store[w].hist) : x.at <= obs[w].last.at
      /\ (\A w \in Warehouse : f.store[w] # Missing) =>
           /\ ~IdentityMismatch(obs)
           /\ \A v, w \in Warehouse :
                (/\ OneBehind(obs, v, w) /\ full(w) /\ sound(v) /\ sound(w)
                 /\ obs[v].last \in Range(f.store[w].hist))
                => Extends(read[w], obs[v]) /\ Explains(read[w], obs[v], obs[w])
           /\ (\A w \in Warehouse : full(w)) =>
                \A w \in Warehouse :
                  /\ Complete(read[w])
                  /\ sound(w) <=> Total(read[w]) = obs[w].inventory.on_hand

(* What no evidence can show is out of reach of any policy.  In a fleet    *)
(* where a wrong stock shows, no other warehouse agrees with it while one  *)
(* is behind, no history that goes on from a state it can be compared with *)
(* explains it, and no complete history makes it.                          *)
WrongStockShows(f) ==
  LET obs == [w \in Warehouse |-> f.store[w].rec]
      read == [w \in Warehouse |-> RecentEvents(f.store[w].hist, HistoryLimit)]
      sound(w) ==
        obs[w].inventory.on_hand = TrueStockOf(f.feed, f.reflected[w])
      ahead(w, v) == \/ obs[w].version > obs[v].version
                     \/ obs[w].cursor > obs[v].cursor
      compared(v) ==
        \/ \E u \in Warehouse \ {v} : Agree(obs, {u, v})
        \/ \A u \in Warehouse \ {v} : Behind(obs, v, u)
  IN  (\A w \in Warehouse : f.store[w] # Missing) =>
        \A w \in Warehouse : ~sound(w) =>
          /\ (\E v \in Warehouse \ {w} : Agree(obs, {v, w})) =>
               \A u \in Warehouse : ~Behind(obs, u, w)
          /\ \A v \in Warehouse : (compared(v) /\ ahead(w, v)) =>
               ~(Extends(read[w], obs[v]) /\ Explains(read[w], obs[v], obs[w]))
          /\ Complete(read[w]) => Total(read[w]) # obs[w].inventory.on_hand

(* "Running the agent a second time to prove convergence and no repeated   *)
(* writes" (README.md:432): the run after a resolved one finds the fleet   *)
(* consistent.                                                             *)
SecondRunFindsNothing ==
  [][\A a \in Agent :
       (run[a].outcome = "RESOLVED" /\ run'[a].outcome # "RESOLVED")
         => run'[a].outcome = "CONSISTENT"]_vars

-----------------------------------------------------------------------------
(* What the README says more generally, and the code does not do           *)

(* "If two warehouses fully agree and the third is behind in both version  *)
(* and event progress, the third warehouse can be moved forward directly"  *)
(* (README.md:86-88).  The write moves the cursor by one whatever the      *)
(* distance (store.py:149), and verification compares cursors.             *)
StaleIsMovedForward ==
  \A a \in Agent : LET r == run[a] IN
    (/\ Ended(r) /\ DOMAIN r.obs = Warehouse
     /\ \E w \in Warehouse :
          /\ Agree(r.obs, Warehouse \ {w})
          /\ \A v \in Warehouse \ {w} : Behind(r.obs, w, v))
    => r.outcome = "RESOLVED"

(* "If one warehouse is newer, [...] the agent reads its event history"    *)
(* (README.md:89-91).  Warehouses that an agent has brought together have  *)
(* reconciliation events with their own times, so they are no group a      *)
(* newer warehouse can be compared with (evidence.py:442-454, 394-409).    *)
NewerIsInvestigated ==
  \A a \in Agent : LET r == run[a] IN
    (/\ Ended(r) /\ DOMAIN r.obs = Warehouse)
    => \A w \in Warehouse :
         (\A u, v \in Warehouse \ {w} :
            /\ Behind(r.obs, v, w)
            /\ r.obs[u].inventory = r.obs[v].inventory
            /\ r.obs[u].version = r.obs[v].version
            /\ r.obs[u].cursor = r.obs[v].cursor)
         => w \in r.queried

(* "If [...] two valid event branches disagree, the agent escalates        *)
(* without guessing" (README.md:95-96).  A branch on a warehouse that is   *)
(* behind two agreeing ones is overwritten unread (policy.py:209-223).     *)
BranchesAreEscalated ==
  \A a \in Agent : LET r == run[a] IN
    Planned(r) =>
      \A v, w \in r.plan.participants :
        r.known[v] \subseteq r.known[w] \/ r.known[w] \subseteq r.known[v]

-----------------------------------------------------------------------------
(* Liveness *)

(* A run that was started ends: at most one round of investigation, and no *)
(* write is repeated.                                                      *)
EveryRunEnds ==
  \A a \in Agent : [](run[a].stage = "observing"
                       => <>(run[a].stage = "finished"))

Converged ==
  \A v, w \in Warehouse :
    /\ store[v].rec.inventory = store[w].rec.inventory
    /\ store[v].rec.version = store[w].rec.version
    /\ store[v].rec.cursor = store[w].rec.cursor

(* A fleet with one warehouse one event behind converges although          *)
(* exchanges fail and PUTs arrive late, if the agent is run often enough.  *)
Converges == <>[]Converged

=============================================================================
