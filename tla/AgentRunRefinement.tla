------------------------- MODULE AgentRunRefinement -------------------------
(***************************************************************************)
(* What the run of AgentRun does to SKU s is what Reconciliation's agent   *)
(* does to a fleet with that SKU only: neither the other conflicts of the  *)
(* same gather() nor the SKUs written before it make a difference.  Agents *)
(* of version 1 and 2 stop on the way.  A SKU that is decided and not yet  *)
(* written is, for its fleet, at the first PUT of its plan.                *)
(***************************************************************************)
EXTENDS AgentRun

(* The SKUs of a run are those its catalogues name (detector.py:18-20).    *)
ASSUME EverySkuIsKnown ==
  \A h \in Shelves : \A s \in Sku : \E w \in Warehouse : h[w][s] # Missing

FleetsOf(s) ==
  {[store |-> [w \in Warehouse |-> h[w][s]],
    reflected |-> [w \in Warehouse |-> {}], feed |-> <<>>] : h \in Shelves}

StoreOf(s) == [w \in Warehouse |-> shelf[w][s]]

(* A PUT that got no answer, as a fleet knows it *)
Unanswered(r, m) ==
  [to |-> m.to, request |-> m.request, read |-> r.obs[m.sku][m.to],
   carries |-> {}]

LateOf(s) == {Unanswered(run, m) : m \in {n \in late : n.sku = s}}

(* The calls about s that got no answer *)
LostOf(r, s) == {c \in r.calls : c.answer = "lost" /\ c.sku \in {s, NoSku}}

(* Whom the gather() waits for, as far as it is about s *)
WaitingFor(r, s) == {c[1] : c \in {d \in r.waiting : d[2] = s}}

CatalogueLost(r) == \E c \in r.calls : c.answer = "lost" /\ c.sku = NoSku

Blank ==
  [stage |-> "idle", outcome |-> "none", waiting |-> {}, ok |-> TRUE,
   obs |-> <<>>, known |-> <<>>, histories |-> <<>>, queried |-> {},
   plan |-> NoPlan, todo |-> {}, checked |-> <<>>]

(* No warehouse has processed an event of the fleet's feed: there is none. *)
Unreflected(ws) == [w \in ws |-> {}]

(* A run of s that has read what r has read about s *)
At(r, s, stage, outcome, waiting, ok, plan, todo, checked) ==
  [stage |-> stage, outcome |-> outcome, waiting |-> waiting, ok |-> ok,
   obs |-> r.obs[s], known |-> Unreflected(r.observed),
   histories |-> r.histories[s], queried |-> AskedOf(r, s),
   plan |-> plan, todo |-> todo, checked |-> checked]

(* A run of s before there is a plan for it, or with none in the end *)
Planless(r, s, stage, outcome, waiting, ok) ==
  At(r, s, stage, outcome, waiting, ok, NoPlan, {}, <<>>)

(* The run once a plan for s is to be executed; "plans" has it from the    *)
(* first PUT on.                                                           *)
Writing(r, s) ==
  LET ok == s \notin r.failed
      plan == PlanFor(r, s)
  IN  IF s \notin DOMAIN r.plans
        THEN At(r, s, "executing", "none", {}, TRUE, plan, plan.targets, <<>>)
      ELSE IF s \in DOMAIN r.resolutions
        THEN At(r, s, "finished", r.resolutions[s], {}, ok, r.plans[s], {},
                r.checked[s])
      ELSE At(r, s, r.status, "none", WaitingFor(r, s), ok, r.plans[s], r.todo,
              r.checked[s])

SkuRun(r, s) ==
  IF r.status = "starting" THEN Blank
  ELSE IF r.status = "observing"
    THEN Planless(r, s, "observing", "none", WaitingFor(r, NoSku),
                  ~CatalogueLost(r))
  ELSE IF r.status = "failed" THEN Planless(r, s, "finished", "FAILED", {}, FALSE)
  ELSE IF s \notin Conflicts(r)
    THEN Planless(r, s, "finished", "CONSISTENT", {}, TRUE)
  ELSE IF r.version = 1 THEN Planless(r, s, "observing", "none", {}, TRUE)
  ELSE IF r.decisions[s].outcome = "INVESTIGATE"
    THEN Planless(r, s, "investigating", "none", WaitingFor(r, s), TRUE)
  ELSE IF ~Executable(r, s)
    THEN Planless(r, s, "finished", Unwritten(r.decisions[s]), {}, TRUE)
  ELSE Writing(r, s)

RunsOf(r) == IF r.status = "starting" THEN 0 ELSE 1

Fleet(s) ==
  INSTANCE Reconciliation WITH
    Agent <- {1}, Fleets <- FleetsOf(s), Deltas <- <<>>, MaxRuns <- 1,
    MaxMiscounts <- 0, OpeningStock <- 0,
    store <- StoreOf(s),
    reflected <- [w \in Warehouse |-> {}], feed <- <<>>,
    clock <- clock[s],
    run <- [a \in {1} |-> SkuRun(run, s)],
    late <- LateOf(s),
    losses <- Cardinality(LostOf(run, s)),
    runs <- [a \in {1} |-> RunsOf(run)],
    miscounts <- 0

(* Every SKU is reconciled as if it were the only one: the loop over the   *)
(* decisions (runner.py:214-276) and the shared gather() of investigations *)
(* (runner.py:293-317) are a refinement of one fleet per SKU.              *)
EachSkuIsReconciled ==
  /\ \A s \in Sku : Fleet(s)!Init
  /\ [][\A s \in Sku : Fleet(s)!Next \/ UNCHANGED Fleet(s)!vars]_vars

=============================================================================
