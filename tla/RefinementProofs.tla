--------------------------- MODULE RefinementProofs ---------------------------
(***************************************************************************)
(* That a run of the agent over several SKUs does to each of them what a   *)
(* run of that SKU alone can do (EachSkuIsReconciled), step by step.       *)
(*                                                                         *)
(* A run of AgentRun becomes, for SKU s, the run SkuRun(run, s) of a fleet *)
(* of Reconciliation.  That every step of the one is a step of the other   *)
(* or leaves it alone needs an invariant, RefinementInvariant: that the    *)
(* run is sound (RunInvariant) and its messages quiet (Quiet), and that    *)
(* every call which got no answer is found where it was made, so that one  *)
(* more is always new (Traced).                                            *)
(***************************************************************************)
EXTENDS AgentRunRefinement, AgentRunProofs

-----------------------------------------------------------------------------
(* The fleet of a SKU decides, plans, writes and verifies as the run does: *)
(* Reconciliation and AgentRun have these operators from the same modules. *)

LEMMA SameConflicts ==
  ASSUME NEW s, NEW obs
  PROVE  Fleet(s)!Conflict(obs) = Conflict(obs)
BY DEF Conflict, Fleet!Conflict, MissingState, Fleet!MissingState,
       IdentityMismatch, Fleet!IdentityMismatch,
       Inventories, Fleet!Inventories, InventoryOf, Fleet!InventoryOf,
       Versions, Fleet!Versions, VersionOf, Fleet!VersionOf,
       Cursors, Fleet!Cursors, CursorOf, Fleet!CursorOf,
       ProductOf, Fleet!ProductOf, Values, Fleet!Values,
       Several, Fleet!Several

LEMMA SameDecisions ==
  ASSUME NEW s, NEW e
  PROVE  Fleet(s)!Decide(e) = Decide(e)
BY DEF Decide, Fleet!Decide, Unsafe, Fleet!Unsafe,
       Unanimous, Fleet!Unanimous, Escalate, Fleet!Escalate,
       NoAction, Fleet!NoAction, Investigate, Fleet!Investigate,
       Reconcile, Fleet!Reconcile, NoSource, Fleet!NoSource,
       UnsupportedAhead, Fleet!UnsupportedAhead,
       RepairSupported, Fleet!RepairSupported, Repair, Fleet!Repair,
       GroupsWithStale, Fleet!GroupsWithStale,
       FirstGroup, Fleet!FirstGroup, ReconcileStale, Fleet!ReconcileStale,
       Inventories, Fleet!Inventories, InventoryOf, Fleet!InventoryOf,
       Versions, Fleet!Versions, VersionOf, Fleet!VersionOf,
       Cursors, Fleet!Cursors, CursorOf, Fleet!CursorOf,
       ProductOf, Fleet!ProductOf, Values, Fleet!Values,
       Several, Fleet!Several, MissingState, Fleet!MissingState,
       IdentityMismatch, Fleet!IdentityMismatch,
       LogicalKey, Fleet!LogicalKey, StateOf, Fleet!StateOf,
       AgreementGroups, Fleet!AgreementGroups, Agreeing, Fleet!Agreeing,
       ReferenceGroups, Fleet!ReferenceGroups, AheadOf, Fleet!AheadOf,
       BehindGroup, Fleet!BehindGroup,
       AheadWarehouses, Fleet!AheadWarehouses,
       SameVersionDivergence, Fleet!SameVersionDivergence,
       Precedes, Fleet!Precedes, Earliest, Fleet!Earliest,
       Latest, Fleet!Latest, After, Fleet!After, Total, Fleet!Total,
       MapThenSumSet, Fleet!MapThenSumSet,
       MapThenFoldSet, Fleet!MapThenFoldSet,
       Complete, Fleet!Complete, Extends, Fleet!Extends,
       Explains, Fleet!Explains, Investigated, Fleet!Investigated,
       NewerPairs, Fleet!NewerPairs, Extensible, Fleet!Extensible,
       Explained, Fleet!Explained, Extensions, Fleet!Extensions,
       Replays, Fleet!Replays, Supported, Fleet!Supported,
       Contradicted, Fleet!Contradicted, Insufficient, Fleet!Insufficient,
       EveryHistoryRead, Fleet!EveryHistoryRead,
       HistoriesAgree, Fleet!HistoriesAgree,
       CompetingBranches, Fleet!CompetingBranches,
       HistoriesContradict, Fleet!HistoriesContradict,
       Min, Fleet!Min, Cardinality, Fleet!Cardinality

LEMMA SameInvestigations ==
  ASSUME NEW s, NEW d, NEW e
  PROVE  Fleet(s)!InvestigationPlan(d, e) = InvestigationPlan(d, e)
BY DEF InvestigationPlan, Fleet!InvestigationPlan,
       Investigated, Fleet!Investigated

LEMMA SameReassessments ==
  ASSUME NEW s, NEW first, NEW e
  PROVE  Fleet(s)!Reassessed(first, e) = Reassessed(first, e)
BY SameDecisions, SameInvestigations
   DEF Reassessed, Fleet!Reassessed, Escalate, Fleet!Escalate,
       NoSource, Fleet!NoSource

(* How the run of a SKU ends or goes on to write *)
Ends(r, outcome) ==
  [r EXCEPT !.stage = "finished", !.outcome = outcome, !.waiting = {}]

Concludes(r, d) ==
  LET plan == ReconciliationPlan(d, r.obs)
  IN  IF d.outcome = "NO_ACTION" THEN Ends(r, "NO_ACTION")
      ELSE IF d.outcome # "RECONCILE" THEN Ends(r, "ESCALATED")
      ELSE IF plan.targets = {} \/ ~SafePlan(plan, d, r.obs)
        THEN Ends(r, "ESCALATED")
      ELSE [r EXCEPT !.stage = "executing", !.plan = plan,
                     !.todo = plan.targets]

Verifies(r) ==
  [r EXCEPT !.stage = "verifying", !.waiting = r.plan.participants,
            !.todo = {}]

(* What it decides from, and how it goes on to read *)
ReadBy(r) == [obs |-> r.obs, histories |-> r.histories]

Investigates(r, asked) ==
  [r EXCEPT !.stage = "investigating", !.waiting = asked, !.queried = asked]

(* A PUT fails, and one succeeds with more to be sent. *)
Fails(r) == [r EXCEPT !.ok = FALSE]

Sends(r, w) == [r EXCEPT !.todo = @ \ {w}]

LEMMA SameConclusions ==
  ASSUME NEW s, NEW r, NEW d
  PROVE  Fleet(s)!Concluded(r, d) = Concludes(r, d)
BY DEF Concludes, Ends, Fleet!Concluded, Fleet!Finished,
       ReconciliationPlan, Fleet!ReconciliationPlan,
       SafePlan, Fleet!SafePlan, IsRepair, Fleet!IsRepair,
       Versions, Fleet!Versions, VersionOf, Fleet!VersionOf,
       Values, Fleet!Values, Max, Fleet!Max, Inventory, Fleet!Inventory

LEMMA SameVerdicts ==
  ASSUME NEW s, NEW r
  PROVE  Fleet(s)!Verified(r) = Verified(r)
BY DEF Verified, Fleet!Verified, IdentityMismatch, Fleet!IdentityMismatch,
       Inventories, Fleet!Inventories, InventoryOf, Fleet!InventoryOf,
       Versions, Fleet!Versions, VersionOf, Fleet!VersionOf,
       Cursors, Fleet!Cursors, CursorOf, Fleet!CursorOf,
       ProductOf, Fleet!ProductOf, Values, Fleet!Values,
       Several, Fleet!Several

LEMMA SameHelpers ==
  ASSUME NEW s
  PROVE  /\ \A f, w, x : Fleet(s)!With(f, w, x) = With(f, w, x)
         /\ \A h, n : Fleet(s)!RecentEvents(h, n) = RecentEvents(h, n)
         /\ \A S : Fleet(s)!Min(S) = Min(S)
         /\ Fleet(s)!NewRun = Blank
BY DEF With, Fleet!With, RecentEvents, Fleet!RecentEvents, Min, Fleet!Min,
       Fleet!NewRun, Blank, NoPlan, Fleet!NoPlan, NoSource, Fleet!NoSource

-----------------------------------------------------------------------------
(* The steps of a fleet, by what becomes of the run, the records and the   *)
(* counters of its SKU                                                     *)

Goes(s) == Fleet(s)!Next \/ UNCHANGED Fleet(s)!vars

Stands(s) ==
  /\ StoreOf(s)' = StoreOf(s) /\ clock'[s] = clock[s] /\ LateOf(s)' = LateOf(s)

LossesOf(s) == Cardinality(LostOf(run, s))

LEMMA StandsStill ==
  ASSUME NEW s, Stands(s), SkuRun(run, s)' = SkuRun(run, s),
         LossesOf(s)' = LossesOf(s), RunsOf(run)' = RunsOf(run)
  PROVE  Goes(s)
BY DEF Goes, Stands, LossesOf, Fleet!vars

LEMMA Starts ==
  ASSUME NEW s, Stands(s), NEW r, r = SkuRun(run, s), r.stage = "idle",
         SkuRun(run, s)' =
           [Blank EXCEPT !.stage = "observing", !.waiting = Warehouse,
                         !.outcome = r.outcome],
         LossesOf(s)' = LossesOf(s), RunsOf(run) = 0, RunsOf(run)' = 1
  PROVE  Goes(s)
<1>1. /\ [a \in {1} |-> 0][1] < 1
      /\ [a \in {1} |-> 1] = [[a \in {1} |-> 0] EXCEPT ![1] = @ + 1]
  OBVIOUS
<1>2. /\ [a \in {1} |-> RunsOf(run)][1] < 1
      /\ [a \in {1} |-> RunsOf(run)]' =
           [[a \in {1} |-> RunsOf(run)] EXCEPT ![1] = @ + 1]
  BY <1>1
<1>3. Fleet(s)!NewRun = Blank
  BY SameHelpers
<1>4. [a \in {1} |-> SkuRun(run, s)]' =
        [[a \in {1} |-> SkuRun(run, s)] EXCEPT ![1] =
           [Fleet(s)!NewRun EXCEPT !.stage = "observing", !.waiting = Warehouse,
              !.outcome = [a \in {1} |-> SkuRun(run, s)][1].outcome]]
  BY <1>3
<1>5. Fleet(s)!Start(1)
  BY <1>2, <1>4 DEF Fleet!Start, Fleet!world, Stands, LossesOf
<1> QED BY <1>5 DEF Goes, Fleet!Next

LEMMA ReadsCatalogue ==
  ASSUME NEW s, Stands(s), LossesOf(s)' = LossesOf(s),
         RunsOf(run)' = RunsOf(run), NEW r, r = SkuRun(run, s),
         r.stage = "observing", NEW w \in Warehouse, w \in r.waiting,
         SkuRun(run, s)' =
           [r EXCEPT !.waiting = @ \ {w},
                     !.obs = IF StoreOf(s)[w] = Missing THEN @
                             ELSE With(@, w, StoreOf(s)[w].rec),
                     !.known = With(@, w, [v \in Warehouse |-> {}][w])]
  PROVE  Goes(s)
<1>1. Fleet(s)!AnswerCatalogue(1, w)
  BY DEF Fleet!AnswerCatalogue, Fleet!world, Stands, LossesOf, With, Fleet!With
<1> QED BY <1>1 DEF Goes, Fleet!Next, Fleet!AgentStep

LEMMA ReadsHistory ==
  ASSUME NEW s, Stands(s), LossesOf(s)' = LossesOf(s),
         RunsOf(run)' = RunsOf(run), NEW r, r = SkuRun(run, s),
         r.stage = "investigating", NEW w \in Warehouse, w \in r.waiting,
         StoreOf(s)[w] # Missing,
         SkuRun(run, s)' =
           [r EXCEPT !.waiting = @ \ {w},
                     !.histories = With(@, w, RecentEvents(StoreOf(s)[w].hist,
                                                           HistoryLimit))]
  PROVE  Goes(s)
<1>1. Fleet(s)!AnswerEvents(1, w)
  BY DEF Fleet!AnswerEvents, Fleet!world, Stands, LossesOf, With, Fleet!With,
         RecentEvents, Fleet!RecentEvents
<1> QED BY <1>1 DEF Goes, Fleet!Next, Fleet!AgentStep

LEMMA ReadsAgain ==
  ASSUME NEW s, Stands(s), LossesOf(s)' = LossesOf(s),
         RunsOf(run)' = RunsOf(run), NEW r, r = SkuRun(run, s),
         r.stage = "verifying", NEW w \in Warehouse, w \in r.waiting,
         StoreOf(s)[w] # Missing,
         SkuRun(run, s)' =
           [r EXCEPT !.waiting = @ \ {w},
                     !.checked = With(@, w, StoreOf(s)[w].rec)]
  PROVE  Goes(s)
<1>1. Fleet(s)!AnswerVerification(1, w)
  BY DEF Fleet!AnswerVerification, Fleet!world, Stands, LossesOf,
         With, Fleet!With
<1> QED BY <1>1 DEF Goes, Fleet!Next, Fleet!AgentStep

LEMMA LosesRead ==
  ASSUME NEW s, Stands(s), LossesOf(s) < MaxLosses,
         LossesOf(s)' = LossesOf(s) + 1,
         RunsOf(run)' = RunsOf(run), NEW r, r = SkuRun(run, s),
         r.stage \in {"observing", "investigating", "verifying"},
         NEW w \in Warehouse, w \in r.waiting,
         SkuRun(run, s)' =
           [r EXCEPT !.waiting = @ \ {w},
                     !.ok = @ /\ r.stage # "observing"]
  PROVE  Goes(s)
<1>1. Fleet(s)!LoseRead(1, w)
  BY DEF Fleet!LoseRead, Fleet!world, Stands, LossesOf
<1> QED BY <1>1 DEF Goes, Fleet!Next

LEMMA Analyses ==
  ASSUME NEW s, Stands(s), LossesOf(s)' = LossesOf(s),
         RunsOf(run)' = RunsOf(run), NEW r, r = SkuRun(run, s),
         r.stage = "observing", r.waiting = {},
         NEW e, e = ReadBy(r),
         SkuRun(run, s)' =
           IF ~r.ok THEN Ends(r, "FAILED")
           ELSE IF ~Conflict(r.obs) THEN Ends(r, "CONSISTENT")
           ELSE IF Decide(e).outcome = "INVESTIGATE"
             THEN Investigates(r, InvestigationPlan(Decide(e), e))
           ELSE Concludes(r, Decide(e))
  PROVE  Goes(s)
<1>1. /\ Fleet(s)!Finished(r, "FAILED") = Ends(r, "FAILED")
      /\ Fleet(s)!Finished(r, "CONSISTENT") = Ends(r, "CONSISTENT")
      /\ Fleet(s)!Assessment(r) = e
  BY DEF Fleet!Finished, Ends, Fleet!Assessment, ReadBy
<1>2. Fleet(s)!Analyse(1)
  BY <1>1, SameConflicts, SameDecisions, SameInvestigations, SameConclusions
     DEF Fleet!Analyse, Fleet!world, Stands, LossesOf, Investigates
<1> QED BY <1>2 DEF Goes, Fleet!Next, Fleet!AgentStep

LEMMA Reassesses ==
  ASSUME NEW s, Stands(s), LossesOf(s)' = LossesOf(s),
         RunsOf(run)' = RunsOf(run), NEW r, r = SkuRun(run, s),
         r.stage = "investigating", r.waiting = {},
         NEW e, e = ReadBy(r),
         SkuRun(run, s)' = Concludes(r, Reassessed(r.queried, e))
  PROVE  Goes(s)
<1>1. Fleet(s)!Assessment(r) = e
  BY DEF Fleet!Assessment, ReadBy
<1>2. Fleet(s)!Reassess(1)
  BY <1>1, SameReassessments, SameConclusions
     DEF Fleet!Reassess, Fleet!world, Stands, LossesOf
<1> QED BY <1>2 DEF Goes, Fleet!Next, Fleet!AgentStep

LEMMA ResolvesOne ==
  ASSUME NEW s, Stands(s), LossesOf(s)' = LossesOf(s),
         RunsOf(run)' = RunsOf(run), NEW r, r = SkuRun(run, s),
         r.stage = "verifying", r.waiting = {},
         SkuRun(run, s)' = Ends(r, IF r.ok /\ Verified(r) THEN "RESOLVED"
                                   ELSE "ESCALATED")
  PROVE  Goes(s)
<1>1. \A o : Fleet(s)!Finished(r, o) = Ends(r, o)
  BY DEF Fleet!Finished, Ends
<1>2. Fleet(s)!Resolve(1)
  BY <1>1, SameVerdicts DEF Fleet!Resolve, Fleet!world, Stands, LossesOf
<1> QED BY <1>2 DEF Goes, Fleet!Next, Fleet!AgentStep

(* A PUT, or one that comes late, reaches its warehouse. *)
Handles(s, m, outcome) ==
  /\ outcome = UpdateOutcome(StoreOf(s)[m.to].rec, m.request, m.to \notin ReadOnly)
  /\ IF outcome = "updated"
     THEN /\ StoreOf(s)' = [StoreOf(s) EXCEPT ![m.to] =
                               AfterUpdate(@, m.request, clock[s])]
          /\ clock'[s] = clock[s] + 1
     ELSE StoreOf(s)' = StoreOf(s) /\ clock'[s] = clock[s]

LEMMA HandlesAsFleet ==
  ASSUME NEW s, NEW m, m.carries = {}, NEW outcome, Handles(s, m, outcome)
  PROVE  Fleet(s)!Handle(m, outcome)
<1>1. [[w \in Warehouse |-> {}] EXCEPT ![m.to] = {}] = [w \in Warehouse |-> {}]
  OBVIOUS
<1> QED BY <1>1 DEF Fleet!Handle, Handles, UpdateOutcome, Fleet!UpdateOutcome,
                    AfterUpdate, Fleet!AfterUpdate,
                    ReconcileEvent, Fleet!ReconcileEvent

(* The PUT of a fleet's run to w *)
PutOf(r, w) ==
  [to |-> w, read |-> r.obs[w], carries |-> r.known[r.plan.source],
   request |-> [expected |-> r.obs[w].version, target |-> r.plan.version,
                inventory |-> r.plan.inventory]]

LEMMA SamePuts ==
  ASSUME NEW s, NEW r, NEW w
  PROVE  Fleet(s)!Message(r, w) = PutOf(r, w)
BY DEF Fleet!Message, PutOf, Fleet!Request

LEMMA Executes ==
  ASSUME NEW s, LateOf(s)' = LateOf(s), LossesOf(s)' = LossesOf(s),
         RunsOf(run)' = RunsOf(run), NEW r, r = SkuRun(run, s),
         r.stage = "executing", NEW w, w = Min(r.todo),
         NEW outcome \in Outcomes, r.known[r.plan.source] = {},
         Handles(s, PutOf(r, w), outcome),
         SkuRun(run, s)' =
           IF outcome \notin {"unchanged", "updated"} THEN Verifies(Fails(r))
           ELSE IF r.todo = {w} THEN Verifies(r)
           ELSE Sends(r, w)
  PROVE  Goes(s)
<1>1. Fleet(s)!Handle(Fleet(s)!Message(r, w), outcome)
  BY HandlesAsFleet, SamePuts DEF PutOf
<1>2. Fleet(s)!Min(r.todo) = w
  BY SameHelpers
<1>3. /\ Fleet(s)!Verifying([r EXCEPT !.ok = FALSE]) = Verifies(Fails(r))
      /\ Fleet(s)!Verifying(r) = Verifies(r)
  BY DEF Fleet!Verifying, Verifies, Fails
<1>4. Fleet(s)!ExecuteUpdate(1)
  BY <1>1, <1>2, <1>3 DEF Fleet!ExecuteUpdate, Outcomes, LossesOf, Sends
<1> QED BY <1>4 DEF Goes, Fleet!Next, Fleet!AgentStep

LEMMA HandlesLate ==
  ASSUME NEW s, LossesOf(s)' = LossesOf(s), RunsOf(run)' = RunsOf(run),
         SkuRun(run, s)' = SkuRun(run, s), NEW m \in LateOf(s),
         LateOf(s)' = LateOf(s) \ {m}, NEW outcome \in Outcomes,
         Handles(s, m, outcome)
  PROVE  Goes(s)
<1>1. Fleet(s)!Handle(m, outcome)
  BY HandlesAsFleet DEF LateOf, Unanswered
<1>2. Fleet(s)!HandleLate(m)
  BY <1>1 DEF Fleet!HandleLate, Outcomes, LossesOf
<1> QED BY <1>2 DEF Goes, Fleet!Next

LEMMA LosesPut ==
  ASSUME NEW s, StoreOf(s)' = StoreOf(s), clock'[s] = clock[s],
         LossesOf(s) < MaxLosses, LossesOf(s)' = LossesOf(s) + 1,
         RunsOf(run)' = RunsOf(run), NEW r, r = SkuRun(run, s),
         r.stage = "executing",
         LateOf(s)' = LateOf(s) \cup {PutOf(r, Min(r.todo))},
         SkuRun(run, s)' = Verifies(Fails(r))
  PROVE  Goes(s)
<1>1. Fleet(s)!Message(r, Fleet(s)!Min(r.todo)) = PutOf(r, Min(r.todo))
  BY SameHelpers, SamePuts
<1>2. Fleet(s)!Verifying([r EXCEPT !.ok = FALSE]) = Verifies(Fails(r))
  BY DEF Fleet!Verifying, Verifies, Fails
<1>3. Fleet(s)!LoseUpdate(1)
  BY <1>1, <1>2 DEF Fleet!LoseUpdate, LossesOf
<1> QED BY <1>3 DEF Goes, Fleet!Next

-----------------------------------------------------------------------------
(* Records that describe the run of a fleet                                *)

FleetFields ==
  {"stage", "outcome", "waiting", "ok", "obs", "known", "histories", "queried",
   "plan", "todo", "checked"}

IsFleetRun(q) == DOMAIN q = FleetFields /\ q = [x \in FleetFields |-> q[x]]

LEMMA AtIsAFleetRun ==
  ASSUME NEW r, NEW s, NEW a, NEW b, NEW c, NEW d, NEW e, NEW f, NEW g, NEW q,
         q = At(r, s, a, b, c, d, e, f, g)
  PROVE  /\ IsFleetRun(q) /\ q.stage = a /\ q.outcome = b /\ q.waiting = c
         /\ q.ok = d /\ q.obs = r.obs[s] /\ q.known = Unreflected(r.observed)
         /\ q.histories = r.histories[s] /\ q.queried = AskedOf(r, s)
         /\ q.plan = e /\ q.todo = f /\ q.checked = g
<1> DEFINE known == Unreflected(r.observed)
           asked == AskedOf(r, s)
           obs == r.obs[s]
           histories == r.histories[s]
<1>1. q = [stage |-> a, outcome |-> b, waiting |-> c, ok |-> d,
           obs |-> obs, known |-> known, histories |-> histories,
           queried |-> asked, plan |-> e, todo |-> f, checked |-> g]
  BY DEF At
<1> HIDE DEF known, asked, obs, histories
<1>2. DOMAIN q = FleetFields
  BY <1>1 DEF FleetFields
<1>3. q = [x \in FleetFields |-> q[x]]
  BY <1>1 DEF FleetFields
<1>4. /\ q.stage = a /\ q.outcome = b /\ q.waiting = c
      /\ q.ok = d /\ q.obs = obs /\ q.known = known
      /\ q.histories = histories /\ q.queried = asked
      /\ q.plan = e /\ q.todo = f /\ q.checked = g
  BY <1>1
<1> QED BY <1>2, <1>3, <1>4 DEF IsFleetRun, known, asked, obs, histories

SameBut(q, r, F) == \A x \in FleetFields \ F : q[x] = r[x]

LEMMA FleetRunChanges ==
  ASSUME NEW r, IsFleetRun(r), NEW q, IsFleetRun(q)
  PROVE  /\ SameBut(q, r, {"waiting", "obs", "known"}) =>
              q = [r EXCEPT !.waiting = q.waiting, !.obs = q.obs, !.known = q.known]
         /\ SameBut(q, r, {"waiting", "histories"}) =>
              q = [r EXCEPT !.waiting = q.waiting, !.histories = q.histories]
         /\ SameBut(q, r, {"waiting", "checked"}) =>
              q = [r EXCEPT !.waiting = q.waiting, !.checked = q.checked]
         /\ SameBut(q, r, {"waiting", "ok"}) =>
              q = [r EXCEPT !.waiting = q.waiting, !.ok = q.ok]
         /\ SameBut(q, r, {"stage", "outcome", "waiting"}) =>
              q = [r EXCEPT !.stage = q.stage, !.outcome = q.outcome,
                            !.waiting = q.waiting]
         /\ SameBut(q, r, {"stage", "waiting", "queried"}) =>
              q = [r EXCEPT !.stage = q.stage, !.waiting = q.waiting,
                            !.queried = q.queried]
         /\ SameBut(q, r, {"stage", "plan", "todo"}) =>
              q = [r EXCEPT !.stage = q.stage, !.plan = q.plan, !.todo = q.todo]
         /\ SameBut(q, r, {"stage", "waiting", "todo"}) =>
              q = [r EXCEPT !.stage = q.stage, !.waiting = q.waiting,
                            !.todo = q.todo]
         /\ SameBut(q, r, {"ok", "stage", "waiting", "todo"}) =>
              q = [r EXCEPT !.ok = q.ok, !.stage = q.stage,
                            !.waiting = q.waiting, !.todo = q.todo]
         /\ SameBut(q, r, {"todo"}) => q = [r EXCEPT !.todo = q.todo]
         /\ SameBut(q, r, {"ok"}) => q = [r EXCEPT !.ok = q.ok]
<1> USE DEF IsFleetRun, FleetFields, SameBut
<1>1. SameBut(q, r, {"waiting", "obs", "known"}) =>
        q = [r EXCEPT !.waiting = q.waiting, !.obs = q.obs, !.known = q.known]
  OBVIOUS
<1>2. SameBut(q, r, {"waiting", "histories"}) =>
        q = [r EXCEPT !.waiting = q.waiting, !.histories = q.histories]
  OBVIOUS
<1>3. SameBut(q, r, {"waiting", "checked"}) =>
        q = [r EXCEPT !.waiting = q.waiting, !.checked = q.checked]
  OBVIOUS
<1>4. SameBut(q, r, {"waiting", "ok"}) =>
        q = [r EXCEPT !.waiting = q.waiting, !.ok = q.ok]
  OBVIOUS
<1>5. SameBut(q, r, {"stage", "outcome", "waiting"}) =>
        q = [r EXCEPT !.stage = q.stage, !.outcome = q.outcome,
                      !.waiting = q.waiting]
  OBVIOUS
<1>6. SameBut(q, r, {"stage", "waiting", "queried"}) =>
        q = [r EXCEPT !.stage = q.stage, !.waiting = q.waiting,
                      !.queried = q.queried]
  OBVIOUS
<1>7. SameBut(q, r, {"stage", "plan", "todo"}) =>
        q = [r EXCEPT !.stage = q.stage, !.plan = q.plan, !.todo = q.todo]
  OBVIOUS
<1>8. SameBut(q, r, {"stage", "waiting", "todo"}) =>
        q = [r EXCEPT !.stage = q.stage, !.waiting = q.waiting, !.todo = q.todo]
  OBVIOUS
<1>9. SameBut(q, r, {"todo"}) => q = [r EXCEPT !.todo = q.todo]
  OBVIOUS
<1>10. SameBut(q, r, {"ok"}) => q = [r EXCEPT !.ok = q.ok]
  OBVIOUS
<1>11. SameBut(q, r, {"ok", "stage", "waiting", "todo"}) =>
         q = [r EXCEPT !.ok = q.ok, !.stage = q.stage, !.waiting = q.waiting,
                       !.todo = q.todo]
  OBVIOUS
<1> QED BY <1>1, <1>2, <1>3, <1>4, <1>5, <1>6, <1>7, <1>8, <1>9, <1>10, <1>11

-----------------------------------------------------------------------------
(* Every call that got no answer is new, and it is found where it was made *)

LostCalls(r) == {c \in r.calls : c.answer = "lost"}

Placed(r, c) ==
  \/ /\ c.purpose = "catalogue" /\ c.sku = NoSku
     /\ r.status \in {"observing", "failed"}
     /\ c.to \in Warehouse \ r.observed /\ <<c.to, NoSku>> \notin r.waiting
  \/ /\ c.purpose = "events" /\ c.sku \in Sku
     /\ r.status \notin {"starting", "observing", "failed"}
     /\ r.status = "investigating" => <<c.to, c.sku>> \notin r.waiting
  \/ c.purpose = "write" /\ c.sku \in r.failed
  \/ /\ c.purpose = "verification"
     /\ \/ c.sku \in DOMAIN r.resolutions
        \/ /\ r.status = "verifying" /\ c.sku = r.current
           /\ <<c.to, c.sku>> \notin r.waiting

Traced(r) ==
  /\ \A c \in LostCalls(r) : Placed(r, c)
  /\ r.status = "investigating" => \A c \in r.waiting : c[2] \in Conflicts(r)

(* What is read of the shelves is all that they hold.                      *)
Catalogues ==
  /\ run.status \in {"starting", "observing"} =>
       \A s \in Sku : \E w \in Warehouse : shelf[w][s] # Missing
  /\ run.status = "observing" =>
       /\ \A c \in run.waiting : c[1] \notin run.observed
       /\ \A s \in Sku : \A w \in run.observed :
            shelf[w][s] # Missing => w \in DOMAIN run.obs[s]

LateWrite == [sku : Sku, to : Warehouse, request : UpdateRequest]

RefinementInvariant ==
  /\ RunInvariant /\ Quiet
  /\ Traced(run)
  /\ Cardinality(LostCalls(run)) <= losses
  /\ Catalogues
  /\ late \subseteq LateWrite

LEMMA TracedStays ==
  ASSUME NEW r, Traced(r), NEW q, LostCalls(q) = LostCalls(r),
         q.status = r.status, q.current = r.current,
         q.waiting \subseteq r.waiting, q.observed = r.observed, q.obs = r.obs,
         q.failed = r.failed, q.resolutions = r.resolutions
  PROVE  Traced(q)
<1>1. Conflicts(q) = Conflicts(r)
  BY DEF Conflicts
<1>2. \A c : Placed(r, c) => Placed(q, c)
  BY DEF Placed
<1> QED BY <1>1, <1>2 DEF Traced

LEMMA OneMoreCall ==
  ASSUME NEW r, NEW q, NEW call, q.calls = r.calls \cup {call}
  PROVE  /\ call.answer # "lost" => LostCalls(q) = LostCalls(r)
         /\ call.answer = "lost" => LostCalls(q) = LostCalls(r) \cup {call}
BY DEF LostCalls

LEMMA AnsweredIsNotLost ==
  ASSUME NEW r, DOMAIN r = RunFields, NEW p, NEW w, NEW s, NEW answer,
         answer # "lost", NEW q, q.calls = Called(r, p, w, s, answer).calls
  PROVE  LostCalls(q) = LostCalls(r)
<1> DEFINE call == [purpose |-> p, to |-> w, sku |-> s, answer |-> answer]
<1>1. call.answer = answer
  OBVIOUS
<1>2. q.calls = r.calls \cup {call}
  BY CallChanges
<1> HIDE DEF call
<1> QED BY <1>1, <1>2, OneMoreCall

LEMMA LostCallsAreFinite ==
  ASSUME RefinementInvariant
  PROVE  /\ IsFiniteSet(LostCalls(run))
         /\ Cardinality(LostCalls(run)) \in Nat
         /\ losses \in Nat
<1>1. IsFiniteSet(run.calls)
  BY DEF RefinementInvariant, Quiet, Orderly
<1>2. LostCalls(run) \subseteq run.calls
  BY DEF LostCalls
<1>3. losses \in Nat
  BY AgentRunAssumption DEF RefinementInvariant, RunInvariant, SoundWorld
<1> QED BY <1>1, <1>2, <1>3, FS_Subset, FS_CardinalityType

(* Before the analysis only catalogues are lost, and none of those that    *)
(* were read.                                                              *)
LEMMA LostBeforeAnalysis ==
  ASSUME NEW r, SoundRun(r), Traced(r),
         r.status \in {"starting", "observing", "failed"}, NEW c \in LostCalls(r)
  PROVE  /\ c.purpose = "catalogue" /\ c.sku = NoSku /\ r.status # "starting"
         /\ c.to \in Warehouse \ r.observed /\ <<c.to, NoSku>> \notin r.waiting
<1>1. r.failed = {} /\ DOMAIN r.resolutions = {}
  BY ObservingDecidesNothing DEF Undecided
<1> QED BY <1>1 DEF Traced, Placed
-----------------------------------------------------------------------------
(* The invariant of the refinement is inductive.                           *)

LEMMA LateWritesStay ==
  ASSUME RefinementInvariant, UNCHANGED late
  PROVE  (late \subseteq LateWrite)'
BY DEF RefinementInvariant

LEMMA StoredSkusStay ==
  ASSUME Catalogues, UNCHANGED shelf,
         run'.status \in {"starting", "observing"} =>
           run.status \in {"starting", "observing"},
         run'.status = "observing" =>
           /\ \A c \in run'.waiting : c[1] \notin run'.observed
           /\ \A s \in Sku : \A w \in run'.observed :
                shelf[w][s] # Missing => w \in DOMAIN run'.obs[s]
  PROVE  Catalogues'
BY DEF Catalogues

LEMMA BeginRefines ==
  ASSUME RefinementInvariant, Begin
  PROVE  RefinementInvariant'
<1>1. RunInvariant' /\ Quiet'
  BY BeginIsSound, BeginIsQuiet DEF RefinementInvariant
<1>2. /\ run'.calls = {} /\ run'.observed = {} /\ run'.status = "observing"
  BY DEF Begin, Observing, NewRun
<1>3. LostCalls(run') = {}
  BY <1>2 DEF LostCalls
<1>4. Traced(run')
  BY <1>2, <1>3 DEF Traced
<1>5. LostCalls(run)' = {} /\ Cardinality(LostCalls(run))' = 0
  BY <1>3, FS_EmptySet
<1>6. Cardinality(LostCalls(run))' <= losses'
  BY <1>5, LostCallsAreFinite DEF Begin
<1>7. Catalogues'
  BY <1>2, StoredSkusStay DEF Begin, world, RefinementInvariant
<1> QED BY <1>1, <1>4, <1>6, <1>7, LateWritesStay
        DEF RefinementInvariant, Begin, world

LEMMA CatalogueRefines ==
  ASSUME RefinementInvariant, NEW w \in Warehouse, AnswerCatalogue(w)
  PROVE  RefinementInvariant'
<1> DEFINE c == Called(run, "catalogue", w, NoSku, "ok")
           obs == [s \in Sku |-> IF shelf[w][s] = Missing THEN c.obs[s]
                                 ELSE With(c.obs[s], w, shelf[w][s].rec)]
<1>1. RunInvariant' /\ Quiet'
  BY CatalogueStep, AnswersAreQuiet DEF RefinementInvariant, Answered
<1>2. /\ run.status = "observing" /\ <<w, NoSku>> \in run.waiting
      /\ run' = [c EXCEPT !.observed = c.observed \cup {w}, !.obs = obs]
      /\ UNCHANGED <<shelf, clock, late, losses>>
  BY DEF AnswerCatalogue, world
<1>3. DOMAIN run = RunFields
  BY DEF RefinementInvariant, RunInvariant, SoundRun
<1>4. /\ DOMAIN c = RunFields /\ c.status = "observing" /\ c.obs = run.obs
      /\ c.observed = run.observed /\ c.waiting = run.waiting \ {<<w, NoSku>>}
      /\ c.failed = run.failed /\ c.resolutions = run.resolutions
      /\ c.current = run.current
  BY <1>2, <1>3, CallChanges
<1>5. LostCalls(c) = LostCalls(run)
  BY <1>3, AnsweredIsNotLost
<1> HIDE DEF c, obs
<1>6. /\ run'.status = "observing" /\ run'.obs = obs
      /\ run'.observed = run.observed \cup {w} /\ run'.calls = c.calls
      /\ run'.waiting = run.waiting \ {<<w, NoSku>>}
  BY <1>2, <1>4 DEF RunFields
<1>7. LostCalls(run') = LostCalls(run)
  BY <1>5, <1>6 DEF LostCalls
<1>8. ASSUME NEW k \in LostCalls(run) PROVE Placed(run', k)
  <2>1. /\ k.purpose = "catalogue" /\ k.sku = NoSku
        /\ k.to \in Warehouse \ run.observed /\ <<k.to, NoSku>> \notin run.waiting
    BY <1>2, <1>8, LostBeforeAnalysis DEF RefinementInvariant, RunInvariant
  <2>2. k.to # w
    BY <1>2, <2>1
  <2> QED BY <1>6, <2>1, <2>2 DEF Placed
<1>9. Traced(run')
  BY <1>6, <1>7, <1>8 DEF Traced
<1>10. Cardinality(LostCalls(run))' <= losses'
  BY <1>2, <1>7 DEF RefinementInvariant
<1>11. ASSUME NEW s \in Sku, NEW v \in run.observed \cup {w},
              shelf[v][s] # Missing
       PROVE  v \in DOMAIN obs[s]
  <2>1. v \in run.observed => v \in DOMAIN run.obs[s]
    BY <1>2, <1>11 DEF RefinementInvariant, Catalogues
  <2>2. obs[s] = IF shelf[w][s] = Missing THEN run.obs[s]
                 ELSE With(run.obs[s], w, shelf[w][s].rec)
    BY <1>4 DEF obs
  <2> DEFINE f == run.obs[s]
             x == shelf[w][s].rec
  <2>3. DOMAIN With(f, w, x) = DOMAIN f \cup {w}
    <3> HIDE DEF f, x
    <3> QED BY WithDomain
  <2>4. CASE shelf[w][s] = Missing
    BY <1>11, <2>1, <2>2, <2>4
  <2>5. CASE shelf[w][s] # Missing
    <3>1. obs[s] = With(f, w, x)
      BY <2>2, <2>5
    <3> HIDE DEF obs, x
    <3> QED BY <1>11, <2>1, <2>3, <3>1
  <2> QED BY <2>4, <2>5
<1>12. \A k \in run'.waiting : k[1] \notin run'.observed
  <2>1. \A k \in run.waiting : k = <<k[1], NoSku>> /\ k[1] \notin run.observed
    BY <1>2 DEF RefinementInvariant, RunInvariant, SoundRun, Awaited, Catalogues
  <2> QED BY <1>6, <2>1
<1>13. Catalogues'
  BY <1>2, <1>6, <1>11, <1>12, StoredSkusStay DEF RefinementInvariant
<1> QED BY <1>1, <1>2, <1>9, <1>10, <1>13, LateWritesStay
        DEF RefinementInvariant

(* An answer to a GET of one SKU *)
LEMMA AnswerRefines ==
  ASSUME RefinementInvariant, RunInvariant', Quiet',
         run.status \in {"investigating", "verifying"}, NEW p, NEW w, NEW s,
         NEW c, c = Called(run, p, w, s, "ok"),
         \/ \E x : run' = [c EXCEPT !.histories = x]
         \/ \E x : run' = [c EXCEPT !.checked = x],
         UNCHANGED <<shelf, clock, late, losses>>
  PROVE  RefinementInvariant'
<1>1. DOMAIN run = RunFields
  BY DEF RefinementInvariant, RunInvariant, SoundRun
<1>2. /\ DOMAIN c = RunFields /\ c.status = run.status /\ c.obs = run.obs
      /\ c.observed = run.observed /\ c.waiting = run.waiting \ {<<w, s>>}
      /\ c.failed = run.failed /\ c.resolutions = run.resolutions
      /\ c.current = run.current
  BY <1>1, CallChanges
<1>3. LostCalls(c) = LostCalls(run)
  BY <1>1, AnsweredIsNotLost
<1>4. /\ run'.status = run.status /\ run'.obs = run.obs
      /\ run'.observed = run.observed /\ run'.calls = c.calls
      /\ run'.waiting \subseteq run.waiting /\ run'.failed = run.failed
      /\ run'.resolutions = run.resolutions /\ run'.current = run.current
  BY <1>2 DEF RunFields
<1>5. LostCalls(run') = LostCalls(run)
  BY <1>3, <1>4 DEF LostCalls
<1>6. Traced(run')
  BY <1>4, <1>5, TracedStays DEF RefinementInvariant
<1>7. Catalogues'
  BY <1>4, StoredSkusStay DEF RefinementInvariant
<1> QED BY <1>5, <1>6, <1>7, LateWritesStay DEF RefinementInvariant

LEMMA AnswersRefine ==
  ASSUME RefinementInvariant, NEW w \in Warehouse, NEW s \in Sku,
         AnswerEvents(w, s) \/ AnswerVerification(w, s)
  PROVE  RefinementInvariant'
<1>1. Quiet'
  BY AnswersAreQuiet DEF RefinementInvariant, Answered
<1>2. RunInvariant'
  BY EventsStep, VerificationStep DEF RefinementInvariant
<1>3. CASE AnswerEvents(w, s)
  <2> DEFINE c == Called(run, "events", w, s, "ok")
             x == [c.histories EXCEPT ![s] =
                     With(@, w, RecentEvents(shelf[w][s].hist, HistoryLimit))]
  <2>1. run' = [c EXCEPT !.histories = x]
    BY <1>3 DEF AnswerEvents
  <2> HIDE DEF c, x
  <2>2. \E y : run' = [c EXCEPT !.histories = y]
    BY <2>1
  <2> QED BY <1>1, <1>2, <1>3, <2>2, AnswerRefines DEF AnswerEvents, world, c
<1>4. CASE AnswerVerification(w, s)
  <2> DEFINE c == Called(run, "verification", w, s, "ok")
             x == [c.checked EXCEPT ![s] = With(@, w, shelf[w][s].rec)]
  <2>1. run' = [c EXCEPT !.checked = x]
    BY <1>4 DEF AnswerVerification
  <2> HIDE DEF c, x
  <2>2. \E y : run' = [c EXCEPT !.checked = y]
    BY <2>1
  <2> QED BY <1>1, <1>2, <1>4, <2>2, AnswerRefines
          DEF AnswerVerification, world, c
<1> QED BY <1>3, <1>4

(* A GET that is lost was not lost before, nor was a PUT.                  *)
LEMMA LostReadIsNew ==
  ASSUME RefinementInvariant, NEW w \in Warehouse, NEW s,
         <<w, s>> \in run.waiting, NEW call,
         call.purpose = Purpose(run.status), call.to = w, call.sku = s
  PROVE  /\ run.status \in {"observing", "investigating", "verifying"}
         /\ run.status = "observing" => s = NoSku /\ w \notin run.observed
         /\ run.status = "investigating" => s \in Conflicts(run)
         /\ run.status = "verifying" => s = run.current
         /\ call \notin LostCalls(run)
<1>1. SoundRun(run) /\ Traced(run)
  BY DEF RefinementInvariant, RunInvariant
<1>2. <<w, s>> \in Awaited(run)
  BY <1>1 DEF SoundRun
<1>3. run.status \in {"observing", "investigating", "verifying"}
  BY <1>2 DEF Awaited
<1>4. CASE run.status = "observing"
  <2>1. s = NoSku /\ call.purpose = "catalogue"
    BY <1>2, <1>4 DEF Awaited, Purpose
  <2>2. w \notin run.observed
    BY <1>4 DEF RefinementInvariant, Catalogues
  <2> QED BY <1>1, <1>4, <2>1, <2>2, LostBeforeAnalysis
<1>5. CASE run.status = "investigating"
  <2>1. s \in Conflicts(run)
    BY <1>1, <1>5 DEF Traced
  <2>2. call.purpose = "events"
    BY <1>5 DEF Purpose
  <2> QED BY <1>1, <1>3, <1>5, <2>1, <2>2 DEF Traced, Placed
<1>6. CASE run.status = "verifying"
  <2>1. s = run.current
    BY <1>2, <1>6 DEF Awaited
  <2>2. call.purpose = "verification"
    BY <1>6 DEF Purpose
  <2>3. s \notin DOMAIN run.resolutions
    BY <1>1, <1>6, <2>1 DEF SoundRun, WhoseTurn, InHand
  <2> QED BY <1>1, <1>3, <1>6, <2>1, <2>2, <2>3 DEF Traced, Placed
<1> QED BY <1>3, <1>4, <1>5, <1>6

LEMMA LostWriteIsNew ==
  ASSUME RefinementInvariant, run.status = "executing", NEW call,
         call.purpose = "write", call.sku = run.current
  PROVE  call \notin LostCalls(run)
<1>1. SoundRun(run) /\ Traced(run)
  BY DEF RefinementInvariant, RunInvariant
<1>2. run.current \notin run.failed
  BY <1>1 DEF SoundRun, WhoseTurn
<1> QED BY <1>1, <1>2 DEF Traced, Placed

LEMMA OneMoreLost ==
  ASSUME RefinementInvariant, NEW call, call \notin LostCalls(run),
         LostCalls(run') = LostCalls(run) \cup {call}, losses' = losses + 1
  PROVE  Cardinality(LostCalls(run))' <= losses'
<1>1. Cardinality(LostCalls(run) \cup {call}) = Cardinality(LostCalls(run)) + 1
  BY LostCallsAreFinite, FS_AddElement
<1>2. Cardinality(LostCalls(run)) <= losses
  BY DEF RefinementInvariant
<1> QED BY <1>1, <1>2, LostCallsAreFinite

LEMMA LostReadRefines ==
  ASSUME RefinementInvariant, NEW w \in Warehouse, NEW s \in Sku \cup {NoSku},
         LoseRead(w, s)
  PROVE  RefinementInvariant'
<1> DEFINE p == Purpose(run.status)
           call == [purpose |-> p, to |-> w, sku |-> s, answer |-> "lost"]
<1>1. RunInvariant' /\ Quiet'
  BY LostReadStep, FaultsAreQuiet DEF RefinementInvariant, Fault
<1>2. /\ <<w, s>> \in run.waiting /\ run' = Called(run, p, w, s, "lost")
      /\ losses' = losses + 1 /\ UNCHANGED <<shelf, clock, late>>
  BY DEF LoseRead, world
<1>3. SoundRun(run) /\ Traced(run) /\ DOMAIN run = RunFields
  BY DEF RefinementInvariant, RunInvariant, SoundRun
<1>4. /\ call.purpose = p /\ call.to = w /\ call.sku = s
      /\ call.answer = "lost"
  OBVIOUS
<1> HIDE DEF p
<1>5. /\ run'.status = run.status /\ run'.obs = run.obs
      /\ run'.observed = run.observed
      /\ run'.waiting = run.waiting \ {<<w, s>>}
      /\ run'.failed = run.failed /\ run'.resolutions = run.resolutions
      /\ run'.current = run.current
      /\ run'.calls = run.calls \cup {call}
  BY <1>2, <1>3, CallChanges
<1> HIDE DEF call
<1>6. LostCalls(run') = LostCalls(run) \cup {call}
  BY <1>4, <1>5, OneMoreCall
<1>7. /\ run.status \in {"observing", "investigating", "verifying"}
      /\ run.status = "observing" => s = NoSku /\ w \notin run.observed
      /\ run.status = "investigating" => s \in Conflicts(run)
      /\ run.status = "verifying" => s = run.current
      /\ call \notin LostCalls(run)
  BY <1>2, <1>4, LostReadIsNew DEF p
<1>8. Placed(run', call)
  <2>1. CASE run.status = "observing"
    BY <1>4, <1>5, <1>7, <2>1 DEF Placed, p, Purpose
  <2>2. CASE run.status = "investigating"
    <3>1. call.purpose = "events" /\ call.sku \in Sku
      BY <1>4, <1>7, <2>2 DEF p, Purpose, Conflicts
    <3> QED BY <1>4, <1>5, <2>2, <3>1 DEF Placed
  <2>3. CASE run.status = "verifying"
    BY <1>4, <1>5, <1>7, <2>3 DEF Placed, p, Purpose
  <2> QED BY <1>7, <2>1, <2>2, <2>3
<1>9. \A c : Placed(run, c) => Placed(run', c)
  BY <1>5 DEF Placed
<1>10. Conflicts(run') = Conflicts(run)
  BY <1>5 DEF Conflicts
<1>11. Traced(run')
  BY <1>3, <1>5, <1>6, <1>8, <1>9, <1>10 DEF Traced
<1>12. Catalogues'
  BY <1>2, <1>5, StoredSkusStay DEF RefinementInvariant, Catalogues
<1>13. Cardinality(LostCalls(run))' <= losses'
  BY <1>2, <1>6, <1>7, OneMoreLost
<1> QED BY <1>1, <1>2, <1>11, <1>12, <1>13, LateWritesStay
        DEF RefinementInvariant

-----------------------------------------------------------------------------
(* What a run is after its decisions                                       *)

ReadTheSame(q, r) ==
  /\ q.version = r.version /\ q.observed = r.observed /\ q.obs = r.obs
  /\ q.histories = r.histories /\ q.calls = r.calls

LEMMA DecidedChanges ==
  ASSUME NEW n, JustDecided(n), NEW q, q = Decided(n)
  PROVE  /\ SoundRun(q) /\ ReadTheSame(q, n) /\ q.asked = n.asked
         /\ q.decisions = n.decisions /\ q.failed = {}
         /\ q.status \in {"executing", "completed"}
         /\ n.version = 2 => DOMAIN q.plans = {}
         /\ n.version = 3 => FieldsAfterLoop(q, n)
<1>1. DOMAIN n = RunFields /\ n.failed = {} /\ DOMAIN n.plans = {}
  BY DEF JustDecided
<1>2. SoundRun(q) /\ q.status \in {"executing", "completed"}
  BY <1>1, DecidedIsSound, DecidedGoesOn
<1>3. CASE n.version = 2
  <2>1. q = [n EXCEPT !.status = "completed"]
    BY <1>3 DEF Decided
  <2> QED BY <1>1, <1>2, <1>3, <2>1 DEF ReadTheSame, RunFields
<1>4. CASE n.version # 2
  <2>1. FieldsAfterLoop(q, n)
    BY <1>1, <1>4, ProceedChanges DEF Decided
  <2> HIDE DEF Decided
  <2> QED BY <1>1, <1>2, <1>4, <2>1 DEF ReadTheSame, FieldsAfterLoop
<1> QED BY <1>3, <1>4

LEMMA AnalysisCases ==
  ASSUME NEW r, SoundRun(r), r.status = "observing", r.waiting = {},
         NEW q, q = Analysis(r, Decisions(r))
  PROVE  LET asked == AskedBy(r, Decisions(r)) IN
         /\ ReadTheSame(q, r) /\ q.failed = {}
         /\ r.observed # Warehouse => q.status = "failed" /\ q.asked = {}
         /\ r.observed = Warehouse /\ r.version = 1 =>
              q.status = "completed" /\ q.asked = {}
         /\ r.observed = Warehouse /\ r.version # 1 /\ asked # {} =>
              /\ q.status = "investigating" /\ q.waiting = asked
              /\ q.asked = asked /\ q.decisions = Decisions(r)
              /\ DOMAIN q.plans = {}
         /\ r.observed = Warehouse /\ r.version # 1 /\ asked = {} =>
              \E n : /\ JustDecided(n) /\ q = Decided(n) /\ ReadTheSame(n, r)
                     /\ n.asked = {} /\ n.decisions = Decisions(r)
<1> DEFINE decisions == Decisions(r)
           asked == AskedBy(r, decisions)
           next == [r EXCEPT !.decisions = decisions, !.asked = asked]
<1>1. q = IF r.observed # Warehouse THEN [r EXCEPT !.status = "failed"]
          ELSE IF r.version = 1 THEN [r EXCEPT !.status = "completed"]
          ELSE IF asked = {} THEN Decided(next)
          ELSE [next EXCEPT !.status = "investigating", !.waiting = asked]
  BY DEF Analysis, AskedBy
<1>2. /\ DOMAIN r.decisions = {} /\ DOMAIN r.plans = {}
      /\ DOMAIN r.checked = {} /\ DOMAIN r.resolutions = {}
      /\ r.failed = {} /\ r.verified = {} /\ r.asked = {}
      /\ \A s \in Sku : DOMAIN r.histories[s] = {}
  BY ObservingDecidesNothing DEF Undecided
<1>3. DOMAIN r = RunFields /\ WhatWasRead(r)
  BY DEF SoundRun
<1>4. r.current = NoSku /\ r.todo = {}
  BY <1>2 DEF SoundRun, WhoseTurn
<1>5. /\ asked \in SUBSET (Warehouse \X Sku)
      /\ \A s \in Sku : {w \in Warehouse : <<w, s>> \in asked}
                          \subseteq DOMAIN r.obs[s]
      /\ \A s \in Conflicts(r) :
           decisions[s].outcome = "INVESTIGATE"
             <=> {w \in Warehouse : <<w, s>> \in asked} # {}
  BY <1>2, <1>3, AskedByAnalysis
<1>6. DOMAIN decisions = Conflicts(r)
  BY DEF Decisions
<1>7. \A s \in Conflicts(r) : SoundDecision(decisions[s], r.obs[s])
  BY <1>2, <1>3, FirstDecisions
<1> HIDE DEF decisions, asked
<1>8. /\ DOMAIN next = RunFields /\ next.version = r.version
      /\ next.observed = r.observed /\ next.obs = r.obs
      /\ next.asked = asked /\ next.histories = r.histories
      /\ next.decisions = decisions /\ next.plans = r.plans
      /\ next.checked = r.checked /\ next.todo = r.todo
      /\ next.waiting = r.waiting /\ next.failed = r.failed
      /\ next.verified = r.verified /\ next.resolutions = r.resolutions
      /\ next.current = r.current /\ next.calls = r.calls
  BY <1>3 DEF RunFields
<1> HIDE DEF next
<1>9. ReadTheSame(next, r)
  BY <1>8 DEF ReadTheSame
<1>10. ASSUME asked = {}, r.version # 1 PROVE JustDecided(next)
  <2>1. \A s \in Conflicts(r) : decisions[s].outcome # "INVESTIGATE"
    BY <1>5, <1>10
  <2>2. r.version \in {2, 3} /\ Conflicts(next) = Conflicts(r)
    BY <1>3, <1>8, <1>10 DEF WhatWasRead, Conflicts
  <2>3. \A s : AskedOf(next, s) = {w \in Warehouse : <<w, s>> \in asked}
    BY <1>8 DEF AskedOf
  <2>4. WhatWasRead(next)
    BY <1>2, <1>3, <1>5, <1>8, <2>3 DEF WhatWasRead
  <2> QED BY <1>2, <1>4, <1>6, <1>7, <1>8, <2>1, <2>2, <2>4 DEF JustDecided
<1>11. CASE r.observed # Warehouse \/ r.version = 1
  <2>1. PICK st \in {"failed", "completed"} :
          /\ q = [r EXCEPT !.status = st]
          /\ r.observed # Warehouse => st = "failed"
          /\ r.observed = Warehouse => st = "completed"
    BY <1>1, <1>11
  <2> QED BY <1>2, <1>3, <1>11, <2>1 DEF ReadTheSame, RunFields
<1>12. ASSUME r.observed = Warehouse, r.version # 1, asked = {}
       PROVE  /\ ReadTheSame(q, r) /\ q.failed = {}
              /\ \E n : /\ JustDecided(n) /\ q = Decided(n) /\ ReadTheSame(n, r)
                        /\ n.asked = {} /\ n.decisions = decisions
  <2>1. JustDecided(next) /\ q = Decided(next)
    BY <1>1, <1>10, <1>12
  <2>2. ReadTheSame(q, next) /\ q.failed = {}
    BY <2>1, DecidedChanges
  <2>3. ReadTheSame(q, r)
    BY <1>9, <2>2 DEF ReadTheSame
  <2> QED BY <1>8, <1>9, <1>12, <2>1, <2>2, <2>3
<1>13. ASSUME r.observed = Warehouse, r.version # 1, asked # {}
       PROVE  /\ ReadTheSame(q, r) /\ q.failed = {}
              /\ q.status = "investigating" /\ q.waiting = asked
              /\ q.asked = asked /\ q.decisions = decisions
              /\ DOMAIN q.plans = {}
  <2>1. q = [next EXCEPT !.status = "investigating", !.waiting = asked]
    BY <1>1, <1>13
  <2> QED BY <1>2, <1>8, <1>13, <2>1 DEF ReadTheSame, RunFields
<1> QED BY <1>11, <1>12, <1>13 DEF asked, decisions

LEMMA ReassessmentCases ==
  ASSUME NEW r, SoundRun(r), r.status = "investigating", r.waiting = {},
         NEW n, n = [r EXCEPT !.decisions = Reassessments(r)]
  PROVE  /\ JustDecided(n) /\ ReadTheSame(n, r) /\ n.asked = r.asked
         /\ n.decisions = Reassessments(r)
<1>1. JustDecided(n)
  BY ReassessmentDecides
<1>2. DOMAIN r = RunFields
  BY DEF SoundRun
<1> DEFINE decisions == Reassessments(r)
<1>3. n = [r EXCEPT !.decisions = decisions]
  OBVIOUS
<1> HIDE DEF decisions
<1>4. ReadTheSame(n, r) /\ n.asked = r.asked /\ n.decisions = decisions
  BY <1>2, <1>3 DEF RunFields, ReadTheSame
<1> QED BY <1>1, <1>4 DEF decisions

LEMMA NothingLostAtAnalysis ==
  ASSUME NEW r, SoundRun(r), Traced(r), r.status = "observing",
         r.observed = Warehouse
  PROVE  LostCalls(r) = {}
BY LostBeforeAnalysis

LEMMA CataloguesAreAnalysed ==
  ASSUME run'.status \notin {"starting", "observing"}
  PROVE  Catalogues'
BY DEF Catalogues

LEMMA AnalysisRefines ==
  ASSUME RefinementInvariant, Analyse
  PROVE  RefinementInvariant'
<1>1. RunInvariant' /\ Quiet'
  BY AnalysisStep, LoopStepsAreQuiet DEF RefinementInvariant
<1>2. /\ run.status = "observing" /\ run.waiting = {}
      /\ run' = Analysis(run, Decisions(run))
      /\ UNCHANGED <<shelf, clock, late, losses>>
  BY DEF Analyse, world
<1> DEFINE asked == AskedBy(run, Decisions(run))
<1>3. SoundRun(run) /\ Traced(run)
  BY DEF RefinementInvariant, RunInvariant
<1>4. /\ ReadTheSame(run', run) /\ run'.failed = {}
      /\ run.observed # Warehouse => run'.status = "failed"
      /\ run.observed = Warehouse /\ run.version = 1 => run'.status = "completed"
      /\ run.observed = Warehouse /\ run.version # 1 /\ asked # {} =>
           /\ run'.status = "investigating" /\ run'.waiting = asked
      /\ run.observed = Warehouse /\ run.version # 1 /\ asked = {} =>
           run'.status \in {"executing", "completed"}
  BY <1>2, <1>3, AnalysisCases, DecidedChanges
<1>5. LostCalls(run') = LostCalls(run)
  BY <1>4 DEF LostCalls, ReadTheSame
<1>6. Conflicts(run') = Conflicts(run)
  BY <1>4 DEF Conflicts, ReadTheSame
<1>7. \A c \in asked : c[2] \in Conflicts(run)
  BY DEF AskedBy
<1> HIDE DEF asked
<1>8. Traced(run')
  <2>1. CASE run.observed # Warehouse
    <3>1. \A c \in LostCalls(run) : Placed(run', c)
      <4>1. run'.observed = run.observed /\ run'.status = "failed"
        BY <1>4, <2>1 DEF ReadTheSame
      <4>2. run'.waiting = {}
        BY <1>1, <4>1 DEF RunInvariant, SoundRun, Awaited
      <4> QED BY <1>2, <1>3, <4>1, <4>2, LostBeforeAnalysis DEF Traced, Placed
    <3> QED BY <1>4, <1>5, <2>1, <3>1 DEF Traced
  <2>2. CASE run.observed = Warehouse
    <3>1. LostCalls(run') = {}
      BY <1>2, <1>3, <1>5, <2>2, NothingLostAtAnalysis
    <3> QED BY <1>4, <1>6, <1>7, <2>2, <3>1 DEF Traced
  <2> QED BY <2>1, <2>2
<1>9. run'.status \notin {"starting", "observing"}
  BY <1>4
<1>10. Cardinality(LostCalls(run))' <= losses'
  BY <1>2, <1>5 DEF RefinementInvariant
<1> QED BY <1>1, <1>2, <1>8, <1>9, <1>10, CataloguesAreAnalysed, LateWritesStay
        DEF RefinementInvariant

LEMMA ReassessmentRefines ==
  ASSUME RefinementInvariant, Reassess
  PROVE  RefinementInvariant'
<1>1. RunInvariant' /\ Quiet'
  BY ReassessmentStep, LoopStepsAreQuiet DEF RefinementInvariant
<1> DEFINE n == [run EXCEPT !.decisions = Reassessments(run)]
<1>2. /\ run.status = "investigating" /\ run.waiting = {}
      /\ run' = Decided(n)
      /\ UNCHANGED <<shelf, clock, late, losses>>
  BY DEF Reassess, world
<1>3. SoundRun(run) /\ Traced(run)
  BY DEF RefinementInvariant, RunInvariant
<1>4. JustDecided(n) /\ ReadTheSame(n, run)
  BY <1>2, <1>3, ReassessmentCases
<1> HIDE DEF n
<1>5. /\ ReadTheSame(run', n) /\ run'.status \in {"executing", "completed"}
  BY <1>2, <1>4, DecidedChanges
<1>6. LostCalls(run') = LostCalls(run)
  BY <1>4, <1>5 DEF LostCalls, ReadTheSame
<1>7. run.failed = {} /\ DOMAIN run.resolutions = {}
  BY <1>2, <1>3 DEF SoundRun, WhatWasWritten
<1>8. \A c : Placed(run, c) => Placed(run', c)
  BY <1>2, <1>5, <1>7 DEF Placed
<1>9. Traced(run')
  BY <1>3, <1>5, <1>6, <1>8 DEF Traced
<1>10. Cardinality(LostCalls(run))' <= losses'
  BY <1>2, <1>6 DEF RefinementInvariant
<1> QED BY <1>1, <1>2, <1>5, <1>9, <1>10, CataloguesAreAnalysed, LateWritesStay
        DEF RefinementInvariant

LEMMA ResolutionRefines ==
  ASSUME RefinementInvariant, Resolve
  PROVE  RefinementInvariant'
<1>1. RunInvariant' /\ Quiet'
  BY ResolutionStep, LoopStepsAreQuiet DEF RefinementInvariant
<1>2. /\ run.status = "verifying" /\ run.waiting = {}
      /\ run' = Resolution(run)
      /\ UNCHANGED <<shelf, clock, late, losses>>
  BY DEF Resolve, world
<1>3. SoundRun(run) /\ Traced(run)
  BY DEF RefinementInvariant, RunInvariant
<1>4. PICK n : /\ Between(n) /\ Resolution(run) = Proceed(n)
               /\ n.calls = run.calls /\ n.failed = run.failed
               /\ n.resolutions = With(run.resolutions, run.current, Verdict(run))
  BY <1>2, <1>3, ResolutionProceeds
<1>5. FieldsAfterLoop(run', n)
  BY <1>2, <1>4, ProceedChanges DEF Between
<1>6. DOMAIN n.resolutions = DOMAIN run.resolutions \cup {run.current}
  <2> DEFINE f == run.resolutions
             s == run.current
             x == Verdict(run)
  <2>1. DOMAIN With(f, s, x) = DOMAIN f \cup {s}
    <3> HIDE DEF f, s, x
    <3> QED BY WithDomain
  <2> QED BY <1>4, <2>1
<1>7. /\ run'.status \in {"executing", "completed"} /\ run'.failed = run.failed
      /\ run'.calls = run.calls
      /\ DOMAIN run.resolutions \cup {run.current} \subseteq DOMAIN run'.resolutions
  BY <1>4, <1>5, <1>6 DEF FieldsAfterLoop
<1>8. LostCalls(run') = LostCalls(run)
  BY <1>7 DEF LostCalls
<1>9. \A c : Placed(run, c) => Placed(run', c)
  BY <1>2, <1>7 DEF Placed
<1>10. Traced(run')
  BY <1>3, <1>7, <1>8, <1>9 DEF Traced
<1>11. Cardinality(LostCalls(run))' <= losses'
  BY <1>2, <1>8 DEF RefinementInvariant
<1> QED BY <1>1, <1>2, <1>7, <1>10, <1>11, CataloguesAreAnalysed, LateWritesStay
        DEF RefinementInvariant

(* The end of a PUT *)
LEMMA SentIsTraced ==
  ASSUME NEW r, SoundRun(r), Traced(r), r.status = "executing", NEW w,
         NEW answer, NEW q, q = Sent(r, w, answer)
  PROVE  /\ Traced(q) /\ q.status \in {"executing", "verifying"}
         /\ answer # "lost" => LostCalls(q) = LostCalls(r)
         /\ answer = "lost" => LostCalls(q) = LostCalls(r) \cup
              {[purpose |-> "write", to |-> w, sku |-> r.current,
                answer |-> "lost"]}
<1> DEFINE call == [purpose |-> "write", to |-> w, sku |-> r.current,
                    answer |-> answer]
<1>1. DOMAIN r = RunFields /\ r.current \notin DOMAIN r.resolutions
  BY DEF SoundRun, WhoseTurn, InHand
<1>2. FieldsAfterPut(q, r, w, answer)
  BY <1>1, SentChanges
<1>3. /\ call.answer = answer /\ call.purpose = "write"
      /\ call.sku = r.current
      /\ answer = "lost" =>
           call = [purpose |-> "write", to |-> w, sku |-> r.current,
                   answer |-> "lost"]
  OBVIOUS
<1>4. q.calls = r.calls \cup {call}
  BY <1>2 DEF FieldsAfterPut
<1> HIDE DEF call
<1>5. /\ answer # "lost" => LostCalls(q) = LostCalls(r)
      /\ answer = "lost" => LostCalls(q) = LostCalls(r) \cup {call}
  BY <1>3, <1>4, OneMoreCall
<1>6. /\ q.status \in {"executing", "verifying"}
      /\ q.resolutions = r.resolutions /\ r.failed \subseteq q.failed
      /\ answer # "ok" => r.current \in q.failed
  BY <1>2 DEF FieldsAfterPut, FailedAfter
<1>7. \A c \in LostCalls(r) : Placed(q, c)
  BY <1>6 DEF Traced, Placed
<1>8. answer = "lost" => Placed(q, call)
  BY <1>3, <1>6 DEF Placed
<1>9. Traced(q)
  BY <1>5, <1>6, <1>7, <1>8 DEF Traced
<1> QED BY <1>3, <1>5, <1>6, <1>9

LEMMA ExecutionRefines ==
  ASSUME RefinementInvariant, ExecuteUpdate
  PROVE  RefinementInvariant'
<1>1. RunInvariant' /\ Quiet'
  BY ExecutionStep, WritesAreQuiet DEF RefinementInvariant
<1>2. PICK answer \in {"ok", "rejected"} : run' = Sent(run, Min(run.todo), answer)
  BY DEF ExecuteUpdate
<1>3. Traced(run') /\ run'.status \in {"executing", "verifying"}
      /\ LostCalls(run') = LostCalls(run)
  BY <1>2, SentIsTraced DEF RefinementInvariant, RunInvariant, ExecuteUpdate
<1>4. Cardinality(LostCalls(run))' <= losses'
  BY <1>3 DEF RefinementInvariant, ExecuteUpdate
<1> QED BY <1>1, <1>3, <1>4, CataloguesAreAnalysed, LateWritesStay
        DEF RefinementInvariant, ExecuteUpdate

LEMMA LostWriteRefines ==
  ASSUME RefinementInvariant, LoseUpdate
  PROVE  RefinementInvariant'
<1> DEFINE w == Min(run.todo)
           call == [purpose |-> "write", to |-> w, sku |-> run.current,
                    answer |-> "lost"]
           m == Message(run, w)
<1>1. RunInvariant' /\ Quiet'
  BY LostWriteStep, WritesAreQuiet DEF RefinementInvariant
<1>2. /\ run.status = "executing" /\ run' = Sent(run, w, "lost")
      /\ losses' = losses + 1 /\ late' = late \cup {m}
  BY DEF LoseUpdate
<1>3. /\ Traced(run') /\ run'.status \in {"executing", "verifying"}
      /\ LostCalls(run') = LostCalls(run) \cup {call}
  BY <1>2, SentIsTraced DEF RefinementInvariant, RunInvariant
<1>4. m \in LateWrite
  <2>1. m.to \in Warehouse /\ m.sku \in Sku /\ m.request \in UpdateRequest
    BY <1>2, MessageIsSound DEF RefinementInvariant
  <2>2. m = [sku |-> run.current, to |-> w, request |-> Request(run, w)]
    BY DEF Message
  <2> QED BY <2>1, <2>2 DEF LateWrite
<1>5. call.purpose = "write" /\ call.sku = run.current
  OBVIOUS
<1> HIDE DEF call, m
<1>6. call \notin LostCalls(run)
  BY <1>2, <1>5, LostWriteIsNew
<1>7. Cardinality(LostCalls(run))' <= losses'
  BY <1>2, <1>3, <1>6, OneMoreLost
<1>8. (late \subseteq LateWrite)'
  BY <1>2, <1>4 DEF RefinementInvariant
<1> QED BY <1>1, <1>3, <1>7, <1>8, CataloguesAreAnalysed DEF RefinementInvariant

LEMMA LateWriteRefines ==
  ASSUME RefinementInvariant, NEW m \in late, HandleLate(m)
  PROVE  RefinementInvariant'
<1>1. RunInvariant' /\ Quiet'
  BY LateWriteStep, FaultsAreQuiet DEF RefinementInvariant, Fault
<1>2. late' = late \ {m} /\ UNCHANGED <<run, losses>>
  BY DEF HandleLate
<1>3. m.sku \in run.failed
  BY DEF RefinementInvariant, Quiet
<1>4. run.status \notin {"starting", "observing"}
  BY <1>3, ObservingDecidesNothing DEF Undecided, RefinementInvariant, RunInvariant
<1>5. Catalogues'
  BY <1>2, <1>4, CataloguesAreAnalysed
<1> QED BY <1>1, <1>2, <1>5 DEF RefinementInvariant

LEMMA RefinementInvariantHolds ==
  /\ Init => RefinementInvariant
  /\ RefinementInvariant /\ [Next]_vars => RefinementInvariant'
<1>1. ASSUME Init PROVE RefinementInvariant
  <2>1. RunInvariant
    BY <1>1, RunInvariantHolds
  <2>2. PICK version \in AgentVersions : run = NewRun(version)
    BY <1>1 DEF Init
  <2>3. run.calls = {} /\ run.status = "starting"
    BY <2>2 DEF NewRun
  <2>4. LostCalls(run) = {}
    BY <2>3 DEF LostCalls
  <2>5. Quiet
    BY <1>1, <2>2, <2>3, NewRunIsOrderly DEF Init, Quiet
  <2>6. Traced(run) /\ late \subseteq LateWrite
    BY <1>1, <2>3, <2>4 DEF Traced, Init
  <2>7. Cardinality(LostCalls(run)) <= losses
    BY <1>1, <2>4, FS_EmptySet DEF Init
  <2>8. Catalogues
    BY <1>1, <2>3, EverySkuIsKnown DEF Init, Catalogues
  <2> QED BY <2>1, <2>5, <2>6, <2>7, <2>8 DEF RefinementInvariant
<1>2. ASSUME RefinementInvariant, [Next]_vars PROVE RefinementInvariant'
  <2>1. CASE Begin
    BY <1>2, <2>1, BeginRefines
  <2>2. CASE Answered
    BY <1>2, <2>2, CatalogueRefines, AnswersRefine DEF Answered
  <2>3. CASE Analyse \/ Reassess \/ Resolve
    BY <1>2, <2>3, AnalysisRefines, ReassessmentRefines, ResolutionRefines
  <2>4. CASE ExecuteUpdate \/ LoseUpdate
    BY <1>2, <2>4, ExecutionRefines, LostWriteRefines
  <2>5. CASE \E w \in Warehouse, s \in Sku \cup {NoSku} : LoseRead(w, s)
    BY <1>2, <2>5, LostReadRefines
  <2>6. CASE \E m \in late : HandleLate(m)
    BY <1>2, <2>6, LateWriteRefines
  <2>7. CASE UNCHANGED vars
    BY <1>2, <2>7 DEF vars, RefinementInvariant, RunInvariant, SoundWorld, Quiet,
                      Catalogues
  <2> QED BY <1>2, <2>1, <2>2, <2>3, <2>4, <2>5, <2>6, <2>7
          DEF Next, RunStep, Fault, Terminated
<1> QED BY <1>1, <1>2

-----------------------------------------------------------------------------
(* What a step leaves alone                                                *)

LEMMA LossesStay ==
  ASSUME NEW s, LostCalls(run') = LostCalls(run)
  PROVE  LossesOf(s)' = LossesOf(s)
<1>1. \A r : LostOf(r, s) = {c \in LostCalls(r) : c.sku \in {s, NoSku}}
  BY DEF LostOf, LostCalls
<1>2. LostOf(run', s) = LostOf(run, s)
  BY <1>1
<1> QED BY <1>2 DEF LossesOf

LEMMA LossesGrow ==
  ASSUME RefinementInvariant, NEW s, NEW call, call \notin LostCalls(run),
         LostCalls(run') = LostCalls(run) \cup {call}
  PROVE  LossesOf(s)' = IF call.sku \in {s, NoSku} THEN LossesOf(s) + 1
                        ELSE LossesOf(s)
<1>1. \A r : LostOf(r, s) = {c \in LostCalls(r) : c.sku \in {s, NoSku}}
  BY DEF LostOf, LostCalls
<1>2. LostOf(run, s) \subseteq LostCalls(run)
  BY <1>1
<1>3. IsFiniteSet(LostOf(run, s)) /\ call \notin LostOf(run, s)
  BY <1>2, LostCallsAreFinite, FS_Subset
<1>4. CASE call.sku \in {s, NoSku}
  <2>1. LostOf(run', s) = LostOf(run, s) \cup {call}
    BY <1>1, <1>4
  <2> QED BY <1>3, <1>4, <2>1, FS_AddElement DEF LossesOf
<1>5. CASE call.sku \notin {s, NoSku}
  <2>1. LostOf(run', s) = LostOf(run, s)
    BY <1>1, <1>5
  <2> QED BY <1>5, <2>1 DEF LossesOf
<1> QED BY <1>4, <1>5

LEMMA LossesAreBounded ==
  ASSUME RefinementInvariant, NEW s, losses < MaxLosses
  PROVE  LossesOf(s) < MaxLosses
<1>1. LostOf(run, s) \subseteq LostCalls(run)
  BY DEF LostOf, LostCalls
<1>2. Cardinality(LostOf(run, s)) <= Cardinality(LostCalls(run))
      /\ Cardinality(LostOf(run, s)) \in Nat
  BY <1>1, LostCallsAreFinite, FS_Subset, FS_CardinalityType
<1>3. Cardinality(LostCalls(run)) <= losses
  BY DEF RefinementInvariant
<1>4. MaxLosses \in Nat
  BY AgentRunAssumption
<1> QED BY <1>2, <1>3, <1>4, LostCallsAreFinite DEF LossesOf

LEMMA WorldStands ==
  ASSUME NEW s, UNCHANGED <<shelf, clock, late>>,
         run'.obs = run.obs \/ late = {}
  PROVE  Stands(s)
<1>1. StoreOf(s)' = StoreOf(s) /\ clock'[s] = clock[s]
  BY DEF StoreOf
<1>2. LateOf(s)' = LateOf(s)
  BY DEF LateOf, Unanswered
<1> QED BY <1>1, <1>2 DEF Stands

LEMMA RunsStay ==
  ASSUME run.status # "starting", run'.status # "starting"
  PROVE  RunsOf(run)' = RunsOf(run)
BY DEF RunsOf

Later == {"investigating", "executing", "verifying", "completed"}

(* Nothing that is about s has changed.                                    *)
SameOf(q, r, s) ==
  /\ q.histories[s] = r.histories[s]
  /\ {w \in Warehouse : <<w, s>> \in q.asked} = {w \in Warehouse : <<w, s>> \in r.asked}
  /\ s \in Conflicts(r) /\ r.version # 1 =>
       /\ q.decisions[s] = r.decisions[s]
       /\ r.decisions[s].outcome = "INVESTIGATE" => WaitingFor(q, s) = WaitingFor(r, s)
  /\ s \in DOMAIN q.plans <=> s \in DOMAIN r.plans
  /\ s \in DOMAIN r.plans =>
       /\ q.plans[s] = r.plans[s] /\ q.checked[s] = r.checked[s]
       /\ s \in q.failed <=> s \in r.failed
       /\ s \in DOMAIN q.resolutions <=> s \in DOMAIN r.resolutions
       /\ IF s \in DOMAIN r.resolutions
          THEN q.resolutions[s] = r.resolutions[s]
          ELSE /\ q.status = r.status /\ q.todo = r.todo
               /\ WaitingFor(q, s) = WaitingFor(r, s)

LEMMA SameSkuRun ==
  ASSUME NEW r, SoundRun(r), NEW q, SoundRun(q), NEW s,
         r.status \in Later, q.status \in Later,
         q.version = r.version, q.observed = r.observed, q.obs = r.obs,
         SameOf(q, r, s)
  PROVE  SkuRun(q, s) = SkuRun(r, s)
<1>1. Conflicts(q) = Conflicts(r)
  BY DEF Conflicts
<1>2. AskedOf(q, s) = AskedOf(r, s)
  BY DEF SameOf, AskedOf
<1>3. \A a, b, c, d, e, f, g : At(q, s, a, b, c, d, e, f, g) =
                               At(r, s, a, b, c, d, e, f, g)
  BY <1>2 DEF At, SameOf
<1>4. \A a, b, c, d : Planless(q, s, a, b, c, d) = Planless(r, s, a, b, c, d)
  BY <1>3 DEF Planless
<1>5. CASE s \notin Conflicts(r) \/ r.version = 1
  BY <1>1, <1>4, <1>5 DEF SkuRun, Later
<1>6. CASE s \in Conflicts(r) /\ r.version # 1
  <2>1. q.decisions[s] = r.decisions[s]
    BY <1>6 DEF SameOf
  <2>2. PlanFor(q, s) = PlanFor(r, s) /\ Executable(q, s) = Executable(r, s)
    BY <2>1, SamePlan
  <2>3. CASE s \notin DOMAIN r.plans
    <3>1. s \notin r.failed /\ s \notin q.failed /\ s \notin DOMAIN q.plans
      BY <2>3 DEF SoundRun, WhatWasWritten, SameOf
    <3> DEFINE plan == PlanFor(r, s)
    <3>2. /\ Writing(r, s) = At(r, s, "executing", "none", {}, TRUE, plan,
                               plan.targets, <<>>)
          /\ Writing(q, s) = At(q, s, "executing", "none", {}, TRUE, plan,
                               plan.targets, <<>>)
      BY <2>2, <2>3, <3>1 DEF Writing
    <3> HIDE DEF plan
    <3>3. Writing(q, s) = Writing(r, s)
      BY <1>3, <3>2
    <3> QED BY <1>1, <1>4, <1>6, <2>1, <2>2, <3>3 DEF SkuRun, Later, SameOf
  <2>4. CASE s \in DOMAIN r.plans
    <3> DEFINE ok == s \notin r.failed
               plan == r.plans[s]
               checked == r.checked[s]
    <3>2. ASSUME s \in DOMAIN r.resolutions PROVE Writing(q, s) = Writing(r, s)
      <4> DEFINE outcome == r.resolutions[s]
      <4>1. /\ Writing(r, s) = At(r, s, "finished", outcome, {}, ok, plan, {},
                                 checked)
            /\ Writing(q, s) = At(q, s, "finished", outcome, {}, ok, plan, {},
                                 checked)
        BY <2>4, <3>2 DEF Writing, SameOf
      <4> HIDE DEF ok, plan, checked, outcome
      <4> QED BY <1>3, <4>1
    <3>3. ASSUME s \notin DOMAIN r.resolutions PROVE Writing(q, s) = Writing(r, s)
      <4> DEFINE waiting == WaitingFor(r, s)
                 status == r.status
                 todo == r.todo
      <4>1. /\ Writing(r, s) = At(r, s, status, "none", waiting, ok, plan, todo,
                                 checked)
            /\ Writing(q, s) = At(q, s, status, "none", waiting, ok, plan, todo,
                                 checked)
        BY <2>4, <3>3 DEF Writing, SameOf
      <4> HIDE DEF ok, plan, checked, waiting, status, todo
      <4> QED BY <1>3, <4>1
    <3>1. Writing(q, s) = Writing(r, s)
      BY <3>2, <3>3
    <3> QED BY <1>1, <1>4, <1>6, <2>1, <2>2, <3>1 DEF SkuRun, Later, SameOf
  <2> QED BY <2>3, <2>4
<1> QED BY <1>5, <1>6

(* A step that is about other SKUs                                         *)
LEMMA StandsBy ==
  ASSUME NEW s, SoundRun(run), SoundRun(run'),
         run.status \in Later, run'.status \in Later,
         run'.version = run.version, run'.observed = run.observed,
         run'.obs = run.obs, SameOf(run', run, s),
         Stands(s), LossesOf(s)' = LossesOf(s)
  PROVE  Goes(s)
<1>1. SkuRun(run', s) = SkuRun(run, s)
  BY SameSkuRun
<1>2. RunsOf(run)' = RunsOf(run)
  BY RunsStay DEF Later
<1> QED BY <1>1, <1>2, StandsStill

-----------------------------------------------------------------------------
(* Every step of a run is one of its SKU, or stands still for it.          *)

LEMMA BlankIsAFleetRun ==
  /\ IsFleetRun(Blank)
  /\ Blank.stage = "idle" /\ Blank.outcome = "none" /\ Blank.waiting = {}
  /\ Blank.ok = TRUE /\ Blank.obs = <<>> /\ Blank.known = <<>>
  /\ Blank.histories = <<>> /\ Blank.queried = {} /\ Blank.plan = NoPlan
  /\ Blank.todo = {} /\ Blank.checked = <<>>
BY DEF Blank, IsFleetRun, FleetFields

LEMMA BeginGoes ==
  ASSUME RefinementInvariant, Begin, NEW s \in Sku
  PROVE  Goes(s)
<1>1. /\ run.status = "starting" /\ UNCHANGED <<shelf, clock, late, losses>>
      /\ run' = Observing(run.version)
  BY DEF Begin, world
<1>2. late = {}
  BY <1>1 DEF RefinementInvariant, Quiet
<1>3. /\ run'.status = "observing" /\ run'.waiting = Warehouse \X {NoSku}
      /\ run'.obs[s] = <<>> /\ run'.histories[s] = <<>> /\ run'.asked = {}
      /\ run'.observed = {} /\ run'.calls = {}
  BY <1>1 DEF Observing, NewRun
<1>4. Stands(s)
  BY <1>1, <1>2, WorldStands
<1>5. LostCalls(run) = {} /\ LostCalls(run') = {}
  <2>1. LostCalls(run) = {}
    BY <1>1, LostBeforeAnalysis DEF RefinementInvariant, RunInvariant
  <2> QED BY <1>3, <2>1 DEF LostCalls
<1>6. LossesOf(s)' = LossesOf(s)
  BY <1>5, LossesStay
<1> DEFINE q == SkuRun(run', s)
           waiting == WaitingFor(run', NoSku)
           ok == ~CatalogueLost(run')
<1>7. SkuRun(run, s) = Blank
  BY <1>1 DEF SkuRun
<1>8. q = At(run', s, "observing", "none", waiting, ok, NoPlan, {}, <<>>)
  BY <1>3 DEF SkuRun, Planless
<1>9. waiting = Warehouse
  <2>1. \A w : w \in waiting <=> <<w, NoSku>> \in run'.waiting
    BY <1>3 DEF WaitingFor
  <2> QED BY <1>3, <2>1
<1>10. ok = TRUE
  BY <1>3 DEF CatalogueLost
<1>11. AskedOf(run', s) = {}
  BY <1>3 DEF AskedOf
<1>12. Unreflected(run'.observed) = <<>>
  BY <1>3 DEF Unreflected
<1> HIDE DEF q, waiting, ok
<1>13. /\ IsFleetRun(q) /\ q.stage = "observing" /\ q.outcome = "none"
       /\ q.waiting = waiting /\ q.ok = ok /\ q.obs = run'.obs[s]
       /\ q.known = Unreflected(run'.observed)
       /\ q.histories = run'.histories[s] /\ q.queried = AskedOf(run', s)
       /\ q.plan = NoPlan /\ q.todo = {} /\ q.checked = <<>>
  BY <1>8, AtIsAFleetRun
<1>14. SameBut(q, Blank, {"stage", "outcome", "waiting"})
  <2>1. /\ q.ok = Blank.ok /\ q.obs = Blank.obs /\ q.known = Blank.known
        /\ q.histories = Blank.histories /\ q.queried = Blank.queried
        /\ q.plan = Blank.plan /\ q.todo = Blank.todo
        /\ q.checked = Blank.checked
    BY <1>3, <1>10, <1>11, <1>12, <1>13, BlankIsAFleetRun
  <2> QED BY <2>1 DEF SameBut, FleetFields
<1>15. q = [Blank EXCEPT !.stage = q.stage, !.waiting = q.waiting,
                         !.outcome = q.outcome]
  BY <1>13, <1>14, BlankIsAFleetRun DEF IsFleetRun, FleetFields, SameBut
<1>16. Blank.stage = "idle" /\ q.outcome = Blank.outcome
  BY <1>13, BlankIsAFleetRun
<1>17. q = [Blank EXCEPT !.stage = "observing", !.waiting = Warehouse,
                         !.outcome = Blank.outcome]
  BY <1>9, <1>13, <1>15, <1>16
<1>18. RunsOf(run) = 0 /\ RunsOf(run)' = 1
  BY <1>1, <1>3 DEF RunsOf
<1> QED BY <1>4, <1>6, <1>7, <1>16, <1>17, <1>18, Starts DEF q

LEMMA CatalogueGoes ==
  ASSUME RefinementInvariant, NEW w \in Warehouse, AnswerCatalogue(w),
         NEW s \in Sku
  PROVE  Goes(s)
<1> DEFINE c == Called(run, "catalogue", w, NoSku, "ok")
           seen == [t \in Sku |-> IF shelf[w][t] = Missing THEN c.obs[t]
                                  ELSE With(c.obs[t], w, shelf[w][t].rec)]
<1>1. /\ run.status = "observing" /\ <<w, NoSku>> \in run.waiting
      /\ run' = [c EXCEPT !.observed = c.observed \cup {w}, !.obs = seen]
      /\ UNCHANGED <<shelf, clock, late, losses>>
  BY DEF AnswerCatalogue, world
<1>2. DOMAIN run = RunFields
  BY DEF RefinementInvariant, RunInvariant, SoundRun
<1>3. /\ DOMAIN c = RunFields /\ c.status = "observing" /\ c.obs = run.obs
      /\ c.observed = run.observed /\ c.waiting = run.waiting \ {<<w, NoSku>>}
      /\ c.histories = run.histories /\ c.asked = run.asked
  BY <1>1, <1>2, CallChanges
<1>4. LostCalls(c) = LostCalls(run)
  BY <1>2, AnsweredIsNotLost
<1> HIDE DEF c, seen
<1>5. /\ run'.status = "observing" /\ run'.obs = seen /\ run'.calls = c.calls
      /\ run'.observed = run.observed \cup {w}
      /\ run'.waiting = run.waiting \ {<<w, NoSku>>}
      /\ run'.histories = run.histories /\ run'.asked = run.asked
  BY <1>1, <1>3 DEF RunFields
<1>6. LostCalls(run') = LostCalls(run)
  BY <1>4, <1>5 DEF LostCalls
<1>7. LossesOf(s)' = LossesOf(s)
  BY <1>6, LossesStay
<1>8. late = {}
  BY <1>1, ObservingDecidesNothing
     DEF RefinementInvariant, RunInvariant, Quiet, Undecided
<1>9. Stands(s)
  BY <1>1, <1>8, WorldStands
<1>10. RunsOf(run)' = RunsOf(run)
  BY <1>1, <1>5, RunsStay
<1> DEFINE r == SkuRun(run, s)
           q == SkuRun(run', s)
           waiting == WaitingFor(run, NoSku)
           ok == ~CatalogueLost(run)
<1>11. WaitingFor(run', NoSku) = waiting \ {w} /\ w \in waiting
  <2>1. \A v : v \in waiting <=> <<v, NoSku>> \in run.waiting
    <3>1. \A d \in run.waiting : d = <<d[1], NoSku>>
      BY <1>1 DEF RefinementInvariant, RunInvariant, SoundRun, Awaited
    <3> QED BY <3>1 DEF WaitingFor
  <2>2. \A v : v \in WaitingFor(run', NoSku) <=> <<v, NoSku>> \in run'.waiting
    <3>1. \A d \in run'.waiting : d = <<d[1], NoSku>>
      BY <1>1, <1>5 DEF RefinementInvariant, RunInvariant, SoundRun, Awaited
    <3> QED BY <3>1 DEF WaitingFor
  <2> QED BY <1>1, <1>5, <2>1, <2>2
<1>12. CatalogueLost(run') = CatalogueLost(run)
  <2>1. \A x : CatalogueLost(x) <=> \E k \in LostCalls(x) : k.sku = NoSku
    BY DEF CatalogueLost, LostCalls
  <2> QED BY <1>6, <2>1
<1>13. AskedOf(run', s) = AskedOf(run, s)
  BY <1>5 DEF AskedOf
<1>14. r = At(run, s, "observing", "none", waiting, ok, NoPlan, {}, <<>>)
  BY <1>1 DEF SkuRun, Planless
<1>15. q = At(run', s, "observing", "none", waiting \ {w}, ok, NoPlan, {}, <<>>)
  BY <1>5, <1>11, <1>12 DEF SkuRun, Planless
<1> HIDE DEF r, q, waiting, ok
<1>16. /\ IsFleetRun(r) /\ r.stage = "observing" /\ r.outcome = "none"
       /\ r.waiting = waiting /\ r.ok = ok /\ r.obs = run.obs[s]
       /\ r.known = Unreflected(run.observed)
       /\ r.histories = run.histories[s] /\ r.queried = AskedOf(run, s)
       /\ r.plan = NoPlan /\ r.todo = {} /\ r.checked = <<>>
  BY <1>14, AtIsAFleetRun
<1>17. /\ IsFleetRun(q) /\ q.stage = "observing" /\ q.outcome = "none"
       /\ q.waiting = waiting \ {w} /\ q.ok = ok /\ q.obs = run'.obs[s]
       /\ q.known = Unreflected(run'.observed)
       /\ q.histories = run'.histories[s] /\ q.queried = AskedOf(run', s)
       /\ q.plan = NoPlan /\ q.todo = {} /\ q.checked = <<>>
  BY <1>15, AtIsAFleetRun
<1>18. SameBut(q, r, {"waiting", "obs", "known"})
  <2>1. /\ q.stage = r.stage /\ q.outcome = r.outcome /\ q.ok = r.ok
        /\ q.histories = r.histories /\ q.queried = r.queried
        /\ q.plan = r.plan /\ q.todo = r.todo /\ q.checked = r.checked
    BY <1>5, <1>13, <1>16, <1>17
  <2> QED BY <2>1 DEF SameBut, FleetFields
<1>19. q = [r EXCEPT !.waiting = q.waiting, !.obs = q.obs, !.known = q.known]
  BY <1>16, <1>17, <1>18, FleetRunChanges
<1>20. q.known = With(r.known, w, [v \in Warehouse |-> {}][w])
  BY <1>5, <1>16, <1>17 DEF With, Unreflected
<1>21. q.obs = IF StoreOf(s)[w] = Missing THEN r.obs
               ELSE With(r.obs, w, StoreOf(s)[w].rec)
  <2>1. StoreOf(s)[w] = shelf[w][s]
    BY DEF StoreOf
  <2>2. q.obs = IF shelf[w][s] = Missing THEN run.obs[s]
                ELSE With(run.obs[s], w, shelf[w][s].rec)
    BY <1>3, <1>5, <1>17 DEF seen
  <2> QED BY <1>16, <2>1, <2>2
<1>22. q = [r EXCEPT !.waiting = r.waiting \ {w},
                     !.obs = IF StoreOf(s)[w] = Missing THEN r.obs
                             ELSE With(r.obs, w, StoreOf(s)[w].rec),
                     !.known = With(r.known, w, [v \in Warehouse |-> {}][w])]
  BY <1>16, <1>17, <1>19, <1>20, <1>21
<1> QED BY <1>7, <1>9, <1>10, <1>11, <1>16, <1>22, ReadsCatalogue DEF r, q

LEMMA EventsGo ==
  ASSUME RefinementInvariant, NEW w \in Warehouse, NEW t \in Sku,
         AnswerEvents(w, t), NEW s \in Sku
  PROVE  Goes(s)
<1> DEFINE c == Called(run, "events", w, t, "ok")
           got == RecentEvents(shelf[w][t].hist, HistoryLimit)
           histories == [c.histories EXCEPT ![t] = With(c.histories[t], w, got)]
<1>1. /\ run.status = "investigating" /\ <<w, t>> \in run.waiting
      /\ shelf[w][t] # Missing
      /\ run' = [c EXCEPT !.histories = histories]
      /\ UNCHANGED <<shelf, clock, late, losses>>
  BY DEF AnswerEvents, world
<1>2. DOMAIN run = RunFields /\ SoundRun(run)
  BY DEF RefinementInvariant, RunInvariant, SoundRun
<1>3. /\ DOMAIN c = RunFields /\ c.version = run.version
      /\ c.status = run.status /\ c.obs = run.obs
      /\ c.observed = run.observed /\ c.waiting = run.waiting \ {<<w, t>>}
      /\ c.histories = run.histories /\ c.asked = run.asked
      /\ c.decisions = run.decisions /\ c.plans = run.plans
      /\ c.failed = run.failed /\ c.checked = run.checked
      /\ c.resolutions = run.resolutions /\ c.todo = run.todo
  BY <1>2, CallChanges
<1>4. LostCalls(c) = LostCalls(run)
  BY <1>2, AnsweredIsNotLost
<1> HIDE DEF c, got
<1>5. t \in DOMAIN c.histories
  BY <1>2, <1>3 DEF SoundRun, WhatWasRead
<1>6. /\ histories[t] = With(run.histories[t], w, got)
      /\ \A u \in Sku \ {t} : histories[u] = run.histories[u]
  BY <1>2, <1>3, <1>5, ChangedValue DEF SoundRun, WhatWasRead
<1> HIDE DEF histories
<1>7. /\ run'.version = run.version /\ run'.status = "investigating"
      /\ run'.obs = run.obs /\ run'.calls = c.calls
      /\ run'.observed = run.observed
      /\ run'.waiting = run.waiting \ {<<w, t>>}
      /\ run'.histories = histories /\ run'.asked = run.asked
      /\ run'.decisions = run.decisions /\ run'.plans = run.plans
      /\ run'.failed = run.failed /\ run'.checked = run.checked
      /\ run'.resolutions = run.resolutions /\ run'.todo = run.todo
  BY <1>1, <1>3 DEF RunFields
<1>8. LostCalls(run') = LostCalls(run)
  BY <1>4, <1>7 DEF LostCalls
<1>9. LossesOf(s)' = LossesOf(s)
  BY <1>8, LossesStay
<1>10. Stands(s)
  BY <1>1, <1>7, WorldStands
<1>11. SoundRun(run')
  BY EventsStep DEF RefinementInvariant, RunInvariant
<1>12. CASE s # t
  <2>1. WaitingFor(run', s) = WaitingFor(run, s)
    BY <1>7, <1>12 DEF WaitingFor
  <2>2. SameOf(run', run, s)
    BY <1>1, <1>6, <1>7, <1>12, <2>1 DEF SameOf
  <2> QED BY <1>1, <1>2, <1>7, <1>9, <1>10, <1>11, <2>2, StandsBy DEF Later
<1>13. CASE s = t
  <2> DEFINE r == SkuRun(run, s)
             q == SkuRun(run', s)
             waiting == WaitingFor(run, s)
             ok == TRUE
  <2>1. RunsOf(run)' = RunsOf(run)
    BY <1>1, <1>7, RunsStay
  <2>2. /\ s \in Conflicts(run) /\ run.version # 1
        /\ run.decisions[s].outcome = "INVESTIGATE"
    <3>1. s \in Conflicts(run)
      BY <1>1, <1>13 DEF RefinementInvariant, Traced
    <3>2. w \in AskedOf(run, s)
      BY <1>1, <1>2, <1>13 DEF SoundRun, Awaited, AskedOf
    <3> QED BY <1>1, <1>2, <3>1, <3>2 DEF SoundRun, WhatWasDecided, Undecided
  <2>3. Conflicts(run') = Conflicts(run)
    BY <1>7 DEF Conflicts
  <2>4. WaitingFor(run', s) = waiting \ {w} /\ w \in waiting
    <3>1. \A v : v \in waiting <=> <<v, s>> \in run.waiting
      <4>1. \A d \in run.waiting : d = <<d[1], d[2]>>
        BY <1>1, <1>2 DEF SoundRun, WhatWasRead, Awaited
      <4> QED BY <4>1 DEF WaitingFor
    <3>2. \A v : v \in WaitingFor(run', s) <=> <<v, s>> \in run'.waiting
      <4>1. \A d \in run'.waiting : d = <<d[1], d[2]>>
        BY <1>1, <1>2, <1>7 DEF SoundRun, WhatWasRead, Awaited
      <4> QED BY <4>1 DEF WaitingFor
    <3> QED BY <1>1, <1>7, <1>13, <3>1, <3>2
  <2>5. r = At(run, s, "investigating", "none", waiting, ok, NoPlan, {}, <<>>)
    BY <1>1, <2>2 DEF SkuRun, Planless
  <2>6. q = At(run', s, "investigating", "none", waiting \ {w}, ok, NoPlan, {},
               <<>>)
    BY <1>7, <2>2, <2>3, <2>4 DEF SkuRun, Planless
  <2>7. AskedOf(run', s) = AskedOf(run, s)
    BY <1>7 DEF AskedOf
  <2> HIDE DEF r, q, waiting, ok
  <2>8. /\ IsFleetRun(r) /\ r.stage = "investigating" /\ r.outcome = "none"
        /\ r.waiting = waiting /\ r.ok = ok /\ r.obs = run.obs[s]
        /\ r.known = Unreflected(run.observed)
        /\ r.histories = run.histories[s] /\ r.queried = AskedOf(run, s)
        /\ r.plan = NoPlan /\ r.todo = {} /\ r.checked = <<>>
    BY <2>5, AtIsAFleetRun
  <2>9. /\ IsFleetRun(q) /\ q.stage = "investigating" /\ q.outcome = "none"
        /\ q.waiting = waiting \ {w} /\ q.ok = ok /\ q.obs = run'.obs[s]
        /\ q.known = Unreflected(run'.observed)
        /\ q.histories = run'.histories[s] /\ q.queried = AskedOf(run', s)
        /\ q.plan = NoPlan /\ q.todo = {} /\ q.checked = <<>>
    BY <2>6, AtIsAFleetRun
  <2>10. SameBut(q, r, {"waiting", "histories"})
    <3>1. /\ q.stage = r.stage /\ q.outcome = r.outcome /\ q.ok = r.ok
          /\ q.obs = r.obs /\ q.known = r.known /\ q.queried = r.queried
          /\ q.plan = r.plan /\ q.todo = r.todo /\ q.checked = r.checked
      BY <1>7, <2>7, <2>8, <2>9
    <3> QED BY <3>1 DEF SameBut, FleetFields
  <2>11. q = [r EXCEPT !.waiting = q.waiting, !.histories = q.histories]
    BY <2>8, <2>9, <2>10, FleetRunChanges
  <2>12. StoreOf(s)[w] = shelf[w][s]
    BY DEF StoreOf
  <2>13. q.histories = With(r.histories, w, RecentEvents(StoreOf(s)[w].hist,
                                                         HistoryLimit))
    BY <1>6, <1>7, <1>13, <2>8, <2>9, <2>12 DEF got
  <2>14. q = [r EXCEPT !.waiting = r.waiting \ {w},
                       !.histories = With(r.histories, w,
                         RecentEvents(StoreOf(s)[w].hist, HistoryLimit))]
    BY <2>8, <2>9, <2>11, <2>13
  <2> QED BY <1>1, <1>9, <1>10, <1>13, <2>1, <2>4, <2>8, <2>12, <2>14, ReadsHistory
          DEF r, q
<1> QED BY <1>12, <1>13

(* The SKU in hand is executing or verifying, with a plan.                 *)
LEMMA RunOfPlanned ==
  ASSUME NEW r, SoundRun(r), NEW s \in DOMAIN r.plans
  PROVE  SkuRun(r, s) = Writing(r, s)
<1>1. /\ s \in DOMAIN r.decisions /\ Executable(r, s) /\ r.version = 3
      /\ r.status # "investigating"
  BY DEF SoundRun, WhatWasWritten
<1>2. ~Undecided(r) /\ s \in Conflicts(r)
  BY <1>1 DEF SoundRun, WhatWasDecided
<1>3. r.decisions[s].outcome = "RECONCILE"
  BY <1>1 DEF Executable
<1> QED BY <1>1, <1>2, <1>3 DEF SkuRun, Undecided

LEMMA RunInHand ==
  ASSUME NEW r, SoundRun(r), r.status \in {"executing", "verifying"},
         NEW s, s = r.current
  PROVE  LET stage == r.status
             waiting == WaitingFor(r, s)
             ok == s \notin r.failed
             plan == r.plans[s]
             checked == r.checked[s]
         IN  /\ s \in DOMAIN r.plans \ DOMAIN r.resolutions
             /\ SkuRun(r, s) = At(r, s, stage, "none", waiting, ok, plan,
                                  r.todo, checked)
<1>1. s \in DOMAIN r.plans \ DOMAIN r.resolutions
  BY DEF SoundRun, WhoseTurn, InHand
<1>2. SkuRun(r, s) = Writing(r, s)
  BY <1>1, RunOfPlanned
<1> QED BY <1>1, <1>2 DEF Writing

(* Whom the SKU in hand waits for *)
LEMMA WaitingInHand ==
  ASSUME NEW r, SoundRun(r), r.status = "verifying"
  PROVE  \A w : w \in WaitingFor(r, r.current) <=> <<w, r.current>> \in r.waiting
<1>1. \A d \in r.waiting : d = <<d[1], r.current>>
  BY DEF SoundRun, Awaited
<1> QED BY <1>1 DEF WaitingFor

LEMMA VerificationGoes ==
  ASSUME RefinementInvariant, NEW w \in Warehouse, NEW t \in Sku,
         AnswerVerification(w, t), NEW s \in Sku
  PROVE  Goes(s)
<1> DEFINE c == Called(run, "verification", w, t, "ok")
           got == shelf[w][t].rec
           checked == [c.checked EXCEPT ![t] = With(c.checked[t], w, got)]
<1>1. /\ run.status = "verifying" /\ <<w, t>> \in run.waiting
      /\ shelf[w][t] # Missing
      /\ run' = [c EXCEPT !.checked = checked]
      /\ UNCHANGED <<shelf, clock, late, losses>>
  BY DEF AnswerVerification, world
<1>2. DOMAIN run = RunFields /\ SoundRun(run)
  BY DEF RefinementInvariant, RunInvariant, SoundRun
<1>3. /\ DOMAIN c = RunFields /\ c.version = run.version
      /\ c.status = run.status /\ c.obs = run.obs /\ c.current = run.current
      /\ c.observed = run.observed /\ c.waiting = run.waiting \ {<<w, t>>}
      /\ c.histories = run.histories /\ c.asked = run.asked
      /\ c.decisions = run.decisions /\ c.plans = run.plans
      /\ c.failed = run.failed /\ c.checked = run.checked
      /\ c.resolutions = run.resolutions /\ c.todo = run.todo
  BY <1>2, CallChanges
<1>4. LostCalls(c) = LostCalls(run)
  BY <1>2, AnsweredIsNotLost
<1> HIDE DEF c, got
<1>5. t = run.current
  BY <1>1, <1>2 DEF SoundRun, Awaited
<1>6. t \in DOMAIN run.plans \ DOMAIN run.resolutions
      /\ DOMAIN run.plans = DOMAIN run.checked
      /\ DOMAIN run.plans \subseteq DOMAIN run.resolutions \cup {t}
  BY <1>1, <1>2, <1>5 DEF SoundRun, WhoseTurn, InHand, WhatWasWritten
<1>7. /\ checked[t] = With(run.checked[t], w, got)
      /\ DOMAIN checked = DOMAIN run.checked
      /\ \A u \in DOMAIN run.checked \ {t} : checked[u] = run.checked[u]
  BY <1>3, <1>6, ChangedValue
<1> HIDE DEF checked
<1>8. /\ run'.version = run.version /\ run'.status = "verifying"
      /\ run'.obs = run.obs /\ run'.calls = c.calls
      /\ run'.observed = run.observed /\ run'.current = run.current
      /\ run'.waiting = run.waiting \ {<<w, t>>}
      /\ run'.histories = run.histories /\ run'.asked = run.asked
      /\ run'.decisions = run.decisions /\ run'.plans = run.plans
      /\ run'.failed = run.failed /\ run'.checked = checked
      /\ run'.resolutions = run.resolutions /\ run'.todo = run.todo
  BY <1>1, <1>3 DEF RunFields
<1>9. LostCalls(run') = LostCalls(run)
  BY <1>4, <1>8 DEF LostCalls
<1>10. LossesOf(s)' = LossesOf(s)
  BY <1>9, LossesStay
<1>11. Stands(s)
  BY <1>1, <1>8, WorldStands
<1>12. SoundRun(run')
  BY VerificationStep DEF RefinementInvariant, RunInvariant
<1>13. CASE s # t
  <2>1. WaitingFor(run', s) = WaitingFor(run, s)
    BY <1>8, <1>13 DEF WaitingFor
  <2>2. s \in Conflicts(run) /\ run.version # 1
          => run.decisions[s].outcome # "INVESTIGATE"
    BY <1>1, <1>2 DEF SoundRun, WhatWasDecided, Undecided
  <2>3. SameOf(run', run, s)
    BY <1>1, <1>6, <1>7, <1>8, <1>13, <2>1, <2>2 DEF SameOf
  <2> QED BY <1>1, <1>2, <1>8, <1>10, <1>11, <1>12, <2>3, StandsBy DEF Later
<1>14. CASE s = t
  <2> DEFINE r == SkuRun(run, s)
             q == SkuRun(run', s)
             waiting == WaitingFor(run, s)
             ok == s \notin run.failed
             plan == run.plans[s]
             seen == run.checked[s]
             now == checked[s]
             todo == run.todo
  <2>1. RunsOf(run)' = RunsOf(run)
    BY <1>1, <1>8, RunsStay
  <2>2. WaitingFor(run', s) = waiting \ {w} /\ w \in waiting
    <3>1. \A v : v \in waiting <=> <<v, s>> \in run.waiting
      BY <1>1, <1>2, <1>5, <1>14, WaitingInHand
    <3>2. \A v : v \in WaitingFor(run', s) <=> <<v, s>> \in run'.waiting
      BY <1>5, <1>8, <1>12, <1>14, WaitingInHand
    <3> QED BY <1>1, <1>8, <1>14, <3>1, <3>2
  <2>3. r = At(run, s, "verifying", "none", waiting, ok, plan, todo, seen)
    BY <1>1, <1>2, <1>5, <1>14, RunInHand
  <2>4. q = At(run', s, "verifying", "none", waiting \ {w}, ok, plan, todo, now)
    <3>1. q = At(run', s, run'.status, "none", WaitingFor(run', s),
                 s \notin run'.failed, run'.plans[s], run'.todo,
                 run'.checked[s])
      BY <1>5, <1>8, <1>12, <1>14, RunInHand
    <3>2. (s \notin run'.failed) = ok
      BY <1>8
    <3> HIDE DEF q, ok
    <3> QED BY <1>8, <2>2, <3>1, <3>2
  <2>5. AskedOf(run', s) = AskedOf(run, s)
    BY <1>8 DEF AskedOf
  <2>6. now = With(seen, w, StoreOf(s)[w].rec)
    BY <1>7, <1>14 DEF StoreOf, got
  <2> HIDE DEF r, q, waiting, ok, plan, seen, now, todo
  <2>8. /\ IsFleetRun(r) /\ r.stage = "verifying" /\ r.outcome = "none"
        /\ r.waiting = waiting /\ r.ok = ok /\ r.obs = run.obs[s]
        /\ r.known = Unreflected(run.observed)
        /\ r.histories = run.histories[s] /\ r.queried = AskedOf(run, s)
        /\ r.plan = plan /\ r.todo = todo /\ r.checked = seen
    BY <2>3, AtIsAFleetRun
  <2>9. /\ IsFleetRun(q) /\ q.stage = "verifying" /\ q.outcome = "none"
        /\ q.waiting = waiting \ {w} /\ q.ok = ok /\ q.obs = run'.obs[s]
        /\ q.known = Unreflected(run'.observed)
        /\ q.histories = run'.histories[s] /\ q.queried = AskedOf(run', s)
        /\ q.plan = plan /\ q.todo = todo /\ q.checked = now
    BY <2>4, AtIsAFleetRun
  <2>10. SameBut(q, r, {"waiting", "checked"})
    <3>1. /\ q.stage = r.stage /\ q.outcome = r.outcome /\ q.ok = r.ok
          /\ q.obs = r.obs /\ q.known = r.known /\ q.queried = r.queried
          /\ q.plan = r.plan /\ q.todo = r.todo /\ q.histories = r.histories
      BY <1>8, <2>5, <2>8, <2>9
    <3> QED BY <3>1 DEF SameBut, FleetFields
  <2>11. q = [r EXCEPT !.waiting = q.waiting, !.checked = q.checked]
    BY <2>8, <2>9, <2>10, FleetRunChanges
  <2>12. StoreOf(s)[w] # Missing
    BY <1>1, <1>14 DEF StoreOf
  <2>13. q = [r EXCEPT !.waiting = r.waiting \ {w},
                       !.checked = With(r.checked, w, StoreOf(s)[w].rec)]
    BY <2>6, <2>8, <2>9, <2>11
  <2> QED BY <1>10, <1>11, <2>1, <2>2, <2>8, <2>12, <2>13, ReadsAgain DEF r, q
<1> QED BY <1>13, <1>14

(* A read of SKU s gets no answer.                                         *)
LEMMA LosesOneRead ==
  ASSUME NEW s, Stands(s), LossesOf(s) < MaxLosses,
         LossesOf(s)' = LossesOf(s) + 1, RunsOf(run)' = RunsOf(run),
         NEW r, r = SkuRun(run, s), IsFleetRun(r),
         NEW q, q = SkuRun(run', s), IsFleetRun(q),
         SameBut(q, r, {"waiting", "ok"}),
         r.stage \in {"observing", "investigating", "verifying"},
         NEW w \in Warehouse, w \in r.waiting, q.waiting = r.waiting \ {w},
         q.ok = (r.ok /\ r.stage # "observing")
  PROVE  Goes(s)
<1>1. q = [r EXCEPT !.waiting = q.waiting, !.ok = q.ok]
  BY FleetRunChanges
<1>2. q = [r EXCEPT !.waiting = @ \ {w}, !.ok = @ /\ r.stage # "observing"]
  BY <1>1, Zenon
<1>3. SkuRun(run, s)' = q
  OBVIOUS
<1> QED BY <1>2, <1>3, LosesRead

LEMMA LostReadGoes ==
  ASSUME RefinementInvariant, NEW w \in Warehouse, NEW t \in Sku \cup {NoSku},
         LoseRead(w, t), NEW s \in Sku
  PROVE  Goes(s)
<1> DEFINE p == Purpose(run.status)
           call == [purpose |-> p, to |-> w, sku |-> t, answer |-> "lost"]
<1>1. /\ <<w, t>> \in run.waiting /\ run' = Called(run, p, w, t, "lost")
      /\ losses < MaxLosses /\ UNCHANGED <<shelf, clock, late>>
  BY DEF LoseRead, world
<1>2. DOMAIN run = RunFields /\ SoundRun(run)
  BY DEF RefinementInvariant, RunInvariant, SoundRun
<1>3. /\ run'.version = run.version /\ run'.status = run.status
      /\ run'.obs = run.obs /\ run'.calls = run.calls \cup {call}
      /\ run'.observed = run.observed /\ run'.current = run.current
      /\ run'.waiting = run.waiting \ {<<w, t>>}
      /\ run'.histories = run.histories /\ run'.asked = run.asked
      /\ run'.decisions = run.decisions /\ run'.plans = run.plans
      /\ run'.failed = run.failed /\ run'.checked = run.checked
      /\ run'.resolutions = run.resolutions /\ run'.todo = run.todo
  BY <1>1, <1>2, CallChanges
<1>4. /\ call.purpose = p /\ call.to = w /\ call.sku = t
      /\ call.answer = "lost"
  OBVIOUS
<1> HIDE DEF call
<1>5. /\ run.status \in {"observing", "investigating", "verifying"}
      /\ run.status = "observing" => t = NoSku
      /\ run.status = "investigating" => t \in Conflicts(run)
      /\ run.status = "verifying" => t = run.current
      /\ call \notin LostCalls(run)
  BY <1>1, <1>4, LostReadIsNew
<1>6. LostCalls(run') = LostCalls(run) \cup {call}
  BY <1>3, <1>4, OneMoreCall
<1>7. LossesOf(s)' = IF t \in {s, NoSku} THEN LossesOf(s) + 1 ELSE LossesOf(s)
  BY <1>4, <1>5, <1>6, LossesGrow
<1>8. LossesOf(s) < MaxLosses
  BY <1>1, LossesAreBounded
<1>9. Stands(s)
  BY <1>1, <1>3, WorldStands
<1>10. RunsOf(run)' = RunsOf(run)
  BY <1>3, <1>5, RunsStay
<1>11. SoundRun(run')
  BY <1>1, <1>2, CallIsSound
<1>12. AskedOf(run', s) = AskedOf(run, s)
  BY <1>3 DEF AskedOf
<1>13. Conflicts(run') = Conflicts(run)
  BY <1>3 DEF Conflicts
<1> DEFINE r == SkuRun(run, s)
           q == SkuRun(run', s)
<1>14. CASE run.status = "observing"
  <2> DEFINE waiting == WaitingFor(run, NoSku)
             ok == ~CatalogueLost(run)
             no == ~CatalogueLost(run')
  <2>1. WaitingFor(run', NoSku) = waiting \ {w} /\ w \in waiting
    <3>1. \A v : v \in waiting <=> <<v, NoSku>> \in run.waiting
      <4>1. \A d \in run.waiting : d = <<d[1], NoSku>>
        BY <1>2, <1>14 DEF SoundRun, Awaited
      <4> QED BY <4>1 DEF WaitingFor
    <3>2. \A v : v \in WaitingFor(run', NoSku) <=> <<v, NoSku>> \in run'.waiting
      <4>1. \A d \in run'.waiting : d = <<d[1], NoSku>>
        BY <1>3, <1>11, <1>14 DEF SoundRun, Awaited
      <4> QED BY <4>1 DEF WaitingFor
    <3> QED BY <1>1, <1>3, <1>5, <1>14, <3>1, <3>2
  <2>2. no = FALSE
    BY <1>3, <1>4, <1>5, <1>14 DEF CatalogueLost
  <2>3. r = At(run, s, "observing", "none", waiting, ok, NoPlan, {}, <<>>)
    BY <1>14 DEF SkuRun, Planless
  <2>4. q = At(run', s, "observing", "none", waiting \ {w}, no, NoPlan, {},
               <<>>)
    BY <1>3, <1>14, <2>1 DEF SkuRun, Planless
  <2> HIDE DEF r, q, waiting, ok, no
  <2>5. /\ IsFleetRun(r) /\ r.stage = "observing" /\ r.outcome = "none"
        /\ r.waiting = waiting /\ r.ok = ok /\ r.obs = run.obs[s]
        /\ r.known = Unreflected(run.observed)
        /\ r.histories = run.histories[s] /\ r.queried = AskedOf(run, s)
        /\ r.plan = NoPlan /\ r.todo = {} /\ r.checked = <<>>
    BY <2>3, AtIsAFleetRun
  <2>6. /\ IsFleetRun(q) /\ q.stage = "observing" /\ q.outcome = "none"
        /\ q.waiting = waiting \ {w} /\ q.ok = no /\ q.obs = run'.obs[s]
        /\ q.known = Unreflected(run'.observed)
        /\ q.histories = run'.histories[s] /\ q.queried = AskedOf(run', s)
        /\ q.plan = NoPlan /\ q.todo = {} /\ q.checked = <<>>
    BY <2>4, AtIsAFleetRun
  <2>7. SameBut(q, r, {"waiting", "ok"})
    <3>1. /\ q.stage = r.stage /\ q.outcome = r.outcome /\ q.obs = r.obs
          /\ q.known = r.known /\ q.histories = r.histories
          /\ q.queried = r.queried /\ q.plan = r.plan /\ q.todo = r.todo
          /\ q.checked = r.checked
      BY <1>3, <1>12, <2>5, <2>6
    <3> QED BY <3>1 DEF SameBut, FleetFields
  <2>8. q.ok = (r.ok /\ r.stage # "observing")
    BY <2>2, <2>5, <2>6
  <2>9. LossesOf(s)' = LossesOf(s) + 1
    BY <1>5, <1>7, <1>14
  <2> QED BY <1>8, <1>9, <1>10, <2>1, <2>5, <2>6, <2>7, <2>8, <2>9, LosesOneRead
          DEF r, q
<1>15. ASSUME run.status # "observing", s # t PROVE Goes(s)
  <2>1. WaitingFor(run', s) = WaitingFor(run, s)
    BY <1>3, <1>15 DEF WaitingFor
  <2>2. SameOf(run', run, s)
    BY <1>3, <2>1 DEF SameOf
  <2>3. LossesOf(s)' = LossesOf(s)
    <3>1. t # NoSku
      BY <1>2, <1>5, <1>15, AgentRunAssumption
         DEF Conflicts, SoundRun, WhoseTurn, InHand, WhatWasWritten,
             WhatWasDecided
    <3> QED BY <1>7, <1>15, <3>1
  <2> QED BY <1>2, <1>3, <1>5, <1>9, <1>11, <1>15, <2>2, <2>3, StandsBy
          DEF Later
<1>16. ASSUME run.status \in {"investigating", "verifying"}, s = t PROVE Goes(s)
  <2> DEFINE waiting == WaitingFor(run, s)
             stage == run.status
             plan == IF stage = "verifying" THEN run.plans[s] ELSE NoPlan
             todo == IF stage = "verifying" THEN run.todo ELSE {}
             seen == IF stage = "verifying" THEN run.checked[s] ELSE <<>>
             ok == stage = "verifying" => s \notin run.failed
  <2>1. WaitingFor(run', s) = waiting \ {w} /\ w \in waiting
    <3>1. \A v : v \in waiting <=> <<v, s>> \in run.waiting
      <4>1. \A d \in run.waiting : d = <<d[1], d[2]>>
        BY <1>2, <1>16 DEF SoundRun, WhatWasRead, Awaited
      <4> QED BY <4>1 DEF WaitingFor
    <3>2. \A v : v \in WaitingFor(run', s) <=> <<v, s>> \in run'.waiting
      <4>1. \A d \in run'.waiting : d = <<d[1], d[2]>>
        BY <1>3, <1>11, <1>16 DEF SoundRun, WhatWasRead, Awaited
      <4> QED BY <4>1 DEF WaitingFor
    <3> QED BY <1>1, <1>3, <1>16, <3>1, <3>2
  <2>2. /\ r = At(run, s, stage, "none", waiting, ok, plan, todo, seen)
        /\ q = At(run', s, stage, "none", waiting \ {w}, ok, plan, todo, seen)
    <3>1. CASE stage = "investigating"
      <4>1. /\ s \in Conflicts(run) /\ run.version # 1
            /\ run.decisions[s].outcome = "INVESTIGATE"
        <5>1. s \in Conflicts(run)
          BY <1>5, <1>16, <3>1
        <5>2. w \in AskedOf(run, s)
          BY <1>1, <1>2, <1>16, <3>1 DEF SoundRun, Awaited, AskedOf
        <5> QED BY <1>2, <3>1, <5>1, <5>2 DEF SoundRun, WhatWasDecided, Undecided
      <4>2. /\ r = Planless(run, s, "investigating", "none", waiting, TRUE)
            /\ q = Planless(run', s, "investigating", "none", waiting \ {w}, TRUE)
        BY <1>3, <1>13, <2>1, <3>1, <4>1 DEF SkuRun
      <4>3. plan = NoPlan /\ todo = {} /\ seen = <<>> /\ ok = TRUE
        BY <3>1
      <4> HIDE DEF r, q, plan, todo, seen, ok, waiting
      <4> QED BY <3>1, <4>2, <4>3 DEF Planless
    <3>2. CASE stage = "verifying"
      <4>1. plan = run.plans[s] /\ todo = run.todo /\ seen = run.checked[s]
            /\ ok = (s \notin run.failed) /\ (s \notin run'.failed) = ok
        BY <1>3, <3>2
      <4>2. s = run.current /\ s = run'.current
        BY <1>3, <1>5, <1>16, <3>2
      <4>3. r = At(run, s, run.status, "none", WaitingFor(run, s),
                   s \notin run.failed, run.plans[s], run.todo, run.checked[s])
        BY <1>2, <3>2, <4>2, RunInHand
      <4>4. q = At(run', s, run'.status, "none", WaitingFor(run', s),
                   s \notin run'.failed, run'.plans[s], run'.todo,
                   run'.checked[s])
        BY <1>3, <1>11, <3>2, <4>2, RunInHand
      <4> HIDE DEF r, q, plan, todo, seen, ok
      <4> QED BY <1>3, <2>1, <3>2, <4>1, <4>3, <4>4
    <3> QED BY <1>16, <3>1, <3>2
  <2>3. ok \in BOOLEAN /\ stage \in {"investigating", "verifying"}
    BY <1>16
  <2> HIDE DEF r, q, waiting, ok, plan, todo, seen, stage
  <2>5. /\ IsFleetRun(r) /\ r.stage = stage /\ r.outcome = "none"
        /\ r.waiting = waiting /\ r.ok = ok /\ r.obs = run.obs[s]
        /\ r.known = Unreflected(run.observed)
        /\ r.histories = run.histories[s] /\ r.queried = AskedOf(run, s)
        /\ r.plan = plan /\ r.todo = todo /\ r.checked = seen
    <3>1. r = At(run, s, stage, "none", waiting, ok, plan, todo, seen)
      BY <2>2
    <3> QED BY <3>1, AtIsAFleetRun
  <2>6. /\ IsFleetRun(q) /\ q.stage = stage /\ q.outcome = "none"
        /\ q.waiting = waiting \ {w} /\ q.ok = ok /\ q.obs = run'.obs[s]
        /\ q.known = Unreflected(run'.observed)
        /\ q.histories = run'.histories[s] /\ q.queried = AskedOf(run', s)
        /\ q.plan = plan /\ q.todo = todo /\ q.checked = seen
    <3>1. q = At(run', s, stage, "none", waiting \ {w}, ok, plan, todo, seen)
      BY <2>2
    <3> QED BY <3>1, AtIsAFleetRun
  <2>7. SameBut(q, r, {"waiting", "ok"})
    <3>1. /\ q.stage = r.stage /\ q.outcome = r.outcome /\ q.obs = r.obs
          /\ q.known = r.known /\ q.histories = r.histories
          /\ q.queried = r.queried /\ q.plan = r.plan /\ q.todo = r.todo
          /\ q.checked = r.checked
      BY <1>3, <1>12, <2>5, <2>6
    <3> QED BY <3>1 DEF SameBut, FleetFields
  <2>8. q.ok = (r.ok /\ r.stage # "observing")
    <3>1. r.stage # "observing"
      BY <2>3, <2>5
    <3> QED BY <2>3, <2>5, <2>6, <3>1
  <2>9. LossesOf(s)' = LossesOf(s) + 1
    BY <1>7, <1>16
  <2> QED BY <1>8, <1>9, <1>10, <2>1, <2>3, <2>5, <2>6, <2>7, <2>8, <2>9,
             LosesOneRead DEF r, q
<1> QED BY <1>5, <1>14, <1>15, <1>16

-----------------------------------------------------------------------------
(* What becomes of a SKU when its decision is made                         *)

(* Nothing has been written of the plan for s.                             *)
Fresh(r, s) ==
  s \in DOMAIN r.plans =>
    /\ r.status = "executing" /\ r.current = s
    /\ r.todo = PlanFor(r, s).targets /\ r.checked[s] = <<>>

LEMMA FreshAfterLoop ==
  ASSUME NEW n, Between(n), NEW q, FieldsAfterLoop(q, n),
         NEW s, s \notin DOMAIN n.resolutions
  PROVE  Fresh(q, s) /\ (s \in DOMAIN q.plans => s = q.current)
<1>1. s \notin DOMAIN n.plans
  BY DEF Between
<1>2. PlanFor(q, s) = PlanFor(n, s)
  BY SamePlan DEF FieldsAfterLoop
<1>3. CASE Ready(n) = {}
  BY <1>1, <1>3 DEF FieldsAfterLoop, Fresh
<1>4. CASE Ready(n) # {}
  <2> DEFINE u == q.current
             plans == n.plans
             checked == n.checked
             plan == PlanFor(n, u)
  <2>1. /\ q.plans = With(plans, u, plan) /\ q.checked = With(checked, u, <<>>)
        /\ q.status = "executing" /\ q.todo = PlanFor(n, u).targets
    BY <1>4 DEF FieldsAfterLoop
  <2> HIDE DEF u, plans, checked, plan
  <2>2. DOMAIN q.plans = DOMAIN plans \cup {u} /\ q.checked[u] = <<>>
    BY <2>1 DEF With
  <2> QED BY <1>1, <1>2, <2>1, <2>2 DEF Fresh, u, plans
<1> QED BY <1>3, <1>4

LEMMA RunOfDecided ==
  ASSUME NEW r, SoundRun(r), r.status \in Later, r.version # 1,
         NEW s \in Conflicts(r), r.decisions[s].outcome # "INVESTIGATE",
         Fresh(r, s)
  PROVE  LET plan == PlanFor(r, s)
         IN  SkuRun(r, s) =
               IF Executable(r, s)
               THEN At(r, s, "executing", "none", {}, TRUE, plan, plan.targets,
                       <<>>)
               ELSE Planless(r, s, "finished", Unwritten(r.decisions[s]), {},
                             TRUE)
<1> DEFINE plan == PlanFor(r, s)
<1>1. CASE ~Executable(r, s)
  BY <1>1 DEF SkuRun, Later
<1>2. CASE Executable(r, s)
  <2>1. SkuRun(r, s) = Writing(r, s)
    BY <1>2 DEF SkuRun, Later
  <2>2. CASE s \notin DOMAIN r.plans
    <3>1. Writing(r, s) = At(r, s, "executing", "none", {}, TRUE, plan,
                             plan.targets, <<>>)
      BY <2>2 DEF Writing
    <3> QED BY <1>2, <2>1, <3>1
  <2>3. CASE s \in DOMAIN r.plans
    <3>1. /\ r.status = "executing" /\ r.current = s
          /\ r.todo = plan.targets /\ r.checked[s] = <<>>
      BY <2>3 DEF Fresh
    <3>2. r.waiting = {} /\ r.plans[s] = plan /\ s \notin r.failed
      BY <2>3, <3>1 DEF SoundRun, Awaited, WhoseTurn, WhatWasWritten
    <3> DEFINE ok == s \notin r.failed
               waiting == WaitingFor(r, s)
    <3>3. SkuRun(r, s) = At(r, s, r.status, "none", waiting, ok, r.plans[s],
                            r.todo, r.checked[s])
      BY <3>1, RunInHand
    <3>4. waiting = {} /\ ok = TRUE
      BY <3>2 DEF WaitingFor
    <3> DEFINE q == SkuRun(r, s)
               todo == plan.targets
    <3>5. r.todo = todo
      BY <3>1
    <3> HIDE DEF q, ok, waiting, plan, todo
    <3>6. q = At(r, s, "executing", "none", {}, ok, plan, todo, <<>>)
      BY <3>1, <3>2, <3>3, <3>4, <3>5 DEF q
    <3>7. q = At(r, s, "executing", "none", {}, TRUE, plan, todo, <<>>)
      BY <3>4, <3>6, Zenon
    <3> QED BY <1>2, <3>7 DEF q, todo, plan
  <2> QED BY <2>2, <2>3
<1> QED BY <1>1, <1>2

(* The fields of the fleet run of a SKU before it is decided               *)
Undisposed(p, r, s) ==
  /\ IsFleetRun(p) /\ p.outcome = "none" /\ p.waiting = {} /\ p.ok = TRUE
  /\ p.obs = r.obs[s] /\ p.known = Unreflected(r.observed)
  /\ p.histories = r.histories[s] /\ p.queried = AskedOf(r, s)
  /\ p.plan = NoPlan /\ p.todo = {} /\ p.checked = <<>>

LEMMA ConcludesAsDecided ==
  ASSUME NEW r, SoundRun(r), r.status \in Later, r.version # 1,
         NEW s \in Conflicts(r), NEW d, d = r.decisions[s],
         d.outcome # "INVESTIGATE", Fresh(r, s), NEW p, Undisposed(p, r, s)
  PROVE  SkuRun(r, s) = Concludes(p, d)
<1> DEFINE plan == PlanFor(r, s)
           q == SkuRun(r, s)
<1>1. plan = ReconciliationPlan(d, p.obs)
  BY DEF PlanFor, Undisposed
<1>2. Executable(r, s) <=> /\ d.outcome = "RECONCILE" /\ plan.targets # {}
                           /\ SafePlan(plan, d, p.obs)
  BY DEF Executable, Undisposed
<1>3. q = IF Executable(r, s)
          THEN At(r, s, "executing", "none", {}, TRUE, plan, plan.targets, <<>>)
          ELSE Planless(r, s, "finished", Unwritten(d), {}, TRUE)
  BY RunOfDecided
<1> DEFINE todo == plan.targets
           end == Unwritten(d)
           yes == TRUE
<1> HIDE DEF plan, q, todo, end, yes
<1>4. CASE Executable(r, s)
  <2>1. q = At(r, s, "executing", "none", {}, yes, plan, todo, <<>>)
    BY <1>3, <1>4 DEF yes, todo
  <2>2. /\ IsFleetRun(q) /\ q.stage = "executing" /\ q.outcome = "none"
        /\ q.waiting = {} /\ q.ok = yes /\ q.obs = r.obs[s]
        /\ q.known = Unreflected(r.observed)
        /\ q.histories = r.histories[s] /\ q.queried = AskedOf(r, s)
        /\ q.plan = plan /\ q.todo = todo /\ q.checked = <<>>
    BY <2>1, AtIsAFleetRun
  <2>3. SameBut(q, p, {"stage", "plan", "todo"})
    <3>1. /\ q.outcome = p.outcome /\ q.waiting = p.waiting /\ q.ok = p.ok
          /\ q.obs = p.obs /\ q.known = p.known /\ q.histories = p.histories
          /\ q.queried = p.queried /\ q.checked = p.checked
      BY <2>2 DEF Undisposed, yes
    <3> QED BY <3>1 DEF SameBut, FleetFields
  <2>4. q = [p EXCEPT !.stage = q.stage, !.plan = q.plan, !.todo = q.todo]
    BY <2>2, <2>3, FleetRunChanges DEF Undisposed
  <2>5. q = [p EXCEPT !.stage = "executing", !.plan = plan, !.todo = plan.targets]
    BY <2>2, <2>4 DEF todo
  <2> QED BY <1>1, <1>2, <1>4, <2>5 DEF Concludes, q
<1>5. CASE ~Executable(r, s)
  <2>1. q = At(r, s, "finished", end, {}, yes, NoPlan, {}, <<>>)
    BY <1>3, <1>5 DEF yes, end, Planless
  <2>2. /\ IsFleetRun(q) /\ q.stage = "finished" /\ q.outcome = end
        /\ q.waiting = {} /\ q.ok = yes /\ q.obs = r.obs[s]
        /\ q.known = Unreflected(r.observed)
        /\ q.histories = r.histories[s] /\ q.queried = AskedOf(r, s)
        /\ q.plan = NoPlan /\ q.todo = {} /\ q.checked = <<>>
    BY <2>1, AtIsAFleetRun
  <2>3. SameBut(q, p, {"stage", "outcome", "waiting"})
    <3>1. /\ q.ok = p.ok /\ q.obs = p.obs /\ q.known = p.known
          /\ q.histories = p.histories /\ q.queried = p.queried
          /\ q.plan = p.plan /\ q.todo = p.todo /\ q.checked = p.checked
      BY <2>2 DEF Undisposed, yes
    <3> QED BY <3>1 DEF SameBut, FleetFields
  <2>4. q = [p EXCEPT !.stage = q.stage, !.outcome = q.outcome,
                      !.waiting = q.waiting]
    BY <2>2, <2>3, FleetRunChanges DEF Undisposed
  <2>5. q = Ends(p, end)
    BY <2>2, <2>4 DEF Ends
  <2>6. Concludes(p, d) = Ends(p, end)
    BY <1>1, <1>2, <1>5 DEF Concludes, end, Unwritten
  <2> QED BY <2>5, <2>6 DEF q
<1> QED BY <1>4, <1>5

LEMMA EndsAs ==
  ASSUME NEW p, IsFleetRun(p), NEW q, IsFleetRun(q),
         q.stage = "finished", q.waiting = {},
         SameBut(q, p, {"stage", "outcome", "waiting"})
  PROVE  q = Ends(p, q.outcome)
BY FleetRunChanges DEF Ends

(* Whose history an analysis asks for *)
LEMMA AskedAbout ==
  ASSUME NEW r, WhatWasRead(r), \A t \in Sku : DOMAIN r.histories[t] = {},
         NEW s \in Conflicts(r), NEW asked, asked = AskedBy(r, Decisions(r))
  PROVE  LET e == EvidenceOf(r, s)
             plan == InvestigationPlan(Decide(e), e)
         IN  /\ Decisions(r)[s] = Decide(e)
             /\ plan = {w \in Warehouse : <<w, s>> \in asked}
             /\ Decide(e).outcome = "INVESTIGATE" => asked # {}
<1> DEFINE e == EvidenceOf(r, s)
           plan == InvestigationPlan(Decide(e), e)
<1>1. Decisions(r)[s] = Decide(e)
  BY DEF Decisions
<1>2. /\ plan \subseteq DOMAIN r.obs[s]
      /\ Decide(e).outcome = "INVESTIGATE" <=> plan # {}
  BY <1>1, FirstDecisions
<1>3. DOMAIN r.obs[s] \subseteq Warehouse
  BY PartialFunctions DEF WhatWasRead, Conflicts
<1>4. \A w : <<w, s>> \in asked <=> w \in Warehouse /\ w \in plan
  BY <1>1 DEF AskedBy
<1> HIDE DEF plan
<1>5. plan = {w \in Warehouse : <<w, s>> \in asked}
  BY <1>2, <1>3, <1>4
<1> QED BY <1>1, <1>2, <1>5 DEF plan

LEMMA JustDecidedIsFresh ==
  ASSUME NEW n, JustDecided(n), NEW q, q = Decided(n), NEW s
  PROVE  Fresh(q, s)
<1>1. CASE n.version = 2
  BY <1>1, DecidedChanges DEF Fresh
<1>2. CASE n.version = 3
  <2>1. Between(n)
    BY <1>2 DEF JustDecided, Between
  <2>2. FieldsAfterLoop(q, n)
    BY <1>2, DecidedChanges
  <2>3. s \notin DOMAIN n.resolutions
    BY DEF JustDecided
  <2> QED BY <2>1, <2>2, <2>3, FreshAfterLoop
<1> QED BY <1>1, <1>2 DEF JustDecided

LEMMA AnalysisGoes ==
  ASSUME RefinementInvariant, Analyse, NEW s \in Sku
  PROVE  Goes(s)
<1> DEFINE asked == AskedBy(run, Decisions(run))
<1>1. /\ run.status = "observing" /\ run.waiting = {}
      /\ run' = Analysis(run, Decisions(run))
      /\ UNCHANGED <<shelf, clock, late, losses>>
  BY DEF Analyse, world
<1>2. SoundRun(run) /\ Traced(run) /\ Catalogued(run) /\ Catalogues
  BY DEF RefinementInvariant, RunInvariant
<1>3. /\ ReadTheSame(run', run) /\ run'.failed = {}
      /\ run.observed # Warehouse => run'.status = "failed" /\ run'.asked = {}
      /\ run.observed = Warehouse /\ run.version = 1 =>
           run'.status = "completed" /\ run'.asked = {}
      /\ run.observed = Warehouse /\ run.version # 1 /\ asked # {} =>
           /\ run'.status = "investigating" /\ run'.waiting = asked
           /\ run'.asked = asked /\ run'.decisions = Decisions(run)
           /\ DOMAIN run'.plans = {}
      /\ run.observed = Warehouse /\ run.version # 1 /\ asked = {} =>
           \E n : /\ JustDecided(n) /\ run' = Decided(n) /\ ReadTheSame(n, run)
                  /\ n.asked = {} /\ n.decisions = Decisions(run)
  BY <1>1, <1>2, AnalysisCases
<1> HIDE DEF asked
<1>4. /\ run'.version = run.version /\ run'.observed = run.observed
      /\ run'.obs = run.obs /\ run'.histories = run.histories
      /\ LostCalls(run') = LostCalls(run) /\ Conflicts(run') = Conflicts(run)
  BY <1>3 DEF ReadTheSame, LostCalls, Conflicts
<1>5. LossesOf(s)' = LossesOf(s)
  BY <1>4, LossesStay
<1>6. Stands(s)
  BY <1>1, <1>4, WorldStands
<1>7. SoundRun(run')
  BY AnalysisStep DEF RefinementInvariant, RunInvariant
<1>8. run'.status # "starting"
  BY <1>3, DecidedChanges
<1>9. RunsOf(run)' = RunsOf(run)
  BY <1>1, <1>8, RunsStay
<1>10. /\ \A t \in Sku : DOMAIN run.histories[t] = {}
       /\ AskedOf(run, s) = {} /\ WhatWasRead(run)
  BY <1>1, <1>2, ObservingDecidesNothing DEF Undecided, SoundRun
<1> DEFINE r == SkuRun(run, s)
           q == SkuRun(run', s)
           ok == ~CatalogueLost(run)
           e == EvidenceOf(run, s)
           yes == TRUE
           no == FALSE
<1>11. r = At(run, s, "observing", "none", {}, ok, NoPlan, {}, <<>>)
  <2>1. WaitingFor(run, NoSku) = {}
    BY <1>1 DEF WaitingFor
  <2> QED BY <1>1, <2>1 DEF SkuRun, Planless
<1> HIDE DEF r, q, ok, e, yes, no
<1>13. /\ IsFleetRun(r) /\ r.stage = "observing" /\ r.outcome = "none"
       /\ r.waiting = {} /\ r.ok = ok /\ r.obs = run.obs[s]
       /\ r.known = Unreflected(run.observed)
       /\ r.histories = run.histories[s] /\ r.queried = AskedOf(run, s)
       /\ r.plan = NoPlan /\ r.todo = {} /\ r.checked = <<>>
  BY <1>11, AtIsAFleetRun
<1>14. e = ReadBy(r)
  BY <1>13 DEF ReadBy, EvidenceOf, e
<1>15. CASE run.observed # Warehouse
  <2>1. PICK w \in Warehouse : LostTo(run, w)
    BY <1>1, <1>2, <1>15 DEF Catalogued, SoundRun, WhatWasRead
  <2>2. ok = no
    <3>1. PICK c \in LostCalls(run) : c.purpose = "catalogue" /\ c.to = w
      BY <2>1 DEF LostTo, LostCalls
    <3>2. c.sku = NoSku
      BY <1>1, <1>2, LostBeforeAnalysis
    <3>3. CatalogueLost(run)
      BY <3>2 DEF CatalogueLost, LostCalls
    <3> QED BY <3>3 DEF ok, no
  <2>3. q = At(run', s, "finished", "FAILED", {}, no, NoPlan, {}, <<>>)
    BY <1>3, <1>15 DEF q, no, SkuRun, Planless
  <2>4. /\ IsFleetRun(q) /\ q.stage = "finished" /\ q.outcome = "FAILED"
        /\ q.waiting = {} /\ q.ok = no /\ q.obs = run'.obs[s]
        /\ q.known = Unreflected(run'.observed)
        /\ q.histories = run'.histories[s] /\ q.queried = AskedOf(run', s)
        /\ q.plan = NoPlan /\ q.todo = {} /\ q.checked = <<>>
    BY <2>3, AtIsAFleetRun
  <2>5. AskedOf(run', s) = {}
    BY <1>3, <1>15 DEF AskedOf
  <2>6. SameBut(q, r, {"stage", "outcome", "waiting"})
    <3>1. /\ q.ok = r.ok /\ q.obs = r.obs /\ q.known = r.known
          /\ q.histories = r.histories /\ q.queried = r.queried
          /\ q.plan = r.plan /\ q.todo = r.todo /\ q.checked = r.checked
      BY <1>4, <1>10, <1>13, <2>2, <2>4, <2>5
    <3> QED BY <3>1 DEF SameBut, FleetFields
  <2>7. q = Ends(r, "FAILED")
    BY <1>13, <2>4, <2>6, EndsAs
  <2>8. ~r.ok
    BY <1>13, <2>2 DEF no
  <2> QED BY <1>5, <1>6, <1>9, <1>13, <1>14, <2>7, <2>8, Analyses DEF r, q
<1>16. CASE run.observed = Warehouse
  <2>1. ok = yes
    BY <1>1, <1>2, <1>16, NothingLostAtAnalysis
       DEF CatalogueLost, LostCalls, ok, yes
  <2>2. r.ok
    BY <1>13, <2>1 DEF yes
  <2>3. s \in Conflicts(run) <=> Conflict(r.obs)
    <3>1. DOMAIN run.obs[s] # {}
      BY <1>1, <1>2, <1>16 DEF Catalogues
    <3> QED BY <1>13, <3>1 DEF Conflicts
  <2>4. run'.status \in Later /\ run'.status # "failed"
    BY <1>3, <1>16, DecidedChanges DEF Later
  <2>5. CASE s \notin Conflicts(run)
    <3>1. q = At(run', s, "finished", "CONSISTENT", {}, yes, NoPlan, {}, <<>>)
      BY <1>4, <2>4, <2>5 DEF q, yes, SkuRun, Planless, Later
    <3>2. /\ IsFleetRun(q) /\ q.stage = "finished" /\ q.outcome = "CONSISTENT"
          /\ q.waiting = {} /\ q.ok = yes /\ q.obs = run'.obs[s]
          /\ q.known = Unreflected(run'.observed)
          /\ q.histories = run'.histories[s] /\ q.queried = AskedOf(run', s)
          /\ q.plan = NoPlan /\ q.todo = {} /\ q.checked = <<>>
      BY <3>1, AtIsAFleetRun
    <3>3. AskedOf(run', s) = {}
      <4>1. \A w : <<w, s>> \notin asked
        BY <2>5 DEF asked, AskedBy
      <4>2. run'.asked = {} \/ run'.asked = asked
        BY <1>3, <1>16, DecidedChanges
      <4> QED BY <4>1, <4>2 DEF AskedOf
    <3>4. SameBut(q, r, {"stage", "outcome", "waiting"})
      <4>1. /\ q.ok = r.ok /\ q.obs = r.obs /\ q.known = r.known
            /\ q.histories = r.histories /\ q.queried = r.queried
            /\ q.plan = r.plan /\ q.todo = r.todo /\ q.checked = r.checked
        BY <1>4, <1>10, <1>13, <2>1, <3>2, <3>3
      <4> QED BY <4>1 DEF SameBut, FleetFields
    <3>5. q = Ends(r, "CONSISTENT")
      BY <1>13, <3>2, <3>4, EndsAs
    <3> QED BY <1>5, <1>6, <1>9, <1>13, <1>14, <2>2, <2>3, <2>5, <3>5, Analyses
            DEF r, q
  <2>6. CASE s \in Conflicts(run) /\ run.version = 1
    <3>1. q = At(run', s, "observing", "none", {}, yes, NoPlan, {}, <<>>)
      BY <1>4, <2>4, <2>6 DEF q, yes, SkuRun, Planless, Later
    <3>2. AskedOf(run', s) = AskedOf(run, s)
      BY <1>3, <1>10, <1>16, <2>6 DEF AskedOf
    <3>3. q = r
      BY <1>4, <1>11, <2>1, <3>1, <3>2 DEF At
    <3> QED BY <1>5, <1>6, <1>9, <3>3, StandsStill DEF r, q
  <2>7. CASE s \in Conflicts(run) /\ run.version # 1
    <3> DEFINE d == Decide(e)
               plan == InvestigationPlan(d, e)
    <3>1. /\ Decisions(run)[s] = d
          /\ plan = {w \in Warehouse : <<w, s>> \in asked}
          /\ d.outcome = "INVESTIGATE" => asked # {}
      BY <1>10, <2>7, AskedAbout DEF asked, e
    <3>2. run'.decisions = Decisions(run)
      BY <1>3, <1>16, <2>7, DecidedChanges
    <3> HIDE DEF d, plan
    <3>3. CASE d.outcome = "INVESTIGATE"
      <4>1. /\ run'.status = "investigating" /\ run'.waiting = asked
            /\ run'.asked = asked
        BY <1>3, <1>16, <2>7, <3>1, <3>3
      <4>2. AskedOf(run', s) = plan
        BY <3>1, <4>1 DEF AskedOf
      <4>3. WaitingFor(run', s) = plan
        <5>1. \A c \in asked : c = <<c[1], c[2]>> /\ c[1] \in Warehouse
          BY DEF asked, AskedBy
        <5> QED BY <3>1, <4>1, <5>1 DEF WaitingFor
      <4>4. q = At(run', s, "investigating", "none", plan, yes, NoPlan, {}, <<>>)
        <5>1. s \in Conflicts(run') /\ run'.version # 1
              /\ run'.decisions[s].outcome = "INVESTIGATE"
          BY <1>4, <2>7, <3>1, <3>2, <3>3
        <5> QED BY <4>1, <4>3, <5>1 DEF q, yes, SkuRun, Planless
      <4>5. /\ IsFleetRun(q) /\ q.stage = "investigating" /\ q.outcome = "none"
            /\ q.waiting = plan /\ q.ok = yes /\ q.obs = run'.obs[s]
            /\ q.known = Unreflected(run'.observed)
            /\ q.histories = run'.histories[s] /\ q.queried = AskedOf(run', s)
            /\ q.plan = NoPlan /\ q.todo = {} /\ q.checked = <<>>
        BY <4>4, AtIsAFleetRun
      <4>6. SameBut(q, r, {"stage", "waiting", "queried"})
        <5>1. /\ q.outcome = r.outcome /\ q.ok = r.ok /\ q.obs = r.obs
              /\ q.known = r.known /\ q.histories = r.histories
              /\ q.plan = r.plan /\ q.todo = r.todo /\ q.checked = r.checked
          BY <1>4, <1>13, <2>1, <4>5
        <5> QED BY <5>1 DEF SameBut, FleetFields
      <4>7. q = [r EXCEPT !.stage = q.stage, !.waiting = q.waiting,
                          !.queried = q.queried]
        BY <1>13, <4>5, <4>6, FleetRunChanges
      <4>8. q = Investigates(r, plan)
        BY <4>2, <4>5, <4>7 DEF Investigates
      <4> QED BY <1>5, <1>6, <1>9, <1>13, <1>14, <2>2, <2>3, <2>7, <3>3, <4>8,
                 Analyses DEF r, q, plan, d
    <3>4. CASE d.outcome # "INVESTIGATE"
      <4>1. Fresh(run', s) /\ AskedOf(run', s) = {}
        <5>1. CASE asked # {}
          <6>1. DOMAIN run'.plans = {} /\ run'.asked = asked
            BY <1>3, <1>16, <2>7, <5>1
          <6>2. plan = {}
            BY <3>4 DEF plan, InvestigationPlan
          <6> QED BY <3>1, <6>1, <6>2 DEF Fresh, AskedOf
        <5>2. CASE asked = {}
          <6>1. PICK n : /\ JustDecided(n) /\ run' = Decided(n) /\ ReadTheSame(n, run)
                         /\ n.asked = {} /\ n.decisions = Decisions(run)
            BY <1>3, <1>16, <2>7, <5>2
          <6>2. Fresh(run', s)
            BY <6>1, JustDecidedIsFresh
          <6>3. run'.asked = {}
            BY <6>1, DecidedChanges
          <6> QED BY <6>2, <6>3 DEF AskedOf
        <5> QED BY <5>1, <5>2
      <4>2. Undisposed(r, run', s)
        BY <1>4, <1>10, <1>13, <2>1, <4>1 DEF Undisposed, yes
      <4>3. s \in Conflicts(run') /\ run'.version # 1 /\ run'.decisions[s] = d
        BY <1>4, <2>7, <3>1, <3>2
      <4>4. q = Concludes(r, d)
        BY <1>7, <2>4, <3>4, <4>1, <4>2, <4>3, ConcludesAsDecided DEF q
      <4> QED BY <1>5, <1>6, <1>9, <1>13, <1>14, <2>2, <2>3, <2>7, <3>4, <4>4,
                 Analyses DEF r, q, plan, d
    <3> QED BY <3>3, <3>4
  <2> QED BY <2>5, <2>6, <2>7
<1> QED BY <1>15, <1>16

(* Runs that have read the same look the same for s.                       *)
LEMMA SameReadings ==
  ASSUME NEW r, NEW q, ReadTheSame(q, r), NEW s, AskedOf(q, s) = AskedOf(r, s)
  PROVE  /\ \A a, b, c, d, e, f, g : At(q, s, a, b, c, d, e, f, g) =
                                     At(r, s, a, b, c, d, e, f, g)
         /\ \A a, b, c, d : Planless(q, s, a, b, c, d) =
                            Planless(r, s, a, b, c, d)
<1>1. \A a, b, c, d, e, f, g : At(q, s, a, b, c, d, e, f, g) =
                               At(r, s, a, b, c, d, e, f, g)
  BY DEF At, ReadTheSame
<1> QED BY <1>1 DEF Planless

LEMMA SameWhenDecided ==
  ASSUME NEW r, SoundRun(r), r.status \in Later, r.version # 1,
         NEW q, SoundRun(q), q.status \in Later, ReadTheSame(q, r),
         NEW s \in Conflicts(r), AskedOf(q, s) = AskedOf(r, s),
         r.decisions[s].outcome # "INVESTIGATE",
         q.decisions[s] = r.decisions[s], Fresh(r, s), Fresh(q, s)
  PROVE  SkuRun(q, s) = SkuRun(r, s)
<1>1. s \in Conflicts(q) /\ q.version # 1
  BY DEF Conflicts, ReadTheSame
<1>2. PlanFor(q, s) = PlanFor(r, s) /\ Executable(q, s) = Executable(r, s)
  BY SamePlan DEF ReadTheSame
<1> DEFINE plan == PlanFor(r, s)
           todo == plan.targets
           end == Unwritten(r.decisions[s])
           yes == TRUE
<1>3. SkuRun(r, s) =
        IF Executable(r, s)
        THEN At(r, s, "executing", "none", {}, yes, plan, todo, <<>>)
        ELSE Planless(r, s, "finished", end, {}, yes)
  BY RunOfDecided
<1>4. SkuRun(q, s) =
        IF Executable(r, s)
        THEN At(q, s, "executing", "none", {}, yes, plan, todo, <<>>)
        ELSE Planless(q, s, "finished", end, {}, yes)
  BY <1>1, <1>2, RunOfDecided
<1> HIDE DEF plan, todo, end, yes
<1> QED BY <1>3, <1>4, SameReadings

LEMMA ReassessmentGoes ==
  ASSUME RefinementInvariant, Reassess, NEW s \in Sku
  PROVE  Goes(s)
<1> DEFINE n == [run EXCEPT !.decisions = Reassessments(run)]
<1>1. /\ run.status = "investigating" /\ run.waiting = {}
      /\ run' = Decided(n)
      /\ UNCHANGED <<shelf, clock, late, losses>>
  BY DEF Reassess, world
<1>2. SoundRun(run)
  BY DEF RefinementInvariant, RunInvariant
<1>3. /\ JustDecided(n) /\ ReadTheSame(n, run) /\ n.asked = run.asked
      /\ n.decisions = Reassessments(run)
  BY <1>1, <1>2, ReassessmentCases
<1> HIDE DEF n
<1>4. /\ SoundRun(run') /\ ReadTheSame(run', n) /\ run'.asked = n.asked
      /\ run'.decisions = n.decisions
      /\ run'.status \in {"executing", "completed"}
      /\ Fresh(run', s)
  BY <1>1, <1>3, DecidedChanges, JustDecidedIsFresh
<1>5. /\ ReadTheSame(run', run) /\ run'.obs = run.obs
      /\ run'.version = run.version /\ run'.observed = run.observed
      /\ run'.histories = run.histories
      /\ LostCalls(run') = LostCalls(run) /\ Conflicts(run') = Conflicts(run)
      /\ AskedOf(run', s) = AskedOf(run, s)
  BY <1>3, <1>4 DEF ReadTheSame, LostCalls, Conflicts, AskedOf
<1>6. LossesOf(s)' = LossesOf(s)
  BY <1>5, LossesStay
<1>7. Stands(s)
  BY <1>1, <1>5, WorldStands
<1>8. RunsOf(run)' = RunsOf(run)
  BY <1>1, <1>4, RunsStay
<1>9. /\ run.version # 1 /\ run'.version # 1
      /\ run.status \in Later /\ run'.status \in Later
      /\ DOMAIN run.plans = {}
  BY <1>1, <1>2, <1>4, <1>5 DEF SoundRun, WhatWasDecided, WhatWasWritten, Later
<1> DEFINE r == SkuRun(run, s)
           q == SkuRun(run', s)
           e == EvidenceOf(run, s)
           d == Reassessed(AskedOf(run, s), e)
           yes == TRUE
<1>10. CASE s \notin Conflicts(run)
  <2>1. /\ r = Planless(run, s, "finished", "CONSISTENT", {}, yes)
        /\ q = Planless(run', s, "finished", "CONSISTENT", {}, yes)
    BY <1>1, <1>4, <1>5, <1>10 DEF SkuRun
  <2> HIDE DEF r, q, yes
  <2>2. q = r
    BY <1>5, <2>1, SameReadings
  <2> QED BY <1>6, <1>7, <1>8, <2>2, StandsStill DEF r, q
<1>11. ASSUME s \in Conflicts(run), run.decisions[s].outcome # "INVESTIGATE"
       PROVE  Goes(s)
  <2>1. s \in DOMAIN run.decisions
    BY <1>1, <1>2, <1>9, <1>11 DEF SoundRun, WhatWasDecided, Undecided
  <2>2. run'.decisions[s] = run.decisions[s]
    BY <1>3, <1>4, <1>11, <2>1 DEF Reassessments
  <2>3. Fresh(run, s)
    BY <1>9 DEF Fresh
  <2>4. q = r
    BY <1>2, <1>4, <1>5, <1>9, <1>11, <2>2, <2>3, SameWhenDecided
  <2> QED BY <1>6, <1>7, <1>8, <2>4, StandsStill
<1>12. ASSUME s \in Conflicts(run), run.decisions[s].outcome = "INVESTIGATE"
       PROVE  Goes(s)
  <2>1. s \in DOMAIN run.decisions
    BY <1>1, <1>2, <1>9, <1>12 DEF SoundRun, WhatWasDecided, Undecided
  <2>2. run'.decisions[s] = d
    BY <1>3, <1>4, <1>12, <2>1 DEF Reassessments
  <2>3. d.outcome # "INVESTIGATE"
    BY <1>3, <1>4, <1>5, <1>12, <2>2 DEF JustDecided, ReadTheSame, Conflicts
  <2>4. r = At(run, s, "investigating", "none", {}, yes, NoPlan, {}, <<>>)
    <3>1. WaitingFor(run, s) = {}
      BY <1>1 DEF WaitingFor
    <3> QED BY <1>1, <1>9, <1>12, <3>1 DEF SkuRun, Planless
  <2> HIDE DEF r, q, e, d, yes
  <2>5. /\ IsFleetRun(r) /\ r.stage = "investigating" /\ r.outcome = "none"
        /\ r.waiting = {} /\ r.ok = yes /\ r.obs = run.obs[s]
        /\ r.known = Unreflected(run.observed)
        /\ r.histories = run.histories[s] /\ r.queried = AskedOf(run, s)
        /\ r.plan = NoPlan /\ r.todo = {} /\ r.checked = <<>>
    BY <2>4, AtIsAFleetRun
  <2>6. Undisposed(r, run', s)
    BY <1>5, <2>5 DEF Undisposed, yes
  <2>7. s \in Conflicts(run')
    BY <1>5, <1>12
  <2>8. q = Concludes(r, d)
    BY <1>4, <1>9, <2>2, <2>3, <2>6, <2>7, ConcludesAsDecided DEF q
  <2>9. e = ReadBy(r) /\ d = Reassessed(r.queried, e)
    BY <2>5 DEF ReadBy, EvidenceOf, e, d
  <2> QED BY <1>6, <1>7, <1>8, <2>5, <2>8, <2>9, Reassesses DEF r, q
<1> QED BY <1>10, <1>11, <1>12

(* What is written and resolved stays so in the loop over the decisions.   *)
LEMMA ResolvedStays ==
  ASSUME NEW n, Between(n), NEW q, FieldsAfterLoop(q, n),
         NEW s \in DOMAIN n.resolutions
  PROVE  /\ s \in DOMAIN q.resolutions /\ q.resolutions[s] = n.resolutions[s]
         /\ s \in DOMAIN q.plans <=> s \in DOMAIN n.plans
         /\ s \in DOMAIN n.plans => /\ q.plans[s] = n.plans[s]
                                    /\ q.checked[s] = n.checked[s]
<1>1. s \in DOMAIN q.resolutions /\ q.resolutions[s] = n.resolutions[s]
  BY DEF FieldsAfterLoop
<1>2. CASE Ready(n) = {}
  BY <1>1, <1>2 DEF FieldsAfterLoop
<1>3. CASE Ready(n) # {}
  <2> DEFINE u == q.current
             plans == n.plans
             checked == n.checked
             plan == PlanFor(n, u)
  <2>1. DOMAIN n.decisions \subseteq Sku
    BY DEF Between, Conflicts
  <2>2. u \in Ready(n)
    BY <1>3, <2>1, NextInTurn DEF FieldsAfterLoop
  <2>3. u # s /\ DOMAIN plans = DOMAIN checked
    BY <2>2 DEF Ready, Between
  <2>4. q.plans = With(plans, u, plan) /\ q.checked = With(checked, u, <<>>)
    BY <1>3 DEF FieldsAfterLoop
  <2> HIDE DEF u, plans, checked, plan
  <2>5. /\ s \in DOMAIN q.plans <=> s \in DOMAIN plans
        /\ s \in DOMAIN plans => /\ q.plans[s] = plans[s]
                                 /\ q.checked[s] = checked[s]
    BY <2>3, <2>4 DEF With
  <2> QED BY <1>1, <2>5 DEF plans, checked
<1> QED BY <1>2, <1>3

LEMMA RunOfResolved ==
  ASSUME NEW r, SoundRun(r), NEW s \in DOMAIN r.plans, s \in DOMAIN r.resolutions
  PROVE  LET end == r.resolutions[s]
             ok == s \notin r.failed
             plan == r.plans[s]
             checked == r.checked[s]
         IN  SkuRun(r, s) = At(r, s, "finished", end, {}, ok, plan, {}, checked)
<1>1. SkuRun(r, s) = Writing(r, s)
  BY RunOfPlanned
<1> QED BY <1>1 DEF Writing

LEMMA ResolutionGoes ==
  ASSUME RefinementInvariant, Resolve, NEW s \in Sku
  PROVE  Goes(s)
<1>1. /\ run.status = "verifying" /\ run.waiting = {}
      /\ run' = Resolution(run)
      /\ UNCHANGED <<shelf, clock, late, losses>>
  BY DEF Resolve, world
<1>2. SoundRun(run) /\ SoundRun(run')
  BY ResolutionStep DEF RefinementInvariant, RunInvariant
<1>3. PICK n : /\ Between(n) /\ Resolution(run) = Proceed(n)
               /\ n.version = run.version /\ n.observed = run.observed
               /\ n.obs = run.obs /\ n.asked = run.asked
               /\ n.histories = run.histories /\ n.decisions = run.decisions
               /\ n.plans = run.plans /\ n.checked = run.checked
               /\ n.failed = run.failed /\ n.calls = run.calls
               /\ n.resolutions = With(run.resolutions, run.current, Verdict(run))
  BY <1>1, <1>2, ResolutionProceeds
<1>4. FieldsAfterLoop(run', n)
  BY <1>1, <1>3, ProceedChanges DEF Between
<1>5. /\ DOMAIN n.resolutions = DOMAIN run.resolutions \cup {run.current}
      /\ n.resolutions[run.current] = Verdict(run)
      /\ \A t \in DOMAIN run.resolutions \ {run.current} :
           n.resolutions[t] = run.resolutions[t]
  <2> DEFINE f == run.resolutions
             u == run.current
             x == Verdict(run)
             g == n.resolutions
  <2>1. g = With(f, u, x)
    BY <1>3
  <2> HIDE DEF f, u, x, g
  <2>2. DOMAIN g = DOMAIN f \cup {u} /\ g[u] = x
        /\ \A t \in DOMAIN f \ {u} : g[t] = f[t]
    BY <2>1 DEF With
  <2> QED BY <2>2 DEF f, u, x, g
<1>6. /\ ReadTheSame(run', run) /\ run'.asked = run.asked
      /\ run'.decisions = run.decisions /\ run'.failed = run.failed
      /\ run'.status \in {"executing", "completed"}
  BY <1>3, <1>4 DEF FieldsAfterLoop, ReadTheSame
<1>7. /\ run'.obs = run.obs /\ run'.version = run.version
      /\ run'.observed = run.observed /\ run'.histories = run.histories
      /\ LostCalls(run') = LostCalls(run) /\ Conflicts(run') = Conflicts(run)
      /\ AskedOf(run', s) = AskedOf(run, s)
  BY <1>6 DEF ReadTheSame, LostCalls, Conflicts, AskedOf
<1>8. LossesOf(s)' = LossesOf(s)
  BY <1>7, LossesStay
<1>9. Stands(s)
  BY <1>1, <1>7, WorldStands
<1>10. RunsOf(run)' = RunsOf(run)
  BY <1>1, <1>6, RunsStay
<1>11. run.status \in Later /\ run'.status \in Later
  BY <1>1, <1>6 DEF Later
<1>12. /\ run.current \in DOMAIN run.plans \ DOMAIN run.resolutions
       /\ DOMAIN run.plans \subseteq DOMAIN run.resolutions \cup {run.current}
       /\ run.todo = {} /\ run.version = 3
  BY <1>1, <1>2 DEF SoundRun, WhoseTurn, InHand, WhatWasWritten
<1> DEFINE r == SkuRun(run, s)
           q == SkuRun(run', s)
           yes == TRUE
<1>13. CASE s \notin Conflicts(run)
  <2>1. /\ r = Planless(run, s, "finished", "CONSISTENT", {}, yes)
        /\ q = Planless(run', s, "finished", "CONSISTENT", {}, yes)
    BY <1>1, <1>6, <1>7, <1>13 DEF SkuRun
  <2> HIDE DEF r, q, yes
  <2>2. q = r
    BY <1>6, <1>7, <2>1, SameReadings
  <2> QED BY <1>8, <1>9, <1>10, <2>2, StandsStill DEF r, q
<1>14. ASSUME s \in Conflicts(run), s \notin DOMAIN run.plans PROVE Goes(s)
  <2>1. run.decisions[s].outcome # "INVESTIGATE"
    BY <1>1, <1>2, <1>12, <1>14 DEF SoundRun, WhatWasDecided, Undecided
  <2>2. Fresh(run, s)
    BY <1>14 DEF Fresh
  <2>3. Fresh(run', s)
    <3>1. CASE s \notin DOMAIN n.resolutions
      BY <1>3, <1>4, <3>1, FreshAfterLoop
    <3>2. CASE s \in DOMAIN n.resolutions
      <4>1. s \notin DOMAIN run'.plans
        BY <1>3, <1>4, <1>14, <3>2, ResolvedStays
      <4> QED BY <4>1 DEF Fresh
    <3> QED BY <3>1, <3>2
  <2>4. q = r
    BY <1>2, <1>6, <1>7, <1>11, <1>12, <1>14, <2>1, <2>2, <2>3, SameWhenDecided
  <2> QED BY <1>8, <1>9, <1>10, <2>4, StandsStill
<1>15. ASSUME s \in DOMAIN run.plans PROVE Goes(s)
  <2> DEFINE ok == s \notin run.failed
             plan == run.plans[s]
             seen == run.checked[s]
             end == n.resolutions[s]
  <2>1. s \in DOMAIN n.resolutions
    BY <1>5, <1>12, <1>15
  <2>2. /\ s \in DOMAIN run'.plans /\ s \in DOMAIN run'.resolutions
        /\ run'.resolutions[s] = end
        /\ run'.plans[s] = plan /\ run'.checked[s] = seen
    BY <1>3, <1>4, <1>15, <2>1, ResolvedStays
  <2>3. q = At(run', s, "finished", end, {}, ok, plan, {}, seen)
    <3>1. q = At(run', s, "finished", run'.resolutions[s], {},
                 s \notin run'.failed, run'.plans[s], {}, run'.checked[s])
      BY <1>2, <2>2, RunOfResolved
    <3>2. (s \notin run'.failed) = ok
      BY <1>6
    <3> HIDE DEF q, ok, plan, seen, end
    <3> QED BY <2>2, <3>1, <3>2
  <2>4. CASE s # run.current
    <3>1. s \in DOMAIN run.resolutions /\ end = run.resolutions[s]
      BY <1>5, <1>12, <1>15, <2>4
    <3>2. r = At(run, s, "finished", run.resolutions[s], {}, ok, plan, {}, seen)
      BY <1>2, <1>15, <3>1, RunOfResolved
    <3> HIDE DEF r, q, ok, plan, seen, end
    <3>3. q = r
      BY <1>6, <1>7, <2>3, <3>1, <3>2, SameReadings
    <3> QED BY <1>8, <1>9, <1>10, <3>3, StandsStill DEF r, q
  <2>5. CASE s = run.current
    <3>1. WaitingFor(run, s) = {}
      BY <1>1 DEF WaitingFor
    <3>2. r = At(run, s, "verifying", "none", {}, ok, plan, {}, seen)
      <4> DEFINE waiting == WaitingFor(run, s)
      <4>1. r = At(run, s, run.status, "none", waiting, ok, plan, run.todo, seen)
        BY <1>1, <1>2, <2>5, RunInHand
      <4> HIDE DEF r, ok, plan, seen, waiting
      <4> QED BY <1>1, <1>12, <3>1, <4>1 DEF waiting
    <3>3. end = IF ok /\ Verified([plan |-> plan, checked |-> seen])
                THEN "RESOLVED" ELSE "ESCALATED"
      BY <1>5, <2>5 DEF Verdict
    <3>4. Verified([plan |-> plan, checked |-> seen])
            <=> /\ DOMAIN seen = plan.participants
                /\ ~Several(Inventories(seen)) /\ ~Several(Versions(seen))
                /\ ~Several(Cursors(seen)) /\ ~IdentityMismatch(seen)
                /\ \A w \in DOMAIN seen : /\ seen[w].inventory = plan.inventory
                                          /\ seen[w].version = plan.version
      <4> HIDE DEF plan, seen
      <4> QED BY DEF Verified
    <3> HIDE DEF r, q, ok, plan, seen, end
    <3>5. /\ IsFleetRun(r) /\ r.stage = "verifying" /\ r.outcome = "none"
          /\ r.waiting = {} /\ r.ok = ok /\ r.obs = run.obs[s]
          /\ r.known = Unreflected(run.observed)
          /\ r.histories = run.histories[s] /\ r.queried = AskedOf(run, s)
          /\ r.plan = plan /\ r.todo = {} /\ r.checked = seen
      BY <3>2, AtIsAFleetRun
    <3>6. /\ IsFleetRun(q) /\ q.stage = "finished" /\ q.outcome = end
          /\ q.waiting = {} /\ q.ok = ok /\ q.obs = run'.obs[s]
          /\ q.known = Unreflected(run'.observed)
          /\ q.histories = run'.histories[s] /\ q.queried = AskedOf(run', s)
          /\ q.plan = plan /\ q.todo = {} /\ q.checked = seen
      BY <2>3, AtIsAFleetRun
    <3>7. SameBut(q, r, {"stage", "outcome", "waiting"})
      <4>1. /\ q.ok = r.ok /\ q.obs = r.obs /\ q.known = r.known
            /\ q.histories = r.histories /\ q.queried = r.queried
            /\ q.plan = r.plan /\ q.todo = r.todo /\ q.checked = r.checked
        BY <1>7, <3>5, <3>6
      <4> QED BY <4>1 DEF SameBut, FleetFields
    <3>8. q = Ends(r, end)
      BY <3>5, <3>6, <3>7, EndsAs
    <3>9. Verified(r) <=> Verified([plan |-> plan, checked |-> seen])
      BY <3>4, <3>5 DEF Verified
    <3>10. end = IF r.ok /\ Verified(r) THEN "RESOLVED" ELSE "ESCALATED"
      BY <3>3, <3>5, <3>9
    <3> QED BY <1>8, <1>9, <1>10, <3>5, <3>8, <3>10, ResolvesOne DEF r, q
  <2> QED BY <2>4, <2>5
<1> QED BY <1>13, <1>14, <1>15

-----------------------------------------------------------------------------
(* What becomes of a SKU when it is written                                *)

LEMMA RunAfterPut ==
  ASSUME NEW n, SoundRun(n), n.status = "executing", NEW s, s = n.current,
         NEW w, w = Min(n.todo), NEW answer, NEW m, m = Sent(n, w, answer),
         NEW r, r = SkuRun(n, s), NEW q, q = SkuRun(m, s)
  PROVE  /\ IsFleetRun(r) /\ r.stage = "executing" /\ r.todo = n.todo
         /\ r.obs = n.obs[s] /\ r.known = Unreflected(n.observed)
         /\ r.plan = n.plans[s]
         /\ q = IF answer # "ok" THEN Verifies(Fails(r))
                ELSE IF r.todo = {w} THEN Verifies(r)
                ELSE Sends(r, w)
<1> DEFINE plan == n.plans[s]
           seen == n.checked[s]
           ok == s \notin n.failed
           left == m.todo
           yes == answer = "ok"
           all == plan.participants
           no == FALSE
<1>1. /\ FieldsAfterPut(m, n, w, answer) /\ SoundRun(m)
      /\ n.waiting = {} /\ w \in n.todo
      /\ s \in DOMAIN n.plans /\ ok = TRUE
  BY SentChanges, SentIsSound, TurnOfExecution
     DEF SoundRun, Awaited, WhoseTurn
<1>2. /\ m.version = n.version /\ m.observed = n.observed /\ m.obs = n.obs
      /\ m.asked = n.asked /\ m.histories = n.histories
      /\ m.decisions = n.decisions /\ m.plans = n.plans
      /\ m.current = n.current /\ m.checked = n.checked
      /\ left = (IF yes THEN n.todo \ {w} ELSE {})
      /\ m.failed = (IF yes THEN n.failed ELSE n.failed \cup {s})
      /\ left # {} => m.status = "executing"
      /\ left = {} => m.status = "verifying" /\ m.waiting = all \X {s}
  BY <1>1 DEF FieldsAfterPut, TodoAfter, FailedAfter
<1>3. AskedOf(m, s) = AskedOf(n, s)
  BY <1>2 DEF AskedOf
<1>4. r = At(n, s, "executing", "none", {}, ok, plan, n.todo, seen)
  <2> DEFINE waiting == WaitingFor(n, s)
  <2>1. r = At(n, s, n.status, "none", waiting, ok, plan, n.todo, seen)
    BY RunInHand
  <2>2. waiting = {}
    BY <1>1 DEF WaitingFor
  <2> HIDE DEF ok, plan, seen, waiting
  <2> QED BY <2>1, <2>2
<1>5. /\ left # {} => WaitingFor(m, s) = {}
      /\ left = {} => WaitingFor(m, s) = all
  <2>1. left # {} => m.waiting = {}
    BY <1>1, <1>2 DEF SoundRun, Awaited
  <2>2. left = {} => \A v : v \in WaitingFor(m, s) <=> v \in all
    <3>1. CASE left = {}
      <4>1. \A v : v \in WaitingFor(m, s) <=> <<v, s>> \in m.waiting
        BY <1>1, <1>2, <3>1, WaitingInHand
      <4> HIDE DEF all
      <4> QED BY <1>2, <3>1, <4>1
    <3> QED BY <3>1
  <2> HIDE DEF left, all
  <2> QED BY <2>1, <2>2 DEF WaitingFor
<1>6. (s \notin m.failed) = (ok /\ yes)
  BY <1>1, <1>2
<1> DEFINE good == ok /\ yes
           kept == s \notin m.failed
           stage == IF left = {} THEN "verifying" ELSE "executing"
           waiting == IF left = {} THEN all ELSE {}
<1>7. q = At(m, s, stage, "none", waiting, good, plan, left, seen)
  <2>1. m.status \in {"executing", "verifying"} /\ s = m.current
    BY <1>2
  <2>2. q = At(m, s, m.status, "none", WaitingFor(m, s), kept,
               m.plans[s], left, m.checked[s])
    BY <1>1, <2>1, RunInHand
  <2>3. /\ m.status = stage /\ WaitingFor(m, s) = waiting
        /\ kept = good
        /\ m.plans[s] = plan /\ m.checked[s] = seen
    BY <1>2, <1>5, <1>6
  <2> HIDE DEF good, kept, stage, waiting, plan, seen, left
  <2> QED BY <2>2, <2>3
<1>8. /\ ok = TRUE /\ good = yes /\ yes \in BOOLEAN
      /\ left = (IF yes THEN n.todo \ {w} ELSE {})
      /\ stage = (IF left = {} THEN "verifying" ELSE "executing")
      /\ waiting = (IF left = {} THEN all ELSE {})
  BY <1>1, <1>2
<1>9. yes <=> answer = "ok"
  OBVIOUS
<1>10. all = plan.participants
  OBVIOUS
<1> HIDE DEF good, stage, waiting, plan, seen, ok, left, yes, all
<1>11. /\ IsFleetRun(r) /\ r.stage = "executing" /\ r.outcome = "none"
       /\ r.waiting = {} /\ r.ok = ok /\ r.obs = n.obs[s]
       /\ r.known = Unreflected(n.observed)
       /\ r.histories = n.histories[s] /\ r.queried = AskedOf(n, s)
       /\ r.plan = plan /\ r.todo = n.todo /\ r.checked = seen
  BY <1>4, AtIsAFleetRun
<1>12. /\ IsFleetRun(q) /\ q.stage = stage /\ q.outcome = "none"
       /\ q.waiting = waiting /\ q.ok = good /\ q.obs = m.obs[s]
       /\ q.known = Unreflected(m.observed)
       /\ q.histories = m.histories[s] /\ q.queried = AskedOf(m, s)
       /\ q.plan = plan /\ q.todo = left /\ q.checked = seen
  BY <1>7, AtIsAFleetRun
<1>13. /\ q.outcome = r.outcome /\ q.obs = r.obs /\ q.known = r.known
       /\ q.histories = r.histories /\ q.queried = r.queried
       /\ q.plan = r.plan /\ q.checked = r.checked
  BY <1>2, <1>3, <1>11, <1>12
<1>14. CASE ~yes
  <2>1. q = [r EXCEPT !.ok = FALSE, !.stage = "verifying",
                      !.waiting = all, !.todo = {}]
    <3>1. SameBut(q, r, {"ok", "stage", "waiting", "todo"})
      BY <1>13 DEF SameBut, FleetFields
    <3>2. q = [r EXCEPT !.ok = q.ok, !.stage = q.stage, !.waiting = q.waiting,
                        !.todo = q.todo]
      BY <1>11, <1>12, <3>1, FleetRunChanges
    <3>3. q.ok = FALSE /\ q.stage = "verifying" /\ q.waiting = all
          /\ q.todo = {}
      BY <1>8, <1>12, <1>14
    <3> QED BY <3>2, <3>3
  <2>2. q = Verifies(Fails(r))
    BY <1>10, <1>11, <2>1 DEF Verifies, Fails, IsFleetRun, FleetFields
  <2> QED BY <1>9, <1>11, <1>14, <2>2 DEF plan
<1>15. CASE yes /\ left = {}
  <2>1. SameBut(q, r, {"stage", "waiting", "todo"})
    <3>1. q.ok = r.ok
      BY <1>8, <1>11, <1>12, <1>15
    <3> QED BY <1>13, <3>1 DEF SameBut, FleetFields
  <2>2. q = [r EXCEPT !.stage = q.stage, !.waiting = q.waiting, !.todo = q.todo]
    BY <1>11, <1>12, <2>1, FleetRunChanges
  <2>3. /\ q.stage = "verifying" /\ q.waiting = r.plan.participants
        /\ q.todo = {}
    BY <1>8, <1>10, <1>11, <1>12, <1>15
  <2>4. r.todo = {w}
    <3>1. n.todo \ {w} = {} /\ w \in n.todo
      BY <1>1, <1>8, <1>15
    <3>2. n.todo = {w}
      BY <3>1
    <3> QED BY <1>11, <3>2
  <2>5. q = Verifies(r)
    BY <2>2, <2>3 DEF Verifies
  <2> QED BY <1>9, <1>11, <1>15, <2>4, <2>5 DEF plan
<1>16. CASE yes /\ left # {}
  <2>1. SameBut(q, r, {"todo"})
    <3>1. q.ok = r.ok /\ q.stage = r.stage /\ q.waiting = r.waiting
      BY <1>8, <1>11, <1>12, <1>16
    <3> QED BY <1>13, <3>1 DEF SameBut, FleetFields
  <2>2. q = [r EXCEPT !.todo = q.todo]
    BY <1>11, <1>12, <2>1, FleetRunChanges
  <2>3. q = Sends(r, w)
    BY <1>8, <1>11, <1>12, <1>16, <2>2 DEF Sends
  <2>4. r.todo # {w}
    BY <1>1, <1>8, <1>11, <1>16
  <2> QED BY <1>9, <1>11, <1>16, <2>3, <2>4 DEF plan
<1> QED BY <1>14, <1>15, <1>16

(* The other SKUs do not notice.                                           *)
LEMMA OthersAfterPut ==
  ASSUME NEW n, SoundRun(n), n.status = "executing", NEW w, NEW answer,
         NEW m, m = Sent(n, w, answer), NEW s, s # n.current
  PROVE  /\ SameOf(m, n, s) /\ SoundRun(m) /\ m.status \in Later
         /\ m.version = n.version /\ m.observed = n.observed /\ m.obs = n.obs
<1>1. FieldsAfterPut(m, n, w, answer) /\ SoundRun(m)
  BY SentChanges, SentIsSound DEF SoundRun
<1>2. /\ m.version = n.version /\ m.observed = n.observed /\ m.obs = n.obs
      /\ m.asked = n.asked /\ m.histories = n.histories
      /\ m.decisions = n.decisions /\ m.plans = n.plans
      /\ m.checked = n.checked /\ m.resolutions = n.resolutions
      /\ s \in m.failed <=> s \in n.failed
      /\ m.status \in {"executing", "verifying"}
  BY <1>1 DEF FieldsAfterPut, FailedAfter
<1>3. s \in DOMAIN n.plans => s \in DOMAIN n.resolutions
  BY DEF SoundRun, WhoseTurn, InHand
<1>4. s \in Conflicts(n) /\ n.version # 1 => n.decisions[s].outcome # "INVESTIGATE"
  BY DEF SoundRun, WhatWasDecided, Undecided
<1>5. SameOf(m, n, s)
  BY <1>2, <1>3, <1>4 DEF SameOf
<1> QED BY <1>1, <1>2, <1>5 DEF Later

(* A PUT that reaches its warehouse does there what it does to the fleet   *)
(* of its SKU, and no other fleet notices.                                 *)
LEMMA HandlesAs ==
  ASSUME SoundWorld, NEW m, NEW outcome, Handle(m, outcome),
         m.to \in Warehouse, m.sku \in Sku, m.request \in UpdateRequest,
         shelf[m.to][m.sku] # Missing
  PROVE  /\ \A p : p.to = m.to /\ p.request = m.request
                     => Handles(m.sku, p, outcome)
         /\ \A t \in Sku \ {m.sku} : StoreOf(t)' = StoreOf(t) /\ clock'[t] = clock[t]
<1> DEFINE to == m.to
           sku == m.sku
           entry == shelf[to][sku]
           after == AfterUpdate(entry, m.request, clock[sku])
<1>1. /\ shelf \in [Warehouse -> [Sku -> Entry \cup {Missing}]]
      /\ clock \in [Sku -> Nat] /\ to \in Warehouse /\ sku \in Sku
  BY DEF SoundWorld
<1>2. outcome = UpdateOutcome(StoreOf(sku)[to].rec, m.request, to \notin ReadOnly)
  BY <1>1 DEF Handle, StoreOf
<1>3. CASE outcome = "updated"
  <2>1. /\ shelf' = [shelf EXCEPT ![to][sku] = after]
        /\ clock' = [clock EXCEPT ![sku] = clock[sku] + 1]
    BY <1>3 DEF Handle
  <2>2. entry \in Entry /\ clock[sku] \in Nat
    BY <1>1
  <2>3. after \in Entry
    <3> HIDE DEF entry, sku
    <3> QED BY <2>2, UpdateKeepsEntry
  <2>4. /\ clock'[sku] = clock[sku] + 1
        /\ \A t \in Sku \ {sku} : clock'[t] = clock[t]
    BY <1>1, <2>1
  <2>5. after = AfterUpdate(StoreOf(sku)[to], m.request, clock[sku])
    BY <1>1 DEF StoreOf
  <2> HIDE DEF after, entry, to, sku
  <2>6. /\ shelf'[to][sku] = after
        /\ \A v \in Warehouse, t \in Sku :
             v # to \/ t # sku => shelf'[v][t] = shelf[v][t]
    BY <1>1, <2>1, <2>3, ChangedShelf
  <2>7. StoreOf(sku)' = [StoreOf(sku) EXCEPT ![to] = after]
    BY <1>1, <2>6 DEF StoreOf
  <2>8. \A t \in Sku \ {sku} : StoreOf(t)' = StoreOf(t)
    BY <2>6 DEF StoreOf
  <2>9. ASSUME NEW p, p.to = to, p.request = m.request
        PROVE  Handles(sku, p, outcome)
    BY <1>2, <1>3, <2>4, <2>5, <2>7, <2>9 DEF Handles
  <2> QED BY <2>4, <2>8, <2>9 DEF to, sku
<1>4. CASE outcome # "updated"
  <2>1. shelf' = shelf /\ clock' = clock
    BY <1>4 DEF Handle
  <2>2. \A t : StoreOf(t)' = StoreOf(t)
    BY <2>1 DEF StoreOf
  <2> HIDE DEF to, sku
  <2>3. ASSUME NEW p, p.to = to, p.request = m.request
        PROVE  Handles(sku, p, outcome)
    BY <1>2, <1>4, <2>1, <2>2, <2>3 DEF Handles
  <2> QED BY <2>1, <2>2, <2>3 DEF to, sku
<1> QED BY <1>3, <1>4

(* A message is the PUT of the fleet's run.                                *)
LEMMA MessageIsPut ==
  ASSUME NEW n, NEW w, NEW s, s = n.current, NEW r, r.obs = n.obs[s],
         r.plan = n.plans[s]
  PROVE  /\ Message(n, w).to = w /\ Message(n, w).sku = s
         /\ PutOf(r, w).to = w
         /\ PutOf(r, w).request = Message(n, w).request
         /\ PutOf(r, w).read = n.obs[s][w]
         /\ PutOf(r, w) = [to |-> w, read |-> r.obs[w],
                           carries |-> r.known[r.plan.source],
                           request |-> Message(n, w).request]
BY DEF Message, Request, PutOf

(* The source of a plan is a warehouse whose catalogue was read.           *)
LEMMA SourceIsObserved ==
  ASSUME NEW n, SoundRun(n), NEW s \in DOMAIN n.plans
  PROVE  Unreflected(n.observed)[n.plans[s].source] = {}
<1>1. s \in DOMAIN n.decisions /\ Executable(n, s) /\ n.plans[s] = PlanFor(n, s)
  BY DEF SoundRun, WhatWasWritten
<1>2. s \in Sku /\ SoundDecision(n.decisions[s], n.obs[s])
  BY <1>1 DEF SoundRun, WhatWasDecided, Conflicts
<1>3. n.decisions[s].source \in DOMAIN n.obs[s]
  BY <1>1, <1>2, ReconcileIsSound DEF Executable, SoundReconciliation
<1>4. DOMAIN n.obs[s] \subseteq n.observed
  BY <1>2 DEF SoundRun, WhatWasRead
<1>5. n.plans[s].source = n.decisions[s].source
  BY <1>1 DEF PlanFor, ReconciliationPlan
<1> QED BY <1>3, <1>4, <1>5 DEF Unreflected

LEMMA ExecutionGoes ==
  ASSUME RefinementInvariant, ExecuteUpdate, NEW s \in Sku
  PROVE  Goes(s)
<1> DEFINE w == Min(run.todo)
           m == Message(run, w)
<1>1. run.status = "executing" /\ late' = late
  BY DEF ExecuteUpdate
<1>2. PICK outcome \in Outcomes :
        /\ Handle(m, outcome)
        /\ run' = Sent(run, w, IF outcome \in {"unchanged", "updated"} THEN "ok"
                               ELSE "rejected")
  BY DEF ExecuteUpdate
<1> DEFINE answer == IF outcome \in {"unchanged", "updated"} THEN "ok"
                     ELSE "rejected"
<1>3. run' = Sent(run, w, answer) /\ answer # "lost"
      /\ (answer = "ok" <=> outcome \in {"unchanged", "updated"})
  BY <1>2
<1>4. SoundRun(run) /\ SoundRun(run') /\ SoundWorld /\ DOMAIN run = RunFields
  BY ExecutionStep DEF RefinementInvariant, RunInvariant, SoundRun
<1>5. /\ m.to \in Warehouse /\ m.sku \in Sku
      /\ m.request \in UpdateRequest /\ shelf[m.to][m.sku] # Missing
  BY <1>1, MessageIsSound DEF RefinementInvariant
<1> HIDE DEF answer
<1>6. /\ run'.status \in {"executing", "verifying"}
      /\ LostCalls(run') = LostCalls(run)
  BY <1>1, <1>3, <1>4, SentIsTraced DEF RefinementInvariant
<1>7. FieldsAfterPut(run', run, w, answer)
  BY <1>3, <1>4, SentChanges
<1>8. run'.obs = run.obs
  BY <1>7 DEF FieldsAfterPut
<1>9. LossesOf(s)' = LossesOf(s)
  BY <1>6, LossesStay
<1>10. LateOf(s)' = LateOf(s)
  BY <1>1, <1>8 DEF LateOf, Unanswered
<1>11. RunsOf(run)' = RunsOf(run)
  BY <1>1, <1>6, RunsStay
<1>12. CASE s # run.current
  <2>1. m.sku # s
    BY <1>12 DEF Message
  <2> HIDE DEF m
  <2>2. Stands(s)
    BY <1>2, <1>4, <1>5, <1>10, <2>1, HandlesAs DEF Stands
  <2>3. /\ SameOf(run', run, s) /\ run'.status \in Later
        /\ run'.version = run.version /\ run'.observed = run.observed
    BY <1>1, <1>3, <1>4, <1>12, OthersAfterPut
  <2>4. run.status \in Later
    BY <1>1 DEF Later
  <2> QED BY <1>4, <1>8, <1>9, <2>2, <2>3, <2>4, StandsBy
<1>13. CASE s = run.current
  <2> DEFINE r == SkuRun(run, s)
             q == SkuRun(run', s)
  <2>1. /\ IsFleetRun(r) /\ r.stage = "executing" /\ r.todo = run.todo
        /\ r.obs = run.obs[s] /\ r.known = Unreflected(run.observed)
        /\ r.plan = run.plans[s]
        /\ q = IF answer # "ok" THEN Verifies(Fails(r))
               ELSE IF r.todo = {w} THEN Verifies(r)
               ELSE Sends(r, w)
    BY <1>1, <1>3, <1>4, <1>13, RunAfterPut
  <2> HIDE DEF r, q
  <2>2. s \in DOMAIN run.plans
    BY <1>1, <1>4, <1>13, TurnOfExecution
  <2>3. r.known[r.plan.source] = {}
    BY <1>4, <2>1, <2>2, SourceIsObserved
  <2>4. m.sku = s /\ PutOf(r, w).to = m.to /\ PutOf(r, w).request = m.request
    BY <1>13, <2>1, MessageIsPut
  <2> HIDE DEF m
  <2>5. Handles(s, PutOf(r, w), outcome)
    BY <1>2, <1>4, <1>5, <2>4, HandlesAs
  <2>6. w = Min(r.todo)
    BY <2>1
  <2> HIDE DEF w
  <2>7. q = IF outcome \notin {"unchanged", "updated"} THEN Verifies(Fails(r))
            ELSE IF r.todo = {w} THEN Verifies(r)
            ELSE Sends(r, w)
    BY <1>3, <2>1
  <2> QED BY <1>9, <1>10, <1>11, <2>1, <2>3, <2>5, <2>6, <2>7, Executes DEF r, q
<1> QED BY <1>12, <1>13

(* A PUT gets no answer.                                                   *)
LEMMA LostWriteGoes ==
  ASSUME RefinementInvariant, LoseUpdate, NEW s \in Sku
  PROVE  Goes(s)
<1> DEFINE w == Min(run.todo)
           m == Message(run, w)
           call == [purpose |-> "write", to |-> w, sku |-> run.current,
                    answer |-> "lost"]
<1>1. /\ run.status = "executing" /\ late' = late \cup {m}
      /\ losses < MaxLosses /\ shelf' = shelf /\ clock' = clock
      /\ run' = Sent(run, w, "lost")
  BY DEF LoseUpdate
<1>2. SoundRun(run) /\ SoundRun(run') /\ DOMAIN run = RunFields
  BY LostWriteStep DEF RefinementInvariant, RunInvariant, SoundRun
<1>3. /\ run'.status \in {"executing", "verifying"}
      /\ LostCalls(run') = LostCalls(run) \cup {call}
  BY <1>1, <1>2, SentIsTraced DEF RefinementInvariant
<1>4. call.purpose = "write" /\ call.sku = run.current
  OBVIOUS
<1> HIDE DEF call
<1>5. call \notin LostCalls(run)
  BY <1>1, <1>4, LostWriteIsNew
<1>6. LossesOf(s)' = IF run.current \in {s, NoSku} THEN LossesOf(s) + 1
                     ELSE LossesOf(s)
  BY <1>3, <1>4, <1>5, LossesGrow
<1>7. LossesOf(s) < MaxLosses
  BY <1>1, LossesAreBounded
<1>8. FieldsAfterPut(run', run, w, "lost")
  BY <1>1, <1>2, SentChanges
<1>9. run'.obs = run.obs
  BY <1>8 DEF FieldsAfterPut
<1>10. StoreOf(s)' = StoreOf(s) /\ clock'[s] = clock[s]
  BY <1>1 DEF StoreOf
<1>11. RunsOf(run)' = RunsOf(run)
  BY <1>1, <1>3, RunsStay
<1>12. run.current \in DOMAIN run.plans
  BY <1>1, <1>2, TurnOfExecution
<1>13. run.current # NoSku
  BY <1>2, <1>12, PlansOfSoundRuns, AgentRunAssumption
<1>14. m.sku = run.current
  BY DEF Message
<1>15. \A n : Unanswered(run', n) = Unanswered(run, n)
  BY <1>9 DEF Unanswered
<1>16. CASE s # run.current
  <2> HIDE DEF m
  <2>1. LateOf(s)' = LateOf(s)
    BY <1>1, <1>14, <1>15, <1>16 DEF LateOf
  <2>2. Stands(s)
    BY <1>10, <2>1 DEF Stands
  <2>3. /\ SameOf(run', run, s) /\ run'.status \in Later
        /\ run'.version = run.version /\ run'.observed = run.observed
    BY <1>1, <1>2, <1>16, OthersAfterPut
  <2>4. run.status \in Later
    BY <1>1 DEF Later
  <2>5. LossesOf(s)' = LossesOf(s)
    BY <1>6, <1>13, <1>16
  <2> QED BY <1>2, <1>9, <2>2, <2>3, <2>4, <2>5, StandsBy
<1>17. CASE s = run.current
  <2> DEFINE r == SkuRun(run, s)
             q == SkuRun(run', s)
             no == "lost"
  <2>1. /\ r.stage = "executing" /\ r.todo = run.todo
        /\ r.obs = run.obs[s] /\ r.known = Unreflected(run.observed)
        /\ r.plan = run.plans[s]
        /\ q = Verifies(Fails(r))
    <3>1. no # "ok" /\ run' = Sent(run, w, no)
      BY <1>1
    <3> HIDE DEF no, m
    <3>2. /\ r.stage = "executing" /\ r.todo = run.todo
          /\ r.obs = run.obs[s] /\ r.known = Unreflected(run.observed)
          /\ r.plan = run.plans[s]
          /\ q = IF no # "ok" THEN Verifies(Fails(r))
                 ELSE IF r.todo = {w} THEN Verifies(r)
                 ELSE Sends(r, w)
      BY <1>1, <1>2, <1>17, <3>1, RunAfterPut
    <3> HIDE DEF r, q
    <3> QED BY <3>1, <3>2
  <2> HIDE DEF r, q
  <2>2. r.known[r.plan.source] = {}
    BY <1>2, <1>12, <1>17, <2>1, SourceIsObserved
  <2>3. PutOf(r, w) = [to |-> w, read |-> r.obs[w],
                       carries |-> r.known[r.plan.source],
                       request |-> Message(run, w).request]
        /\ m.to = w
    BY <1>17, <2>1, MessageIsPut
  <2>4. PutOf(r, w) = Unanswered(run, m)
    <3>1. m.to = w /\ m.sku = s /\ m.request = Message(run, w).request
      BY <1>14, <1>17, <2>3
    <3> DEFINE known == r.known[r.plan.source]
               request == Message(run, w).request
               read == run.obs[s][w]
    <3>2. /\ PutOf(r, w) = [to |-> w, read |-> read, carries |-> known,
                            request |-> request]
          /\ known = {}
      BY <2>1, <2>2, <2>3
    <3>3. Unanswered(run, m) = [to |-> w, request |-> request, read |-> read,
                                carries |-> {}]
      BY <3>1 DEF Unanswered
    <3> HIDE DEF known, request, read
    <3> QED BY <3>2, <3>3
  <2>5. w = Min(r.todo)
    BY <2>1
  <2> HIDE DEF m, w
  <2>6. LateOf(s)' = LateOf(s) \cup {PutOf(r, w)}
    BY <1>1, <1>14, <1>15, <1>17, <2>4 DEF LateOf
  <2>7. LossesOf(s)' = LossesOf(s) + 1
    BY <1>6, <1>17
  <2> QED BY <1>7, <1>10, <1>11, <2>1, <2>5, <2>6, <2>7, LosesPut DEF r, q
<1> QED BY <1>16, <1>17

(* Two PUTs that got no answer differ for the fleet as well.               *)
LEMMA UnansweredDiffer ==
  ASSUME late \subseteq LateWrite, NEW m \in late, NEW n \in late, m.sku = n.sku,
         Unanswered(run, m) = Unanswered(run, n)
  PROVE  m = n
<1>1. /\ m = [sku |-> m.sku, to |-> m.to, request |-> m.request]
      /\ n = [sku |-> n.sku, to |-> n.to, request |-> n.request]
  BY DEF LateWrite
<1>2. m.to = n.to /\ m.request = n.request
  BY DEF Unanswered
<1> QED BY <1>1, <1>2

(* One of them reaches its warehouse after all.                            *)
LEMMA LateWriteGoes ==
  ASSUME RefinementInvariant, NEW m \in late, HandleLate(m), NEW s \in Sku
  PROVE  Goes(s)
<1>1. run' = run /\ late' = late \ {m}
  BY DEF HandleLate
<1>2. PICK outcome \in Outcomes : Handle(m, outcome)
  BY DEF HandleLate
<1>3. SoundWorld /\ late \subseteq LateWrite
  BY DEF RefinementInvariant, RunInvariant
<1>4. /\ m.to \in Warehouse /\ m.sku \in Sku
      /\ m.request \in UpdateRequest /\ shelf[m.to][m.sku] # Missing
  BY <1>3 DEF SoundWorld
<1>5. /\ LossesOf(s)' = LossesOf(s) /\ RunsOf(run)' = RunsOf(run)
      /\ SkuRun(run, s)' = SkuRun(run, s)
  BY <1>1 DEF LossesOf
<1>6. \A n : Unanswered(run', n) = Unanswered(run, n)
  BY <1>1
<1>7. CASE s # m.sku
  <2>1. LateOf(s)' = LateOf(s)
    BY <1>1, <1>6, <1>7 DEF LateOf
  <2>2. Stands(s)
    BY <1>2, <1>3, <1>4, <1>7, <2>1, HandlesAs DEF Stands
  <2> QED BY <1>5, <2>2, StandsStill
<1>8. CASE s = m.sku
  <2> DEFINE p == Unanswered(run, m)
  <2>1. p.to = m.to /\ p.request = m.request
    BY DEF Unanswered
  <2> HIDE DEF p
  <2>2. Handles(s, p, outcome)
    BY <1>2, <1>3, <1>4, <1>8, <2>1, HandlesAs
  <2>3. p \in LateOf(s)
    BY <1>8 DEF LateOf, p
  <2>4. LateOf(s)' = LateOf(s) \ {p}
    <3>1. \A n \in late : n.sku = s /\ n # m => Unanswered(run, n) # p
      BY <1>3, <1>8, UnansweredDiffer DEF p
    <3>2. \A x : x \in LateOf(s)' <=>
                   \E n \in late : n # m /\ n.sku = s /\ x = Unanswered(run, n)
      BY <1>1, <1>6 DEF LateOf
    <3>3. \A x : x \in LateOf(s) <=>
                   \E n \in late : n.sku = s /\ x = Unanswered(run, n)
      BY DEF LateOf
    <3> QED BY <3>1, <3>2, <3>3 DEF p
  <2> QED BY <1>5, <2>2, <2>3, <2>4, HandlesLate
<1> QED BY <1>7, <1>8

-----------------------------------------------------------------------------
LEMMA EveryStepGoes ==
  ASSUME RefinementInvariant, [Next]_vars, NEW s \in Sku
  PROVE  Goes(s)
<1>1. CASE Begin
  BY <1>1, BeginGoes
<1>2. CASE Answered
  <2>1. ASSUME NEW w \in Warehouse, AnswerCatalogue(w) PROVE Goes(s)
    BY <2>1, CatalogueGoes
  <2>2. ASSUME NEW w \in Warehouse, NEW t \in Sku, AnswerEvents(w, t)
        PROVE  Goes(s)
    BY <2>2, EventsGo
  <2>3. ASSUME NEW w \in Warehouse, NEW t \in Sku, AnswerVerification(w, t)
        PROVE  Goes(s)
    BY <2>3, VerificationGoes
  <2> QED BY <1>2, <2>1, <2>2, <2>3 DEF Answered
<1>3. CASE Analyse \/ Reassess \/ Resolve
  BY <1>3, AnalysisGoes, ReassessmentGoes, ResolutionGoes
<1>4. CASE ExecuteUpdate \/ LoseUpdate
  BY <1>4, ExecutionGoes, LostWriteGoes
<1>5. CASE \E w \in Warehouse, t \in Sku \cup {NoSku} : LoseRead(w, t)
  BY <1>5, LostReadGoes
<1>6. CASE \E m \in late : HandleLate(m)
  BY <1>6, LateWriteGoes
<1>7. CASE UNCHANGED vars
  <2>1. Stands(s)
    BY <1>7 DEF vars, Stands, StoreOf, LateOf, Unanswered
  <2> QED BY <1>7, <2>1, StandsStill DEF vars, LossesOf
<1> QED BY <1>1, <1>2, <1>3, <1>4, <1>5, <1>6, <1>7
        DEF Next, RunStep, Fault, Terminated

LEMMA FleetBegins ==
  ASSUME Init, NEW s \in Sku
  PROVE  Fleet(s)!Init
<1>1. PICK version \in AgentVersions : run = NewRun(version)
  BY DEF Init
<1>2. run.status = "starting" /\ run.calls = {}
  BY <1>1 DEF NewRun
<1>3. SkuRun(run, s) = Blank /\ RunsOf(run) = 0
  BY <1>2 DEF SkuRun, RunsOf
<1>4. LostOf(run, s) = {}
  BY <1>2 DEF LostOf
<1>5. Cardinality(LostOf(run, s)) = 0
  BY <1>4, FS_EmptySet
<1>6. LateOf(s) = {} /\ clock[s] = 10
  BY DEF Init, LateOf
<1>7. \E f \in FleetsOf(s) : /\ f.store = StoreOf(s) /\ f.feed = <<>>
                             /\ f.reflected = [w \in Warehouse |-> {}]
  <2> DEFINE here == StoreOf(s)
             nothing == [w \in Warehouse |-> {}]
             f == [store |-> here, reflected |-> nothing, feed |-> <<>>]
  <2>1. shelf \in Shelves /\ here = [w \in Warehouse |-> shelf[w][s]]
    BY DEF Init, StoreOf
  <2>2. f \in FleetsOf(s)
    BY <2>1 DEF FleetsOf
  <2>3. f.store = here /\ f.reflected = nothing /\ f.feed = <<>>
    OBVIOUS
  <2> QED BY <2>2, <2>3
<1>8. Fleet(s)!NewRun = Blank
  BY SameHelpers
<1>9. /\ [a \in {1} |-> SkuRun(run, s)] = [a \in {1} |-> Fleet(s)!NewRun]
      /\ [a \in {1} |-> RunsOf(run)] = [a \in {1} |-> 0]
  BY <1>3, <1>8
<1> QED BY <1>5, <1>6, <1>7, <1>9 DEF Fleet!Init, Fleet!StartTime

(* Every SKU is reconciled as if it were the only one: whatever the other  *)
(* conflicts of a run are, in whatever order its calls are answered or     *)
(* lost, the loop over the decisions (runner.py:214-276) and the shared    *)
(* gather() of investigations (runner.py:293-317) do to each SKU what a    *)
(* run of that SKU alone can do.                                           *)
THEOREM SkusAreReconciled == Spec => EachSkuIsReconciled
<1>1. Init => \A s \in Sku : Fleet(s)!Init
  BY FleetBegins
<1>2. RefinementInvariant /\ [Next]_vars => \A s \in Sku : Goes(s)
  BY EveryStepGoes
<1>3. RefinementInvariant /\ [Next]_vars
        => [\A s \in Sku : Fleet(s)!Next \/ UNCHANGED Fleet(s)!vars]_vars
  BY <1>2 DEF Goes
<1> QED BY <1>1, <1>3, RefinementInvariantHolds, PTL
        DEF Spec, EachSkuIsReconciled
=============================================================================
