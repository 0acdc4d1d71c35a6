------------------------------- MODULE Policy -------------------------------
(***************************************************************************)
(* From evidence to a decision and a validated write plan for one SKU:     *)
(* agent/policy.py, agent/planner.py and agent/safety.py.  The early       *)
(* returns of decide() are the branches of Decide, in the same order.      *)
(***************************************************************************)
EXTENDS Evidence

CONSTANT
  ReadOnly  \* warehouses that report writable = False

NoSource == 0

Decision ==
  [outcome : {"NO_ACTION", "INVESTIGATE", "RECONCILE", "ESCALATE"},
   source : Warehouse \cup {NoSource},
   targets : SUBSET Warehouse,
   investigate : SUBSET Warehouse]

Escalate == [outcome |-> "ESCALATE", source |-> NoSource, targets |-> {},
             investigate |-> {}]
NoAction == [Escalate EXCEPT !.outcome = "NO_ACTION"]
Investigate(ws) ==
  [Escalate EXCEPT !.outcome = "INVESTIGATE", !.investigate = ws]
Reconcile(source, targets) ==
  [outcome |-> "RECONCILE", source |-> source, targets |-> targets,
   investigate |-> {}]

Unsafe(e) ==
  IdentityMismatch(e.obs) \/ MissingState(e.obs) \/ HistoriesContradict(e)

Unanimous(e) == Cardinality(AgreementGroups(e.obs)) = 1

(* Faulty: one explained warehouse is enough, whatever the others hold. *)
UnsupportedAheadIgnored(e) == {}

(* Faulty: a warehouse whose history was not read counts as not newer. *)
UnsupportedAheadUnread(e) ==
  (AheadWarehouses(e.obs) \cap Investigated(e)) \ {p[1] : p \in Extensions(e)}

(* Newer warehouses that the only extension does not account for *)
UnsupportedAhead(e) ==
  AheadWarehouses(e.obs) \ {p[1] : p \in Extensions(e)}

(* One shared complete history supports some records and contradicts one. *)
RepairSupported(e) ==
  /\ HistoriesAgree(e)
  /\ Supported(e) # {}
  /\ Cardinality(Contradicted(e)) = 1
  /\ Supported(e) \cup Contradicted(e) = DOMAIN e.obs

(* Faulty: supported and contradicted are mixed up. *)
RepairFromContradicted(e) == Reconcile(Min(Contradicted(e)), Supported(e))

Repair(e) == Reconcile(Min(Supported(e)), Contradicted(e))

(* _stale_replica_evidence: the first agreeing group with a warehouse       *)
(* strictly behind it, and the first such warehouse                        *)
GroupsWithStale(e) ==
  {g \in Agreeing(e.obs) : BehindGroup(e.obs, g) # {}}

FirstGroup(G) == CHOOSE g \in G : \A o \in G : Min(g) <= Min(o)

ReconcileStale(e) ==
  LET g == FirstGroup(GroupsWithStale(e))
  IN  Reconcile(Min(g), {Min(BehindGroup(e.obs, g))})

Decide(e) ==
  LET ahead == AheadWarehouses(e.obs)
      ext == Extensions(e)
      uninvestigated == UnsupportedAhead(e) \ Investigated(e)
  IN
  IF Unsafe(e) THEN Escalate
  ELSE IF Unanimous(e) THEN NoAction
  ELSE IF Cardinality(ext) = 1 /\ uninvestigated # {}
    THEN Investigate(uninvestigated)
  ELSE IF Cardinality(ext) = 1 /\ UnsupportedAhead(e) = {}
    THEN LET source == (CHOOSE p \in ext : TRUE)[1]
         IN  Reconcile(source, DOMAIN e.obs \ {source})
  ELSE IF Cardinality(ext) > 1 THEN Escalate
  ELSE IF SameVersionDivergence(e.obs) /\ Investigated(e) # {}
    THEN IF RepairSupported(e) THEN Repair(e) ELSE Escalate
  ELSE IF Investigated(e) # {} /\ (Insufficient(e) \/ Contradicted(e) # {})
    THEN Escalate
  ELSE IF ahead # {}
    THEN IF Cardinality(ahead) = 1 \/ Investigated(e) = {}
         THEN Investigate(ahead)
         ELSE Escalate
  ELSE IF SameVersionDivergence(e.obs) THEN Investigate(DOMAIN e.obs)
  ELSE IF GroupsWithStale(e) # {} THEN ReconcileStale(e)
  ELSE Escalate

-----------------------------------------------------------------------------
(* planner.plan_investigation and the reassessment of run_agent_v2 *)

(* Faulty: every history is read, whatever the decision. *)
InvestigationPlanOfAll(d, e) == DOMAIN e.obs \ Investigated(e)

InvestigationPlan(d, e) ==
  IF d.outcome = "INVESTIGATE" THEN d.investigate \ Investigated(e) ELSE {}

(* The loop is bounded: a second INVESTIGATE is an escalation when the      *)
(* first plan had actions or nothing remains to be read.                   *)
Reassessed(firstPlan, e) ==
  LET d == Decide(e)
  IN  IF /\ d.outcome = "INVESTIGATE"
         /\ InvestigationPlan(d, e) = {} \/ firstPlan # {}
      THEN Escalate
      ELSE d

-----------------------------------------------------------------------------
(* planner.plan_reconciliation *)

IsRepair(d, obs) ==
  \E t \in d.targets :
    /\ obs[t].version = obs[d.source].version
    /\ obs[t].inventory # obs[d.source].inventory

(* Faulty: a repair takes no new revision. *)
ReconciliationPlanOldRevision(d, obs) ==
  [source |-> d.source,
   inventory |-> obs[d.source].inventory,
   version |-> obs[d.source].version,
   repair |-> IsRepair(d, obs),
   participants |-> DOMAIN obs,
   targets |-> IF IsRepair(d, obs) THEN DOMAIN obs ELSE d.targets]

ReconciliationPlan(d, obs) ==
  LET repair == IsRepair(d, obs)
  IN  [source |-> d.source,
       inventory |-> obs[d.source].inventory,
       version |-> IF repair THEN Max(Versions(obs)) + 1
                             ELSE obs[d.source].version,
       repair |-> repair,
       participants |-> DOMAIN obs,
       targets |-> IF repair THEN DOMAIN obs ELSE d.targets]

(* safety.validate_reconciliation_plan: what can fail for a plan made by    *)
(* plan_reconciliation, and the scope of a repair.  The checks of source   *)
(* metadata compare fields the planner has just copied.                    *)
SafePlan(plan, d, obs) ==
  /\ d.outcome = "RECONCILE"
  /\ plan.targets = IF plan.repair THEN plan.participants ELSE d.targets
  /\ plan.repair => /\ plan.targets = DOMAIN obs
                    /\ plan.version = Max(Versions(obs)) + 1
  /\ plan.inventory \in Inventory
  /\ \A t \in plan.targets :
       /\ t \in DOMAIN obs
       /\ t \notin ReadOnly
       /\ obs[t].product = obs[d.source].product
       /\ plan.version >= obs[t].version
       /\ plan.version = obs[t].version => plan.inventory = obs[t].inventory

=============================================================================
