----------------------------- MODULE PolicyProofs -----------------------------
(***************************************************************************)
(* Proofs about the policy and the planner, for any set of warehouses: a   *)
(* decision to reconcile names a source and targets that were observed and *)
(* leaves no newer warehouse but the source, and a plan is well formed.    *)
(***************************************************************************)
EXTENDS RunSteps, FiniteSetTheorems, WellFoundedInduction, TLAPS

-----------------------------------------------------------------------------
(* Least and greatest numbers *)

LEMMA LeastOfNats ==
  ASSUME NEW S \in SUBSET Nat, S # {}
  PROVE  Min(S) \in S /\ \A y \in S : Min(S) <= y
<1> DEFINE R == OpToRel(<, Nat)
<1>1. IsWellFoundedOn(R, Nat)
  BY NatLessThanWellFounded
<1>2. \A x, y \in Nat : <<y, x>> \in R <=> y < x
  BY DEF OpToRel
<1> HIDE DEF R
<1>3. PICK x \in S : \A y \in S : ~(<<y, x>> \in R)
  BY <1>1, WFMin
<1>4. \A y \in S : x \in Nat /\ y \in Nat /\ ~(y < x)
  BY <1>2, <1>3, Zenon
<1>5. \A y \in S : x <= y
  BY <1>4
<1> QED BY <1>5 DEF Min

(* Finitely many numbers have an upper bound: the least number of first    *)
(* elements without one would be one more than a number that has one.      *)
LEMMA SequenceIsBounded ==
  ASSUME NEW n \in Nat, NEW f \in [1..n -> Nat]
  PROVE  \E b \in Nat : \A i \in 1..n : f[i] <= b
<1> DEFINE U == {k \in 0..n : ~ \E b \in Nat : \A i \in 1..k : f[i] <= b}
<1>1. SUFFICES ASSUME U # {} PROVE FALSE
  <2>1. n \in 0..n
    OBVIOUS
  <2> QED BY <2>1
<1>2. Min(U) \in U /\ \A j \in U : Min(U) <= j
  <2>1. U \in SUBSET Nat
    OBVIOUS
  <2> HIDE DEF U
  <2> QED BY <1>1, <2>1, LeastOfNats
<1>3. PICK k \in U : \A j \in U : k <= j
  BY <1>2, Zenon
<1>4. k \in 0..n /\ ~ \E b \in Nat : \A i \in 1..k : f[i] <= b
  BY <1>3
<1>5. k # 0
  <2>1. \A i \in 1..0 : f[i] <= 0
    OBVIOUS
  <2> QED BY <1>4, <2>1
<1>6. k \in 1..n /\ k - 1 \in 0..n
  BY <1>4, <1>5
<1>7. k - 1 \notin U
  <2> HIDE DEF U
  <2> QED BY <1>3, <1>6
<1>8. PICK b \in Nat : \A i \in 1..(k - 1) : f[i] <= b
  BY <1>6, <1>7
<1> DEFINE c == IF f[k] <= b THEN b ELSE f[k]
<1>9. c \in Nat /\ b <= c /\ f[k] <= c
  BY <1>6
<1> HIDE DEF U, c
<1>10. \A i \in 1..k : f[i] <= c
  <2> TAKE i \in 1..k
  <2>1. i \in 1..n /\ f[i] \in Nat /\ (i \in 1..(k - 1) \/ i = k)
    BY <1>6
  <2>2. CASE i \in 1..(k - 1)
    BY <1>8, <1>9, <2>1, <2>2
  <2>3. CASE i = k
    BY <1>9, <2>3
  <2> QED BY <2>1, <2>2, <2>3
<1> QED BY <1>4, <1>9, <1>10

LEMMA FiniteIsBounded ==
  ASSUME NEW S \in SUBSET Nat, IsFiniteSet(S)
  PROVE  \E b \in Nat : \A y \in S : y <= b
<1>1. PICK n \in Nat : ExistsSurjection(1..n, S)
  BY FS_NatSurjection
<1>2. PICK f \in Surjection(1..n, S) : TRUE
  BY <1>1 DEF ExistsSurjection
<1>3. f \in [1..n -> S] /\ \A y \in S : \E i \in 1..n : f[i] = y
  BY <1>2 DEF Surjection
<1>4. PICK b \in Nat : \A i \in 1..n : f[i] <= b
  BY <1>3, SequenceIsBounded
<1> QED BY <1>3, <1>4

LEMMA GreatestOfNats ==
  ASSUME NEW S \in SUBSET Nat, S # {}, IsFiniteSet(S)
  PROVE  Max(S) \in S /\ \A y \in S : y <= Max(S)
<1> DEFINE B == {b \in Nat : \A y \in S : y <= b}
<1>1. B # {} /\ B \in SUBSET Nat
  BY FiniteIsBounded
<1>2. Min(B) \in B /\ \A b \in B : Min(B) <= b
  <2> HIDE DEF B
  <2> QED BY <1>1, LeastOfNats
<1> DEFINE m == Min(B)
<1>3. m \in Nat /\ \A y \in S : y <= m
  BY <1>2
<1>4. \A b \in Nat : (\A y \in S : y <= b) => m <= b
  BY <1>2
<1> HIDE DEF m
<1>5. m \in S
  <2>1. SUFFICES ASSUME m \notin S PROVE FALSE
    OBVIOUS
  <2>2. \A y \in S : y \in Nat /\ y < m
    BY <1>3, <2>1
  <2>3. PICK z \in S : TRUE
    OBVIOUS
  <2>4. z \in Nat /\ z < m
    BY <2>2
  <2>5. m - 1 \in Nat /\ ~(m <= m - 1)
    BY <1>3, <2>4
  <2>6. \A y \in S : y <= m - 1
    BY <1>3, <2>2
  <2> QED BY <1>4, <2>5, <2>6
<1>6. \A y \in S : m >= y
  BY <1>3
<1>7. \E x \in S : \A y \in S : x >= y
  BY <1>5, <1>6
<1>8. Max(S) \in S /\ \A y \in S : Max(S) >= y
  BY <1>7 DEF Max
<1> QED BY <1>8

-----------------------------------------------------------------------------
(* The sets a decision is taken from *)

(* What an assessment is: records of some warehouses, histories of some of *)
(* those.                                                                  *)
Assessed(e, ws) ==
  /\ ws \in SUBSET Warehouse
  /\ e.obs \in [ws -> Record]
  /\ Investigated(e) \subseteq ws

LEMMA WarehousesAreNumbers ==
  ASSUME NEW ws \in SUBSET Warehouse, ws # {}
  PROVE  Min(ws) \in ws
<1>1. ws \in SUBSET Nat
  BY FleetAssumption
<1> QED BY <1>1, LeastOfNats

LEMMA GroupsAreSound ==
  ASSUME NEW obs, NEW g \in AgreementGroups(obs)
  PROVE  g # {} /\ g \subseteq DOMAIN obs
<1>1. PICK w \in DOMAIN obs :
        g = {v \in DOMAIN obs : LogicalKey(obs[v]) = LogicalKey(obs[w])}
  BY DEF AgreementGroups
<1>2. w \in g
  BY <1>1
<1> QED BY <1>1, <1>2

LEMMA ReferencesAreGroups ==
  ASSUME NEW obs
  PROVE  ReferenceGroups(obs) \subseteq AgreementGroups(obs)
BY DEF ReferenceGroups, Agreeing

LEMMA GroupStateIsObserved ==
  ASSUME NEW ws \in SUBSET Warehouse, NEW obs \in [ws -> Record],
         NEW g \in AgreementGroups(obs)
  PROVE  Min(g) \in ws /\ StateOf(obs, g) = obs[Min(g)]
<1>1. g # {} /\ g \subseteq ws
  BY GroupsAreSound
<1>2. Min(g) \in g
  BY <1>1, WarehousesAreNumbers
<1> QED BY <1>1, <1>2 DEF StateOf

LEMMA FirstGroupIsAGroup ==
  ASSUME NEW ws \in SUBSET Warehouse, NEW obs \in [ws -> Record],
         NEW G \in SUBSET AgreementGroups(obs), G # {}
  PROVE  FirstGroup(G) \in G
<1> DEFINE M == {Min(g) : g \in G}
<1>1. \A g \in G : Min(g) \in Nat
  BY GroupStateIsObserved, FleetAssumption
<1>2. M \in SUBSET Nat /\ M # {}
  BY <1>1
<1>3. Min(M) \in M /\ \A y \in M : Min(M) <= y
  <2> HIDE DEF M
  <2> QED BY <1>2, LeastOfNats
<1>4. PICK g \in G : Min(g) = Min(M)
  BY <1>3
<1>5. \A o \in G : Min(g) <= Min(o)
  BY <1>3, <1>4
<1> QED BY <1>5 DEF FirstGroup

LEMMA AheadAreObserved ==
  ASSUME NEW obs
  PROVE  AheadWarehouses(obs) \subseteq DOMAIN obs
BY DEF AheadWarehouses

(* At one version and one cursor no warehouse is ahead of another. *)
LEMMA NoneAheadAtOneVersion ==
  ASSUME NEW ws \in SUBSET Warehouse, NEW obs \in [ws -> Record],
         SameVersionDivergence(obs)
  PROVE  AheadWarehouses(obs) = {}
<1>1. \A v, w \in ws : obs[v].version = obs[w].version
  BY DEF SameVersionDivergence, Several, Versions, Values, VersionOf
<1>2. \A v, w \in ws : obs[v].cursor = obs[w].cursor
  BY DEF SameVersionDivergence, Several, Cursors, Values, CursorOf
<1>3. SUFFICES ASSUME NEW w \in ws, NEW g \in ReferenceGroups(obs),
                      AheadOf(obs, w, g)
               PROVE  FALSE
  BY DEF AheadWarehouses
<1>4. Min(g) \in ws /\ StateOf(obs, g) = obs[Min(g)]
  BY ReferencesAreGroups, GroupStateIsObserved
<1>5. obs[w].version \in Nat /\ obs[w].cursor \in Nat
  BY DEF Record
<1> QED BY <1>1, <1>2, <1>3, <1>4, <1>5 DEF AheadOf

LEMMA ExtensionsAreFinite ==
  ASSUME NEW e, NEW ws, Assessed(e, ws)
  PROVE  /\ IsFiniteSet(Extensions(e))
         /\ \A p \in Extensions(e) : p[1] \in ws
<1>1. IsFiniteSet(ws) /\ IsFiniteSet(SUBSET ws)
  BY FleetAssumption, FS_Subset, FS_SUBSET DEF Assessed
<1>2. IsFiniteSet(ws \X SUBSET ws)
  BY <1>1, FS_Product
<1>3. ReferenceGroups(e.obs) \subseteq SUBSET ws
  BY ReferencesAreGroups, GroupsAreSound DEF Assessed
<1>4. Extensions(e) \subseteq ws \X SUBSET ws
  BY <1>3 DEF Extensions, NewerPairs, Assessed
<1> QED BY <1>2, <1>4, FS_Subset

-----------------------------------------------------------------------------
(* The decision *)

SoundReconciliation(d, obs) ==
  /\ d.outcome = "RECONCILE"
  /\ d.source \in DOMAIN obs
  /\ d.targets \subseteq DOMAIN obs
  /\ AheadWarehouses(obs) \subseteq {d.source}

SoundDecision(d, obs) ==
  \/ d \in {Escalate, NoAction}
  \/ \E ws \in SUBSET DOMAIN obs : d = Investigate(ws)
  \/ SoundReconciliation(d, obs)

LEMMA ExtensionIsSound ==
  ASSUME NEW e, NEW ws, Assessed(e, ws),
         Cardinality(Extensions(e)) = 1, UnsupportedAhead(e) = {}
  PROVE  LET source == (CHOOSE p \in Extensions(e) : TRUE)[1]
         IN  SoundReconciliation(Reconcile(source, DOMAIN e.obs \ {source}),
                                 e.obs)
<1>1. PICK p : Extensions(e) = {p}
  BY ExtensionsAreFinite, FS_Singleton
<1>2. (CHOOSE q \in Extensions(e) : TRUE) = p
  BY <1>1
<1>3. p[1] \in ws
  BY <1>1, ExtensionsAreFinite
<1>4. AheadWarehouses(e.obs) \subseteq {p[1]}
  BY <1>1 DEF UnsupportedAhead
<1> QED BY <1>2, <1>3, <1>4 DEF SoundReconciliation, Reconcile, Assessed

LEMMA RepairIsSound ==
  ASSUME NEW e, NEW ws, Assessed(e, ws), SameVersionDivergence(e.obs),
         RepairSupported(e)
  PROVE  SoundReconciliation(Reconcile(Min(Supported(e)), Contradicted(e)),
                             e.obs)
<1>1. Supported(e) # {} /\ Supported(e) \in SUBSET ws /\ ws \in SUBSET Warehouse
  BY DEF RepairSupported, Supported, Assessed
<1>2. Min(Supported(e)) \in ws
  BY <1>1, WarehousesAreNumbers
<1>3. Contradicted(e) \subseteq ws
  BY DEF RepairSupported, Assessed
<1>4. AheadWarehouses(e.obs) = {}
  BY NoneAheadAtOneVersion DEF Assessed
<1> QED BY <1>2, <1>3, <1>4 DEF SoundReconciliation, Reconcile, Assessed

LEMMA ReconcileStaleIsSound ==
  ASSUME NEW e, NEW ws, Assessed(e, ws), AheadWarehouses(e.obs) = {},
         GroupsWithStale(e) # {}
  PROVE  SoundReconciliation(ReconcileStale(e), e.obs)
<1> DEFINE g == FirstGroup(GroupsWithStale(e))
<1>1. ws \in SUBSET Warehouse /\ e.obs \in [ws -> Record] /\ DOMAIN e.obs = ws
  BY DEF Assessed
<1>2. GroupsWithStale(e) \in SUBSET AgreementGroups(e.obs)
  BY DEF GroupsWithStale, Agreeing
<1>3. g \in GroupsWithStale(e)
  BY <1>1, <1>2, FirstGroupIsAGroup
<1>4. g \in AgreementGroups(e.obs) /\ BehindGroup(e.obs, g) # {}
  BY <1>2, <1>3 DEF GroupsWithStale
<1>5. Min(g) \in ws
  BY <1>1, <1>4, GroupStateIsObserved
<1>6. BehindGroup(e.obs, g) \in SUBSET ws
  BY <1>1 DEF BehindGroup
<1>7. Min(BehindGroup(e.obs, g)) \in ws
  <2>1. BehindGroup(e.obs, g) \in SUBSET Warehouse
    BY <1>1, <1>6
  <2> QED BY <1>4, <1>6, <2>1, WarehousesAreNumbers
<1>8. ReconcileStale(e) = Reconcile(Min(g), {Min(BehindGroup(e.obs, g))})
  BY DEF ReconcileStale
<1> HIDE DEF g
<1> QED BY <1>1, <1>5, <1>7, <1>8 DEF SoundReconciliation, Reconcile

(* A decision to reconcile has an observed source and observed targets and *)
(* no warehouse is ahead of the others but the source; an investigation is *)
(* of observed warehouses (policy.py:29-223).                              *)
THEOREM DecisionsAreSound ==
  ASSUME NEW e, NEW ws, Assessed(e, ws)
  PROVE  SoundDecision(Decide(e), e.obs)
<1> DEFINE ahead == AheadWarehouses(e.obs)
           ext == Extensions(e)
           source == (CHOOSE p \in ext : TRUE)[1]
<1>1. ahead \subseteq DOMAIN e.obs
  BY AheadAreObserved
<1>2. UnsupportedAhead(e) \ Investigated(e) \subseteq DOMAIN e.obs
  BY <1>1 DEF UnsupportedAhead
<1>3. CASE Decide(e) \in {Escalate, NoAction}
  BY <1>3 DEF SoundDecision
<1>4. CASE Decide(e) \in {Investigate(ahead), Investigate(DOMAIN e.obs),
                         Investigate(UnsupportedAhead(e) \ Investigated(e))}
  BY <1>1, <1>2, <1>4, Zenon DEF SoundDecision
<1>5. CASE /\ Cardinality(ext) = 1 /\ UnsupportedAhead(e) = {}
           /\ Decide(e) = Reconcile(source, DOMAIN e.obs \ {source})
  BY <1>5, ExtensionIsSound DEF SoundDecision
<1>6. CASE /\ SameVersionDivergence(e.obs) /\ RepairSupported(e)
           /\ Decide(e) = Reconcile(Min(Supported(e)), Contradicted(e))
  BY <1>6, RepairIsSound DEF SoundDecision
<1>7. CASE /\ ahead = {} /\ GroupsWithStale(e) # {}
           /\ Decide(e) = ReconcileStale(e)
  BY <1>7, ReconcileStaleIsSound DEF SoundDecision
<1> QED BY <1>3, <1>4, <1>5, <1>6, <1>7 DEF Decide, Repair

(* The reassessment after an investigation only ever escalates more. *)
LEMMA ReassessedIsSound ==
  ASSUME NEW e, NEW ws, Assessed(e, ws), NEW plan
  PROVE  SoundDecision(Reassessed(plan, e), e.obs)
<1>1. Reassessed(plan, e) \in {Escalate, Decide(e)}
  BY DEF Reassessed
<1> QED BY <1>1, DecisionsAreSound DEF SoundDecision

LEMMA ReconcileIsSound ==
  ASSUME NEW d, NEW obs, SoundDecision(d, obs), d.outcome = "RECONCILE"
  PROVE  SoundReconciliation(d, obs)
<1>1. Escalate.outcome = "ESCALATE" /\ NoAction.outcome = "NO_ACTION"
  BY DEF Escalate, NoAction
<1>2. \A ws : Investigate(ws).outcome = "INVESTIGATE"
  BY DEF Investigate, Escalate
<1> QED BY <1>1, <1>2 DEF SoundDecision

-----------------------------------------------------------------------------
(* The plan *)

LEMMA VersionsAreFinite ==
  ASSUME NEW ws, IsFiniteSet(ws), NEW obs \in [ws -> Record], ws # {}
  PROVE  Versions(obs) \in SUBSET Nat /\ IsFiniteSet(Versions(obs)) /\ Versions(obs) # {}
<1> DEFINE f == [w \in ws |-> obs[w].version]
<1>1. Versions(obs) = {obs[w].version : w \in ws}
  BY DEF Versions, Values, VersionOf
<1>2. f \in Surjection(ws, Versions(obs))
  BY <1>1 DEF Surjection
<1>3. IsFiniteSet(Versions(obs))
  <2> HIDE DEF f
  <2> QED BY <1>2, FS_Surjection
<1>4. \A w \in ws : obs[w].version \in Nat
  BY DEF Record
<1> QED BY <1>1, <1>3, <1>4

(* A plan for a sound decision is made of what was observed, and its       *)
(* version is a number even when it is a new one (planner.py).             *)
LEMMA PlansAreSound ==
  ASSUME NEW ws \in SUBSET Warehouse, NEW obs \in [ws -> Record], NEW d,
         SoundReconciliation(d, obs)
  PROVE  LET plan == ReconciliationPlan(d, obs) IN
         /\ plan = [source |-> d.source, inventory |-> plan.inventory,
                    version |-> plan.version, repair |-> plan.repair,
                    participants |-> ws, targets |-> plan.targets]
         /\ plan.inventory \in Inventory
         /\ plan.version \in Nat
         /\ plan.repair \in BOOLEAN
         /\ plan.targets \in SUBSET ws
<1>1. d.source \in ws /\ d.targets \subseteq ws /\ DOMAIN obs = ws
  BY DEF SoundReconciliation
<1>2. obs[d.source].inventory \in Inventory /\ obs[d.source].version \in Nat
  BY <1>1 DEF Record
<1>3. IsFiniteSet(ws)
  BY FleetAssumption, FS_Subset
<1>4. Max(Versions(obs)) \in Nat
  BY <1>1, <1>3, VersionsAreFinite, GreatestOfNats
<1>5. IsRepair(d, obs) \in BOOLEAN
  BY DEF IsRepair
<1> QED BY <1>1, <1>2, <1>4, <1>5 DEF ReconciliationPlan

-----------------------------------------------------------------------------
(* Results by warehouse *)

Partial(S) == UNION {[ws -> S] : ws \in SUBSET Warehouse}

LEMMA PartialIsPartial ==
  ASSUME NEW S, NEW f
  PROVE  IsPartial(f, S) <=> f \in Partial(S)
BY DEF IsPartial, Partial

LEMMA EmptyIsPartial ==
  ASSUME NEW S
  PROVE  <<>> \in Partial(S) /\ DOMAIN <<>> = {}
<1>1. <<>> \in [{} -> S]
  OBVIOUS
<1> QED BY <1>1 DEF Partial

LEMMA PartialFunctions ==
  ASSUME NEW S, NEW f \in Partial(S)
  PROVE  DOMAIN f \in SUBSET Warehouse /\ f \in [DOMAIN f -> S]
BY DEF Partial

LEMMA WithDomain ==
  ASSUME NEW f, NEW w, NEW x
  PROVE  DOMAIN With(f, w, x) = DOMAIN f \cup {w}
BY DEF With

LEMMA WithValue ==
  ASSUME NEW f, NEW w, NEW x, NEW v \in DOMAIN f \cup {w}
  PROVE  With(f, w, x)[v] = IF v = w THEN x ELSE f[v]
BY DEF With

LEMMA WithType ==
  ASSUME NEW S, NEW f \in Partial(S), NEW w \in Warehouse, NEW x \in S
  PROVE  With(f, w, x) \in Partial(S)
<1>1. DOMAIN f \in SUBSET Warehouse /\ f \in [DOMAIN f -> S]
  BY PartialFunctions
<1>2. DOMAIN f \cup {w} \in SUBSET Warehouse
  BY <1>1
<1>3. With(f, w, x) \in [DOMAIN f \cup {w} -> S]
  BY <1>1 DEF With
<1> QED BY <1>2, <1>3 DEF Partial

LEMMA NoPlanIsAPlan ==
  NoPlan \in Plan /\ NoPlan.targets = {}
BY DEF NoPlan, Plan, NoSource, Inventory

(* A plan for a sound decision is a plan for what was observed. *)
LEMMA PlansAreTyped ==
  ASSUME NEW obs \in Partial(Record), NEW d, SoundReconciliation(d, obs)
  PROVE  /\ ReconciliationPlan(d, obs) \in Plan
         /\ ReconciliationPlan(d, obs).participants = DOMAIN obs
         /\ ReconciliationPlan(d, obs).targets \subseteq DOMAIN obs
         /\ ReconciliationPlan(d, obs).source \in DOMAIN obs
<1> DEFINE plan == ReconciliationPlan(d, obs)
           ws == DOMAIN obs
<1>1. ws \in SUBSET Warehouse /\ obs \in [ws -> Record]
  BY PartialFunctions
<1>2. /\ plan = [source |-> d.source, inventory |-> plan.inventory,
                 version |-> plan.version, repair |-> plan.repair,
                 participants |-> ws, targets |-> plan.targets]
      /\ plan.inventory \in Inventory
      /\ plan.version \in Nat
      /\ plan.repair \in BOOLEAN
      /\ plan.targets \in SUBSET ws
  BY <1>1, PlansAreSound
<1>3. d.source \in ws
  BY DEF SoundReconciliation
<1> HIDE DEF plan
<1>4. plan \in Plan
  BY <1>1, <1>2, <1>3 DEF Plan
<1>5. plan.participants = ws /\ plan.source = d.source
  BY <1>2
<1> QED BY <1>2, <1>3, <1>4, <1>5 DEF plan

-----------------------------------------------------------------------------
(* What is decided of the conflicts that the agent is promised to resolve *)

LEMMA KeysAreEqual ==
  ASSUME NEW x, NEW y, LogicalKey(x) = LogicalKey(y)
  PROVE  /\ x.inventory = y.inventory /\ x.version = y.version
         /\ x.cursor = y.cursor /\ x.last = y.last
BY DEF LogicalKey

(* One warehouse at another version than the others, which agree *)
Odd(obs, w) ==
  /\ Several(Warehouse \ {w})
  /\ \A u, v \in Warehouse \ {w} : LogicalKey(obs[u]) = LogicalKey(obs[v])
  /\ \A v \in Warehouse \ {w} : obs[v].version # obs[w].version

LEMMA OddOneOut ==
  ASSUME NEW obs, DOMAIN obs = Warehouse, NEW w \in Warehouse, Odd(obs, w)
  PROVE  LET g == Warehouse \ {w} IN
         /\ AgreementGroups(obs) = {g, {w}}
         /\ Cardinality(AgreementGroups(obs)) # 1
         /\ Agreeing(obs) = {g} /\ ReferenceGroups(obs) = {g}
         /\ Min(g) \in g
         /\ \A v \in g : LogicalKey(obs[v]) = LogicalKey(StateOf(obs, g))
<1> DEFINE g == Warehouse \ {w}
           group(x) == {v \in Warehouse : LogicalKey(obs[v]) = LogicalKey(obs[x])}
<1>1. \A v \in g : LogicalKey(obs[v]) # LogicalKey(obs[w])
  BY KeysAreEqual DEF Odd
<1>2. group(w) = {w}
  BY <1>1
<1>3. ASSUME NEW v \in g PROVE group(v) = g
  BY <1>1, <1>3 DEF Odd
<1>4. PICK a, b \in g : a # b
  BY DEF Odd, Several
<1>5. AgreementGroups(obs) = {group(x) : x \in Warehouse}
  BY DEF AgreementGroups
<1> HIDE DEF group
<1>6. AgreementGroups(obs) = {g, {w}}
  <2>1. \A x \in Warehouse : group(x) \in {g, {w}}
    BY <1>2, <1>3
  <2>2. g = group(a) /\ {w} = group(w)
    BY <1>2, <1>3, <1>4
  <2> QED BY <1>4, <1>5, <2>1, <2>2
<1>7. Cardinality({g, {w}}) # 1
  <2>1. IsFiniteSet({g, {w}})
    <3> DEFINE S == {{w}}
    <3>1. IsFiniteSet(S) /\ {g, {w}} = S \cup {g}
      BY FS_Singleton
    <3> HIDE DEF S, g
    <3> QED BY <3>1, FS_AddElement
  <2>2. g # {w}
    OBVIOUS
  <2> HIDE DEF g
  <2>3. ~ \E x : {g, {w}} = {x}
    BY <2>2
  <2> QED BY <2>1, <2>3, FS_Singleton
<1>8. Several(g) /\ ~Several({w})
  BY <1>4 DEF Several
<1>9. Agreeing(obs) = {g}
  BY <1>6, <1>8 DEF Agreeing
<1>10. ReferenceGroups(obs) = {g}
  BY <1>9 DEF ReferenceGroups
<1>11. Min(g) \in g
  <2>1. g \in SUBSET Warehouse /\ g # {}
    BY <1>4
  <2> HIDE DEF g
  <2> QED BY <2>1, WarehousesAreNumbers
<1>12. \A v \in g : LogicalKey(obs[v]) = LogicalKey(StateOf(obs, g))
  BY <1>11 DEF Odd, StateOf
<1> QED BY <1>6, <1>7, <1>9, <1>10, <1>11, <1>12

(* Records of every warehouse, all of one product, and histories of some *)
Observed(e) ==
  /\ e.obs \in [Warehouse -> Record]
  /\ ~IdentityMismatch(e.obs)
  /\ Investigated(e) \subseteq Warehouse

(* Without a history nothing is extended, supported or contradicted. *)
LEMMA NoHistory ==
  ASSUME NEW e, Observed(e), Investigated(e) = {}
  PROVE  ~Unsafe(e) /\ Extensions(e) = {} /\ Cardinality(Extensions(e)) = 0
<1>1. Extensions(e) = {}
  BY DEF Extensions, NewerPairs
<1>2. Cardinality(Extensions(e)) = 0
  BY <1>1, FS_EmptySet
<1>3. ~HistoriesContradict(e)
  BY <1>1 DEF HistoriesContradict, EveryHistoryRead, CompetingBranches
<1>4. ~IdentityMismatch(e.obs) /\ ~MissingState(e.obs)
  BY DEF Observed, MissingState
<1> QED BY <1>1, <1>2, <1>3, <1>4 DEF Unsafe

(* A warehouse that is one event behind the others, which agree, is        *)
(* brought to their state (policy.py:209-223).                             *)
LEMMA StaleIsReconciled ==
  ASSUME NEW e, Observed(e), Investigated(e) = {},
         NEW w \in Warehouse, Odd(e.obs, w),
         \A v \in Warehouse \ {w} : /\ e.obs[w].version < e.obs[v].version
                                    /\ e.obs[w].cursor < e.obs[v].cursor
  PROVE  Decide(e) = Reconcile(Min(Warehouse \ {w}), {w})
<1> DEFINE g == Warehouse \ {w}
           obs == e.obs
<1>1. DOMAIN obs = Warehouse
  BY DEF Observed
<1>2. /\ Cardinality(AgreementGroups(obs)) # 1
      /\ Agreeing(obs) = {g} /\ ReferenceGroups(obs) = {g}
      /\ Min(g) \in g
  BY <1>1, OddOneOut
<1>3. ~Unsafe(e) /\ Extensions(e) = {} /\ Cardinality(Extensions(e)) = 0
  BY NoHistory
<1>4. StateOf(obs, g) = obs[Min(g)]
  BY DEF StateOf
<1>5. /\ obs[w].version < StateOf(obs, g).version
      /\ obs[w].cursor < StateOf(obs, g).cursor
  BY <1>2, <1>4
<1>6. /\ obs[w].version \in Nat /\ obs[w].cursor \in Nat
      /\ obs[Min(g)].version \in Nat /\ obs[Min(g)].cursor \in Nat
  BY <1>2 DEF Observed, Record
<1> HIDE DEF obs
<1>7. AheadWarehouses(obs) = {}
  <2>1. ASSUME NEW u \in Warehouse PROVE ~AheadOf(obs, u, g)
    <3>1. CASE u = w
      BY <1>4, <1>5, <1>6, <3>1 DEF AheadOf
    <3>2. CASE u # w
      BY <3>2 DEF AheadOf
    <3> QED BY <3>1, <3>2
  <2> HIDE DEF g
  <2> QED BY <1>1, <1>2, <2>1 DEF AheadWarehouses
<1>8. ~SameVersionDivergence(obs)
  <2>1. obs[w].version # obs[Min(g)].version
    BY <1>4, <1>5, <1>6
  <2>2. Several(Versions(obs))
    BY <1>1, <1>2, <2>1 DEF Several, Versions, Values, VersionOf
  <2> QED BY <2>2 DEF SameVersionDivergence
<1>9. BehindGroup(obs, g) = {w}
  BY <1>1, <1>5 DEF BehindGroup
<1>10. GroupsWithStale(e) = {g}
  BY <1>2, <1>9 DEF GroupsWithStale, obs
<1>11. FirstGroup({g}) = g
  <2> HIDE DEF g
  <2>1. Min(g) <= Min(g)
    BY <1>2, FleetAssumption DEF g
  <2> QED BY <2>1 DEF FirstGroup
<1>12. Min({w}) = w
  BY WarehousesAreNumbers
<1>13. ReconcileStale(e) = Reconcile(Min(g), {w})
  BY <1>9, <1>10, <1>11, <1>12 DEF ReconcileStale, obs
<1> HIDE DEF g
<1>14. UnsupportedAhead(e) = {}
  BY <1>7 DEF UnsupportedAhead, obs
<1>15. Decide(e) = ReconcileStale(e)
  BY <1>2, <1>3, <1>7, <1>8, <1>10, <1>14 DEF Decide, Unanimous, obs
<1> QED BY <1>13, <1>15 DEF g

-----------------------------------------------------------------------------
LEMMA ReconcileFields ==
  ASSUME NEW source, NEW targets
  PROVE  /\ Reconcile(source, targets).outcome = "RECONCILE"
         /\ Reconcile(source, targets).source = source
         /\ Reconcile(source, targets).targets = targets
BY DEF Reconcile

LEMMA InvestigateFields ==
  ASSUME NEW ws
  PROVE  /\ Investigate(ws).outcome = "INVESTIGATE"
         /\ Investigate(ws).investigate = ws
BY DEF Investigate, Escalate

(* One warehouse is at a later version and a later cursor than the others, *)
(* which agree.                                                            *)
Leads(obs, w) ==
  /\ Odd(obs, w)
  /\ \A v \in Warehouse \ {w} : /\ obs[v].version < obs[w].version
                                 /\ obs[v].cursor < obs[w].cursor

LEMMA LeaderIsAhead ==
  ASSUME NEW obs \in [Warehouse -> Record], NEW w \in Warehouse, Leads(obs, w)
  PROVE  LET g == Warehouse \ {w} IN
         /\ AheadWarehouses(obs) = {w}
         /\ \A u \in Warehouse, h \in ReferenceGroups(obs) :
              AheadOf(obs, u, h) <=> u = w
         /\ ReferenceGroups(obs) = {g}
         /\ Min(g) \in g /\ StateOf(obs, g) = obs[Min(g)]
         /\ ~SameVersionDivergence(obs)
         /\ Cardinality(AgreementGroups(obs)) # 1
<1> DEFINE g == Warehouse \ {w}
<1>1. DOMAIN obs = Warehouse /\ Odd(obs, w)
  BY DEF Leads
<1>2. /\ Cardinality(AgreementGroups(obs)) # 1
      /\ ReferenceGroups(obs) = {g} /\ Min(g) \in g
  BY <1>1, OddOneOut
<1>3. StateOf(obs, g) = obs[Min(g)]
  BY DEF StateOf
<1>4. /\ StateOf(obs, g).version < obs[w].version
      /\ StateOf(obs, g).cursor < obs[w].cursor
  BY <1>2, <1>3 DEF Leads
<1>5. /\ obs[w].version \in Nat /\ obs[w].cursor \in Nat
      /\ obs[Min(g)].version \in Nat /\ obs[Min(g)].cursor \in Nat
  BY <1>2 DEF Record
<1>6. ASSUME NEW u \in Warehouse PROVE AheadOf(obs, u, g) <=> u = w
  BY <1>3, <1>4, <1>5, <1>6 DEF AheadOf
<1>7. ~SameVersionDivergence(obs)
  <2>1. obs[w].version # obs[Min(g)].version
    BY <1>3, <1>4, <1>5
  <2>2. Several(Versions(obs))
    BY <1>1, <1>2, <2>1 DEF Several, Versions, Values, VersionOf
  <2> QED BY <2>2 DEF SameVersionDivergence
<1> HIDE DEF g
<1>8. AheadWarehouses(obs) = {w}
  BY <1>1, <1>2, <1>6 DEF AheadWarehouses
<1> QED BY <1>2, <1>3, <1>6, <1>7, <1>8 DEF g

(* Its history is read first (policy.py:190-199).                          *)
LEMMA NewerIsAskedFirst ==
  ASSUME NEW e, Observed(e), Investigated(e) = {},
         NEW w \in Warehouse, Leads(e.obs, w)
  PROVE  Decide(e) = Investigate({w})
<1>1. e.obs \in [Warehouse -> Record]
  BY DEF Observed
<1>2. /\ AheadWarehouses(e.obs) = {w}
      /\ ~SameVersionDivergence(e.obs)
      /\ Cardinality(AgreementGroups(e.obs)) # 1
  BY <1>1, LeaderIsAhead
<1>3. ~Unsafe(e) /\ Extensions(e) = {} /\ Cardinality(Extensions(e)) = 0
  BY NoHistory
<1>4. Cardinality({w}) = 1 /\ {w} # {}
  BY FS_Singleton
<1> QED BY <1>2, <1>3, <1>4 DEF Decide, Unanimous

(* If it extends and explains the state of the others, it is the source    *)
(* for all of them (policy.py:83-121).                                     *)
LEMMA NewerIsReconciled ==
  ASSUME NEW e, Observed(e), NEW w \in Warehouse, Leads(e.obs, w),
         Investigated(e) = {w},
         \A v \in Warehouse \ {w} : /\ Extends(e.histories[w], e.obs[v])
                                    /\ Explains(e.histories[w], e.obs[v],
                                                e.obs[w])
  PROVE  Decide(e) = Reconcile(w, Warehouse \ {w})
<1> DEFINE g == Warehouse \ {w}
           obs == e.obs
           p == <<w, g>>
<1>1. obs \in [Warehouse -> Record] /\ DOMAIN obs = Warehouse
  BY DEF Observed
<1>2. /\ AheadWarehouses(obs) = {w}
      /\ ReferenceGroups(obs) = {g}
      /\ \A u \in Warehouse, h \in ReferenceGroups(obs) :
           AheadOf(obs, u, h) <=> u = w
      /\ Min(g) \in g /\ StateOf(obs, g) = obs[Min(g)]
      /\ Cardinality(AgreementGroups(obs)) # 1
  BY <1>1, LeaderIsAhead
<1>3. /\ Extends(e.histories[w], StateOf(obs, g))
      /\ Explains(e.histories[w], StateOf(obs, g), obs[w])
  BY <1>2
<1>4. \A q : q \in NewerPairs(e) <=> q = p
  <2> HIDE DEF g
  <2>1. \A q : q \in {w} \X {g} <=> q = p
    OBVIOUS
  <2>2. AheadOf(obs, p[1], p[2])
    BY <1>2
  <2> HIDE DEF p
  <2> QED BY <1>2, <2>1, <2>2 DEF NewerPairs, obs
<1>5. Extensible(e, p) /\ Explained(e, p)
  BY <1>3 DEF Extensible, Explained
<1>6. p[1] = w
  OBVIOUS
<1> HIDE DEF p, g
<1>7. \A q : q \in Extensions(e) <=> q = p
  BY <1>4, <1>5 DEF Extensions
<1>8. Extensions(e) = {p}
  BY <1>7
<1>9. Cardinality(Extensions(e)) = 1
  BY <1>8, FS_Singleton
<1>10. UnsupportedAhead(e) = {}
  BY <1>2, <1>6, <1>8 DEF UnsupportedAhead, obs
<1>11. ~HistoriesContradict(e)
  <2>1. g # {} /\ w \notin g
    BY <1>2 DEF g
  <2>2. ~EveryHistoryRead(e)
    BY <1>1, <2>1 DEF EveryHistoryRead, obs, g
  <2>3. ~CompetingBranches(e)
    BY <1>8 DEF CompetingBranches
  <2> QED BY <2>2, <2>3 DEF HistoriesContradict
<1>12. ~Unsafe(e)
  BY <1>11 DEF Unsafe, Observed, MissingState
<1>13. (CHOOSE q \in Extensions(e) : TRUE) = p
  BY <1>8
<1>14. Decide(e) = Reconcile(p[1], DOMAIN e.obs \ {p[1]})
  BY <1>2, <1>9, <1>10, <1>12, <1>13, Zenon DEF Decide, Unanimous, obs
<1> QED BY <1>1, <1>6, <1>14 DEF obs

LEMMA GroupsDiffer ==
  ASSUME NEW obs \in [Warehouse -> Record], Several(Inventories(obs))
  PROVE  Cardinality(AgreementGroups(obs)) # 1
<1> DEFINE group(x) == {v \in Warehouse : LogicalKey(obs[v]) = LogicalKey(obs[x])}
<1>1. PICK v, w \in Warehouse : obs[v].inventory # obs[w].inventory
  BY DEF Several, Inventories, Values, InventoryOf
<1>2. v \in group(v) /\ v \notin group(w)
  BY <1>1, KeysAreEqual
<1>3. AgreementGroups(obs) = {group(x) : x \in Warehouse}
  BY DEF AgreementGroups
<1>4. \A x \in Warehouse : group(x) \in SUBSET Warehouse
  OBVIOUS
<1> HIDE DEF group
<1>5. AgreementGroups(obs) \subseteq SUBSET Warehouse
  BY <1>3, <1>4
<1>6. IsFiniteSet(AgreementGroups(obs))
  BY <1>5, FleetAssumption, FS_SUBSET, FS_Subset
<1>7. ~ \E x : AgreementGroups(obs) = {x}
  BY <1>2, <1>3
<1> QED BY <1>6, <1>7, FS_Singleton

(* At one version nothing is newer, so no history extends another record.  *)
LEMMA NoNewerPairs ==
  ASSUME NEW e, Observed(e), SameVersionDivergence(e.obs)
  PROVE  /\ AheadWarehouses(e.obs) = {} /\ NewerPairs(e) = {}
         /\ Extensions(e) = {} /\ Cardinality(Extensions(e)) = 0
         /\ UnsupportedAhead(e) = {}
<1>1. e.obs \in [Warehouse -> Record] /\ DOMAIN e.obs = Warehouse
  BY DEF Observed
<1>2. AheadWarehouses(e.obs) = {}
  BY <1>1, NoneAheadAtOneVersion
<1>3. NewerPairs(e) = {}
  BY <1>1, <1>2 DEF NewerPairs, AheadWarehouses, Observed
<1>4. Extensions(e) = {}
  BY <1>3 DEF Extensions
<1> QED BY <1>2, <1>3, <1>4, FS_EmptySet DEF UnsupportedAhead

(* Different stock at one version: every history is read                   *)
(* (policy.py:201-207).                                                    *)
LEMMA DivergenceIsInvestigated ==
  ASSUME NEW e, Observed(e), Investigated(e) = {},
         SameVersionDivergence(e.obs)
  PROVE  Decide(e) = Investigate(Warehouse)
<1>1. e.obs \in [Warehouse -> Record] /\ DOMAIN e.obs = Warehouse
  BY DEF Observed
<1>2. Cardinality(AgreementGroups(e.obs)) # 1
  BY <1>1, GroupsDiffer DEF SameVersionDivergence
<1>3. ~Unsafe(e)
  BY NoHistory
<1>4. AheadWarehouses(e.obs) = {} /\ Cardinality(Extensions(e)) = 0
  BY NoNewerPairs
<1> QED BY <1>1, <1>2, <1>3, <1>4 DEF Decide, Unanimous

(* If they are one complete history that contradicts one of the records,   *)
(* that one is repaired (policy.py:123-165).                               *)
LEMMA DivergenceIsRepaired ==
  ASSUME NEW e, Observed(e), SameVersionDivergence(e.obs),
         Investigated(e) = Warehouse,
         \A v, u \in Warehouse : e.histories[v] = e.histories[u],
         \A v \in Warehouse : Complete(e.histories[v]),
         NEW w \in Warehouse, \A v \in Warehouse : Replays(e, v) <=> v # w
  PROVE  /\ Decide(e) = Reconcile(Min(Warehouse \ {w}), {w})
         /\ Min(Warehouse \ {w}) \in Warehouse \ {w}
<1>1. e.obs \in [Warehouse -> Record] /\ DOMAIN e.obs = Warehouse
  BY DEF Observed
<1>2. Cardinality(AgreementGroups(e.obs)) # 1
  BY <1>1, GroupsDiffer DEF SameVersionDivergence
<1>3. /\ NewerPairs(e) = {} /\ Extensions(e) = {}
      /\ Cardinality(Extensions(e)) = 0
  BY NoNewerPairs
<1>4. HistoriesAgree(e)
  BY <1>1 DEF HistoriesAgree, EveryHistoryRead, Several
<1>5. ~Unsafe(e)
  BY <1>1, <1>3, <1>4
     DEF Unsafe, Observed, MissingState, HistoriesContradict, CompetingBranches
<1>6. Supported(e) = Warehouse \ {w}
  BY DEF Supported
<1>7. Contradicted(e) = {w}
  BY <1>3 DEF Contradicted
<1>8. \E v \in Warehouse : v # w
  BY <1>1 DEF SameVersionDivergence, Several, Inventories, Values
<1>9. RepairSupported(e)
  BY <1>1, <1>4, <1>6, <1>7, <1>8, FS_Singleton DEF RepairSupported
<1>10. Decide(e) = Repair(e)
  BY <1>2, <1>3, <1>5, <1>9 DEF Decide, Unanimous
<1>11. Min(Warehouse \ {w}) \in Warehouse \ {w}
  BY <1>8, WarehousesAreNumbers
<1> QED BY <1>6, <1>7, <1>10, <1>11 DEF Repair

-----------------------------------------------------------------------------
(* What a plan does if each of its writes is taken                         *)

(* All participants come to hold the planned inventory at the planned      *)
(* version and at one cursor.                                              *)
Levels(plan, obs) ==
  /\ plan.participants = DOMAIN obs
  /\ plan.targets # {} /\ plan.targets \subseteq DOMAIN obs
  /\ \A w \in plan.targets : obs[w].version < plan.version
  /\ \A w \in DOMAIN obs \ plan.targets :
       obs[w].inventory = plan.inventory /\ obs[w].version = plan.version
  /\ \E c \in Nat : \A w \in DOMAIN obs :
       obs[w].cursor = IF w \in plan.targets THEN c - 1 ELSE c

(* The decision leads to such a plan and the plan is validated.            *)
Promising(d, obs) ==
  LET plan == ReconciliationPlan(d, obs)
  IN  /\ d.outcome = "RECONCILE"
      /\ SafePlan(plan, d, obs)
      /\ Levels(plan, obs)

(* Observed products are one product, so no target has another one than    *)
(* the source.                                                             *)
LEMMA OneProduct ==
  ASSUME NEW obs, ~IdentityMismatch(obs)
  PROVE  \A v, w \in DOMAIN obs : obs[v].product = obs[w].product
BY DEF IdentityMismatch, Several, Values, ProductOf

LEMMA SeveralOthers ==
  ASSUME Cardinality(Warehouse) >= 3, NEW w \in Warehouse
  PROVE  Several(Warehouse \ {w})
<1> DEFINE G == Warehouse \ {w}
<1>1. /\ IsFiniteSet(G) /\ Cardinality(Warehouse) \in Nat
      /\ Cardinality(G) = Cardinality(Warehouse) - 1
  BY FleetAssumption, FS_RemoveElement, FS_CardinalityType
<1> HIDE DEF G
<1>2. Cardinality(G) \notin {0, 1}
  BY <1>1
<1>3. PICK a \in G : TRUE
  BY <1>1, <1>2, FS_EmptySet
<1>4. PICK b \in G : b # a
  <2>1. SUFFICES ASSUME \A b \in G : b = a PROVE FALSE
    OBVIOUS
  <2>2. G = {a}
    BY <1>3, <2>1
  <2> QED BY <1>2, <2>2, FS_Singleton
<1> QED BY <1>3, <1>4 DEF Several, G

(* A plan that is no repair passes validation and levels its participants  *)
(* if its targets are one event behind the others, which are at the state  *)
(* of the source.                                                          *)
LEMMA ForwardPlans ==
  ASSUME ReadOnly = {},
         NEW obs \in [Warehouse -> Record], ~IdentityMismatch(obs),
         NEW source \in Warehouse, NEW targets \in SUBSET Warehouse,
         targets # {}, source \notin targets,
         \A w \in targets : /\ obs[w].version < obs[source].version
                            /\ obs[w].cursor + 1 = obs[source].cursor,
         \A w \in Warehouse \ targets :
            LogicalKey(obs[w]) = LogicalKey(obs[source])
  PROVE  LET d == Reconcile(source, targets) IN
         /\ Promising(d, obs)
         /\ ReconciliationPlan(d, obs).targets = targets
<1> DEFINE d == Reconcile(source, targets)
           plan == ReconciliationPlan(d, obs)
<1>1. d.outcome = "RECONCILE" /\ d.source = source /\ d.targets = targets
  BY ReconcileFields
<1> HIDE DEF d
<1>2. \A w \in Warehouse : obs[w].version \in Nat /\ obs[w].cursor \in Nat
                           /\ obs[w].inventory \in Inventory
  BY DEF Record
<1>3. ~IsRepair(d, obs) /\ IsRepair(d, obs) = FALSE
  BY <1>1, <1>2 DEF IsRepair
<1>4. /\ plan.source = source /\ plan.inventory = obs[source].inventory
      /\ plan.version = obs[source].version /\ plan.repair = FALSE
      /\ plan.participants = Warehouse /\ plan.targets = targets
  BY <1>1, <1>3 DEF ReconciliationPlan
<1> HIDE DEF plan
<1>5. SafePlan(plan, d, obs)
  <2>1. \A t \in targets : obs[t].product = obs[source].product
    BY OneProduct
  <2>2. \A t \in targets : /\ plan.version >= obs[t].version
                           /\ plan.version # obs[t].version
    BY <1>2, <1>4
  <2>3. plan.inventory \in Inventory
    BY <1>2, <1>4
  <2> QED BY <1>1, <1>4, <2>1, <2>2, <2>3 DEF SafePlan
<1>6. Levels(plan, obs)
  <2>1. \A w \in Warehouse \ targets : /\ obs[w].inventory = obs[source].inventory
                                       /\ obs[w].version = obs[source].version
                                       /\ obs[w].cursor = obs[source].cursor
    BY KeysAreEqual
  <2>2. \A w \in Warehouse :
          obs[w].cursor = IF w \in targets THEN obs[source].cursor - 1
                          ELSE obs[source].cursor
    BY <1>2, <2>1
  <2>3. obs[source].cursor \in Nat
    BY <1>2
  <2>4. DOMAIN obs = Warehouse
    OBVIOUS
  <2> QED BY <1>4, <2>1, <2>2, <2>3, <2>4 DEF Levels
<1> QED BY <1>1, <1>4, <1>5, <1>6 DEF Promising, plan, d

(* A repair passes validation and levels everything if all are at one      *)
(* version and cursor: it takes a version that no one has.                 *)
LEMMA RepairPlans ==
  ASSUME ReadOnly = {},
         NEW obs \in [Warehouse -> Record], ~IdentityMismatch(obs),
         SameVersionDivergence(obs),
         NEW source \in Warehouse, NEW w \in Warehouse,
         obs[w].inventory # obs[source].inventory
  PROVE  LET d == Reconcile(source, {w}) IN
         /\ Promising(d, obs)
         /\ ReconciliationPlan(d, obs).targets = Warehouse
<1> DEFINE d == Reconcile(source, {w})
           plan == ReconciliationPlan(d, obs)
           top == Max(Versions(obs))
<1>1. d.outcome = "RECONCILE" /\ d.source = source /\ d.targets = {w}
  BY ReconcileFields
<1> HIDE DEF d
<1>2. \A v \in Warehouse : obs[v].version \in Nat /\ obs[v].cursor \in Nat
                           /\ obs[v].inventory \in Inventory
  BY DEF Record
<1>3. \A u, v \in Warehouse : obs[u].version = obs[v].version
  BY DEF SameVersionDivergence, Several, Versions, Values, VersionOf
<1>4. \A u, v \in Warehouse : obs[u].cursor = obs[v].cursor
  BY DEF SameVersionDivergence, Several, Cursors, Values, CursorOf
<1>5. IsRepair(d, obs) = TRUE
  BY <1>1, <1>3 DEF IsRepair
<1>6. top \in Nat /\ \A v \in Warehouse : obs[v].version <= top
  <2>1. /\ Versions(obs) \in SUBSET Nat /\ IsFiniteSet(Versions(obs))
        /\ Versions(obs) # {}
    BY FleetAssumption, VersionsAreFinite
  <2>2. \A v \in Warehouse : obs[v].version \in Versions(obs)
    BY DEF Versions, Values, VersionOf
  <2> QED BY <2>1, <2>2, GreatestOfNats
<1>7. /\ plan.source = source /\ plan.inventory = obs[source].inventory
      /\ plan.version = top + 1 /\ plan.repair = TRUE
      /\ plan.participants = Warehouse /\ plan.targets = Warehouse
  BY <1>1, <1>5 DEF ReconciliationPlan
<1> HIDE DEF plan, top
<1>8. \A v \in Warehouse : obs[v].version < plan.version
  BY <1>2, <1>6, <1>7
<1>9. SafePlan(plan, d, obs)
  <2>1. \A t \in Warehouse : obs[t].product = obs[source].product
    BY OneProduct
  <2>2. \A t \in Warehouse : /\ plan.version >= obs[t].version
                             /\ plan.version # obs[t].version
    BY <1>2, <1>6, <1>7
  <2>3. plan.inventory \in Inventory
    BY <1>2, <1>7
  <2> QED BY <1>1, <1>7, <2>1, <2>2, <2>3 DEF SafePlan, top
<1>10. Levels(plan, obs)
  <2>1. \A v \in Warehouse : obs[v].cursor = (obs[source].cursor + 1) - 1
    BY <1>2, <1>4
  <2>2. obs[source].cursor + 1 \in Nat
    BY <1>2
  <2>3. DOMAIN obs = Warehouse
    OBVIOUS
  <2>4. \E c \in Nat : \A v \in Warehouse : obs[v].cursor = c - 1
    BY <2>1, <2>2
  <2> QED BY <1>7, <1>8, <2>3, <2>4 DEF Levels
<1> QED BY <1>1, <1>7, <1>9, <1>10 DEF Promising, plan, d

=============================================================================
