------------------------------- MODULE AgentRun -------------------------------
(***************************************************************************)
(* One run of the agent over every SKU of the warehouses: run_agent,       *)
(* run_agent_v2 and run_agent_v3 of agent/runner.py with the calls that    *)
(* agent/metrics.py counts.  Catalogues are read for all SKUs at once, the *)
(* histories of all conflicts in one gather(), and then one SKU after the  *)
(* other is written and verified, from what was read at the start.         *)
(*                                                                         *)
(* A step is what happens between two awaits of the run, or one warehouse  *)
(* answering one call, so the statuses ANALYSING, REASSESSING, PLANNING    *)
(* and VALIDATING are never seen.  What goes on in the warehouses during a *)
(* run is in Reconciliation, of which this module is a refinement for each *)
(* SKU (AgentRunRefinement).                                               *)
(***************************************************************************)
EXTENDS RunSteps

CONSTANTS
  Sku,           \* numbered in their sort order
  Shelves,       \* what the warehouses may hold at first
  AgentVersions, \* 1 reports conflicts, 2 decides, 3 reconciles
  HistoryLimit,  \* events asked for in an investigation (planner.py: 10)
  MaxLosses      \* bound: calls that get no answer

NoSku == 0       \* the SKU of a call that asks for the catalogue

ASSUME AgentRunAssumption ==
  /\ Sku \subseteq Nat \ {NoSku} /\ IsFiniteSet(Sku)
  /\ Shelves \subseteq [Warehouse -> [Sku -> Entry \cup {Missing}]]
  /\ AgentVersions \subseteq 1..3
  /\ HistoryLimit \in Nat \ {0} /\ MaxLosses \in Nat
  /\ ReadOnly \subseteq Warehouse

VARIABLES
  shelf,  \* warehouse -> SKU -> entry
  clock,  \* SKU -> the time; only writes to one SKU are ever compared
  run,    \* models.RunState
  late,   \* PUTs whose sender has given up
  losses

vars == <<shelf, clock, run, late, losses>>

-----------------------------------------------------------------------------
(* The state of a run.  "waiting" has the calls of the current gather();   *)
(* "calls" is the list of ApiCallMetric, a set because no call of a run is *)
(* repeated; "observed" has the warehouses whose catalogue was read, "obs" *)
(* what they hold of a SKU (RunState.products); "failed" has the SKUs with *)
(* a failed ExecutionResult.                                               *)

NewRun(version) ==
  [version |-> version, status |-> "starting", waiting |-> {}, calls |-> {},
   observed |-> {}, obs |-> [s \in Sku |-> <<>>],
   asked |-> {}, histories |-> [s \in Sku |-> <<>>], decisions |-> <<>>,
   plans |-> <<>>, current |-> NoSku, todo |-> {}, failed |-> {},
   checked |-> <<>>, verified |-> {}, resolutions |-> <<>>]

Observing(version) ==
  [NewRun(version) EXCEPT !.status = "observing",
                          !.waiting = Warehouse \X {NoSku}]

Over(r) == r.status \in {"completed", "failed"}

Conflicts(r) ==
  {s \in Sku : DOMAIN r.obs[s] # {} /\ Conflict(r.obs[s])}

EvidenceOf(r, s) == [obs |-> r.obs[s], histories |-> r.histories[s]]

AskedOf(r, s) == {w \in Warehouse : <<w, s>> \in r.asked}

(* Faulty: a call is recorded when it is answered. *)
CalledIfAnswered(r, purpose, w, s, answer) ==
  [r EXCEPT !.waiting = @ \ {<<w, s>>},
            !.calls = IF answer = "lost" THEN @
                      ELSE @ \cup {[purpose |-> purpose, to |-> w, sku |-> s,
                                    answer |-> answer]}]

(* A call is over: client.py records it whatever its end is. *)
Called(r, purpose, w, s, answer) ==
  [r EXCEPT !.waiting = @ \ {<<w, s>>},
            !.calls = @ \cup {[purpose |-> purpose, to |-> w, sku |-> s,
                               answer |-> answer]}]

Purpose(status) ==
  CASE status = "observing" -> "catalogue"
    [] status = "investigating" -> "events"
    [] status = "executing" -> "write"
    [] status = "verifying" -> "verification"

-----------------------------------------------------------------------------
(* Between two awaits *)

PlanFor(r, s) == ReconciliationPlan(r.decisions[s], r.obs[s])

Executable(r, s) ==
  /\ r.decisions[s].outcome = "RECONCILE"
  /\ PlanFor(r, s).targets # {}
  /\ SafePlan(PlanFor(r, s), r.decisions[s], r.obs[s])

Unwritten(d) == IF d.outcome = "NO_ACTION" THEN "NO_ACTION" ELSE "ESCALATED"

(* Faulty: the loop ends at a SKU that it does not reconcile. *)
ProceedToFirst(r) ==
  LET open == DOMAIN r.decisions \ DOMAIN r.resolutions
      s == Min(open)
  IN  IF open = {} THEN [r EXCEPT !.status = "completed", !.current = NoSku]
      ELSE IF ~Executable(r, s)
        THEN [r EXCEPT !.status = "completed", !.current = NoSku,
                       !.resolutions = With(@, s, Unwritten(r.decisions[s]))]
      ELSE [r EXCEPT !.status = "executing", !.current = s,
                     !.plans = With(@, s, PlanFor(r, s)),
                     !.todo = PlanFor(r, s).targets,
                     !.checked = With(@, s, <<>>)]

(* The loop over the decisions, up to the next SKU that is to be written   *)
Proceed(r) ==
  LET open == DOMAIN r.decisions \ DOMAIN r.resolutions
      ready == {s \in open : Executable(r, s)}
      passed == {s \in open : \A t \in ready : s < t}
      next == [r EXCEPT !.resolutions =
                 [s \in DOMAIN @ \cup passed |->
                    IF s \in DOMAIN @ THEN @[s] ELSE Unwritten(r.decisions[s])]]
      s == Min(ready)
  IN  IF ready = {}
      THEN [next EXCEPT !.status = "completed", !.current = NoSku]
      ELSE [next EXCEPT !.status = "executing", !.current = s,
                        !.plans = With(@, s, PlanFor(r, s)),
                        !.todo = PlanFor(r, s).targets,
                        !.checked = With(@, s, <<>>)]

(* run_agent_v2 has decided. *)
Decided(r) ==
  IF r.version = 2 THEN [r EXCEPT !.status = "completed"] ELSE Proceed(r)

Decisions(r) == [s \in Conflicts(r) |-> Decide(EvidenceOf(r, s))]

Analysis(r, decisions) ==
  LET asked == {c \in Warehouse \X Conflicts(r) :
                  c[1] \in InvestigationPlan(decisions[c[2]],
                                             EvidenceOf(r, c[2]))}
      next == [r EXCEPT !.decisions = decisions, !.asked = asked]
  IN  IF r.observed # Warehouse THEN [r EXCEPT !.status = "failed"]
      ELSE IF r.version = 1 THEN [r EXCEPT !.status = "completed"]
      ELSE IF asked = {} THEN Decided(next)
      ELSE [next EXCEPT !.status = "investigating", !.waiting = asked]

Reassessments(r) ==
  [s \in DOMAIN r.decisions |->
     IF r.decisions[s].outcome # "INVESTIGATE" THEN r.decisions[s]
     ELSE Reassessed(AskedOf(r, s), EvidenceOf(r, s))]

Request(r, w) ==
  [expected |-> r.obs[r.current][w].version,
   target |-> r.plans[r.current].version,
   inventory |-> r.plans[r.current].inventory]

Message(r, w) == [sku |-> r.current, to |-> w, request |-> Request(r, w)]

(* Faulty: a failed action does not end the plan's execution. *)
SentAndOn(r, w, answer) ==
  LET next == [Called(r, "write", w, r.current, answer)
                 EXCEPT !.todo = @ \ {w}]
  IN  IF next.todo # {} THEN next
      ELSE [next EXCEPT !.status = "verifying",
              !.waiting = r.plans[r.current].participants \X {r.current}]

(* Faulty: what was not sent is not forgotten. *)
SentOrGivenUp(r, w, answer) ==
  LET next == [Called(r, "write", w, r.current, answer)
                 EXCEPT !.todo = @ \ {w},
                        !.failed = IF answer = "ok" THEN @
                                   ELSE @ \cup {r.current}]
  IN  IF answer = "ok" /\ next.todo # {} THEN next
      ELSE [next EXCEPT !.status = "verifying",
              !.waiting = r.plans[r.current].participants \X {r.current}]

(* After the end of one PUT: the next, or after a failure or the last one  *)
(* the verification of every participant                                   *)
Sent(r, w, answer) ==
  LET next == [Called(r, "write", w, r.current, answer)
                 EXCEPT !.todo = IF answer = "ok" THEN @ \ {w} ELSE {},
                        !.failed = IF answer = "ok" THEN @
                                   ELSE @ \cup {r.current}]
  IN  IF next.todo # {} THEN next
      ELSE [next EXCEPT !.status = "verifying",
              !.waiting = r.plans[r.current].participants \X {r.current}]

(* Faulty: the records that could be read decide. *)
ResolutionOfWhatWasRead(r) ==
  LET s == r.current
      plan == r.plans[s]
  IN  Proceed([r EXCEPT
        !.resolutions = With(@, s,
          IF \A w \in DOMAIN r.checked[s] :
               /\ r.checked[s][w].inventory = plan.inventory
               /\ r.checked[s][w].version = plan.version
          THEN "RESOLVED" ELSE "ESCALATED")])

Resolution(r) ==
  LET s == r.current
      verified == Verified([plan |-> r.plans[s], checked |-> r.checked[s]])
  IN  Proceed([r EXCEPT
        !.verified = IF verified THEN @ \cup {s} ELSE @,
        !.resolutions = With(@, s, IF s \notin r.failed /\ verified
                                   THEN "RESOLVED" ELSE "ESCALATED")])

-----------------------------------------------------------------------------
Init ==
  /\ shelf \in Shelves
  /\ clock = [s \in Sku |-> 10]
  /\ run \in {NewRun(version) : version \in AgentVersions}
  /\ late = {}
  /\ losses = 0

world == <<shelf, clock, late>>

Begin ==
  /\ run.status = "starting"
  /\ run' = Observing(run.version)
  /\ UNCHANGED <<world, losses>>

(* GET /inventory *)
AnswerCatalogue(w) ==
  /\ run.status = "observing" /\ <<w, NoSku>> \in run.waiting
  /\ run' = [Called(run, "catalogue", w, NoSku, "ok") EXCEPT
       !.observed = @ \cup {w},
       !.obs = [s \in Sku |-> IF shelf[w][s] = Missing THEN @[s]
                              ELSE With(@[s], w, shelf[w][s].rec)]]
  /\ UNCHANGED <<world, losses>>

(* GET /inventory/{sku}/events *)
AnswerEvents(w, s) ==
  /\ run.status = "investigating" /\ <<w, s>> \in run.waiting
  /\ shelf[w][s] # Missing
  /\ run' = [Called(run, "events", w, s, "ok") EXCEPT
       !.histories[s] =
         With(@, w, RecentEvents(shelf[w][s].hist, HistoryLimit))]
  /\ UNCHANGED <<world, losses>>

(* GET /inventory/{sku} *)
AnswerVerification(w, s) ==
  /\ run.status = "verifying" /\ <<w, s>> \in run.waiting
  /\ shelf[w][s] # Missing
  /\ run' = [Called(run, "verification", w, s, "ok") EXCEPT
       !.checked[s] = With(@, w, shelf[w][s].rec)]
  /\ UNCHANGED <<world, losses>>

(* A GET gets no answer; its gather() goes on. *)
LoseRead(w, s) ==
  /\ <<w, s>> \in run.waiting
  /\ losses < MaxLosses
  /\ losses' = losses + 1
  /\ run' = Called(run, Purpose(run.status), w, s, "lost")
  /\ UNCHANGED world

(* (A quantifier over one value makes TLC evaluate the decisions once.)    *)
Analyse ==
  /\ run.status = "observing" /\ run.waiting = {}
  /\ \E decisions \in {Decisions(run)} : run' = Analysis(run, decisions)
  /\ UNCHANGED <<world, losses>>

Reassess ==
  /\ run.status = "investigating" /\ run.waiting = {}
  /\ \E decisions \in {Reassessments(run)} :
       run' = Decided([run EXCEPT !.decisions = decisions])
  /\ UNCHANGED <<world, losses>>

(* A PUT reaches its warehouse. *)
Handle(m, outcome) ==
  LET entry == shelf[m.to][m.sku]
  IN  /\ outcome = UpdateOutcome(entry.rec, m.request, m.to \notin ReadOnly)
      /\ IF outcome = "updated"
         THEN /\ shelf' = [shelf EXCEPT ![m.to][m.sku] =
                             AfterUpdate(@, m.request, clock[m.sku])]
              /\ clock' = [clock EXCEPT ![m.sku] = @ + 1]
         ELSE UNCHANGED <<shelf, clock>>

Outcomes == {"not_writable", "version_conflict", "target_version",
             "same_version_inventory", "unchanged", "updated"}

ExecuteUpdate ==
  /\ run.status = "executing"
  /\ \E outcome \in Outcomes :
       /\ Handle(Message(run, Min(run.todo)), outcome)
       /\ run' = Sent(run, Min(run.todo),
                      IF outcome \in {"unchanged", "updated"} THEN "ok"
                      ELSE "rejected")
  /\ UNCHANGED <<late, losses>>

(* No answer to a PUT: it may reach the warehouse later, or never. *)
LoseUpdate ==
  /\ run.status = "executing"
  /\ losses < MaxLosses
  /\ losses' = losses + 1
  /\ late' = late \cup {Message(run, Min(run.todo))}
  /\ run' = Sent(run, Min(run.todo), "lost")
  /\ UNCHANGED <<shelf, clock>>

HandleLate(m) ==
  /\ late' = late \ {m}
  /\ \E outcome \in Outcomes : Handle(m, outcome)
  /\ UNCHANGED <<run, losses>>

Resolve ==
  /\ run.status = "verifying" /\ run.waiting = {}
  /\ run' = Resolution(run)
  /\ UNCHANGED <<world, losses>>

-----------------------------------------------------------------------------
Answered ==
  \E w \in Warehouse : \/ AnswerCatalogue(w)
                       \/ \E s \in Sku : AnswerEvents(w, s)
                       \/ \E s \in Sku : AnswerVerification(w, s)

RunStep == Answered \/ Analyse \/ Reassess \/ ExecuteUpdate \/ Resolve

Fault ==
  \/ \E w \in Warehouse, s \in Sku \cup {NoSku} : LoseRead(w, s)
  \/ LoseUpdate
  \/ \E m \in late : HandleLate(m)

Terminated == Over(run) /\ UNCHANGED vars

Next == Begin \/ RunStep \/ Fault \/ Terminated

Spec == Init /\ [][Next]_vars

-----------------------------------------------------------------------------
RunOK(r) ==
  /\ r.version \in 1..3
  /\ r.status \in {"starting", "observing", "investigating", "executing",
                   "verifying", "completed", "failed"}
  /\ r.waiting \subseteq Warehouse \X (Sku \cup {NoSku})
  /\ r.asked \subseteq Warehouse \X Sku
  /\ r.observed \subseteq Warehouse
  /\ \A s \in Sku : /\ IsPartial(r.obs[s], Record)
                    /\ DOMAIN r.obs[s] \subseteq r.observed
                    /\ DOMAIN r.histories[s] \subseteq AskedOf(r, s)
  /\ DOMAIN r.resolutions \subseteq DOMAIN r.decisions
  /\ DOMAIN r.decisions \subseteq Sku
  /\ DOMAIN r.plans = DOMAIN r.checked /\ DOMAIN r.plans \subseteq Sku
  /\ \A s \in DOMAIN r.plans :
       r.plans[s] \in Plan /\ IsPartial(r.checked[s], Record)
  /\ r.failed \cup r.verified \subseteq DOMAIN r.plans
  /\ r.current \in DOMAIN r.plans \cup {NoSku}
  /\ r.todo \subseteq Warehouse
  /\ r.todo # {} <=> r.status = "executing"

TypeOK ==
  /\ \A w \in Warehouse, s \in Sku : shelf[w][s] \in Entry \cup {Missing}
  /\ clock \in [Sku -> Nat]
  /\ RunOK(run)
  /\ \A m \in late : m.to \in Warehouse /\ m.sku \in Sku
                     /\ m.request \in UpdateRequest
  /\ losses \in 0..MaxLosses

-----------------------------------------------------------------------------
(* Properties *)

Count(purpose) == Cardinality({c \in run.calls : c.purpose = purpose})

NothingLost == \A c \in run.calls : c.answer # "lost"

(* A call of SKU s, or one that every SKU depends on, got no answer.       *)
Hurt(s) ==
  \E c \in run.calls : c.answer = "lost" /\ c.sku \in {s, NoSku}

(* What is RESOLVED stays as verified: no PUT for it is under way any more *)
(* (executor.py:38-54 counts an unanswered PUT as failed, and a failed     *)
(* action makes the SKU ESCALATED even when verification succeeds).        *)
ResolvedIsQuiet ==
  \A s \in DOMAIN run.resolutions :
    run.resolutions[s] = "RESOLVED" => \A m \in late : m.sku # s

(* A run that is COMPLETED has one resolution for every conflict and none  *)
(* for another SKU, and it ends otherwise only for a catalogue that it     *)
(* could not read, whatever calls fail later on.                           *)
EveryConflictIsAnswered ==
  /\ run.status = "completed" /\ run.version = 3 =>
       DOMAIN run.resolutions = Conflicts(run)
  /\ run.status = "failed" => \E c \in run.calls : c.purpose = "catalogue"
                                                 /\ c.answer = "lost"

-----------------------------------------------------------------------------
(* The conflicts of the scenarios (agent_v3.md:108-127), by what is seen   *)

OneBehind(obs, w, v) ==
  obs[w].version + 1 = obs[v].version /\ obs[w].cursor + 1 = obs[v].cursor

OthersAgree(obs, w) ==
  \A u, v \in Warehouse \ {w} : LogicalKey(obs[u]) = LogicalKey(obs[v])

Stale(obs) ==
  \E w \in Warehouse : /\ OthersAgree(obs, w)
                       /\ \A v \in Warehouse \ {w} : OneBehind(obs, w, v)

Newer(obs) ==
  \E w \in Warehouse : /\ OthersAgree(obs, w)
                       /\ \A v \in Warehouse \ {w} : OneBehind(obs, v, w)

OneDiffers(obs) ==
  SameVersionDivergence(obs) /\ \E w \in Warehouse : OthersAgree(obs, w)

Kinds == {"stale", "newer", "divergence"}

OfKind(kind) ==
  {s \in Sku : LET obs == run.obs[s]
              IN  /\ DOMAIN obs = Warehouse
                  /\ \A w \in Warehouse : shelf[w][s].hist[1].opening
                  /\ CASE kind = "stale" -> Stale(obs)
                       [] kind = "newer" -> Newer(obs)
                       [] kind = "divergence" -> OneDiffers(obs)}

(* The README promises a repair where the histories explain the stock      *)
(* (README.md:89-94).  If all warehouses know a SKU from its opening on,   *)
(* one that is an event ahead of another shows this event, and at a common *)
(* revision all show one history, which makes the stock of all but one.    *)
Evident(stock) ==
  LET obs == [w \in Warehouse |-> stock[w].rec]
      read == [w \in Warehouse |-> RecentEvents(stock[w].hist, HistoryLimit)]
  IN  (\A w \in Warehouse : stock[w] # Missing /\ stock[w].hist[1].opening) =>
        /\ ~IdentityMismatch(obs)
        /\ \A v, w \in Warehouse : OneBehind(obs, v, w) =>
             Extends(read[w], obs[v]) /\ Explains(read[w], obs[v], obs[w])
        /\ SameVersionDivergence(obs) =>
             /\ \A v, w \in Warehouse : read[v] = read[w] /\ Complete(read[w])
             /\ \E w \in Warehouse : \A v \in Warehouse :
                  Total(read[v]) = obs[v].inventory.on_hand <=> v # w

EvidentShelf(sh) ==
  \A s \in Sku : Evident([w \in Warehouse |-> sh[w][s]])

Finished == run.status = "completed" /\ run.version = 3

(* "V3 stops remaining actions, performs verification, and escalates"      *)
(* (agent_v3.md:84-85) is about one SKU: whatever calls for other SKUs     *)
(* fail, a conflict of a kind the agent resolves ends RESOLVED unless one  *)
(* of its own calls got no answer.                                         *)
FailureStaysWithItsSku ==
  Finished => \A kind \in Kinds : \A s \in OfKind(kind) :
                \/ Hurt(s)
                \/ /\ s \in DOMAIN run.resolutions
                   /\ run.resolutions[s] = "RESOLVED"

(* Calls by kind of conflict (agent_v3.md:108-127): for three warehouses,   *)
(* 0/1/3, 1/2/3 and 3/3/3.                                                 *)
CallsFor ==
  LET all == Cardinality(Warehouse)
  IN  [stale      |-> [events |-> 0,   write |-> 1,       verification |-> all],
       newer      |-> [events |-> 1,   write |-> all - 1, verification |-> all],
       divergence |-> [events |-> all, write |-> all,     verification |-> all]]

(* Several conflicts cost a reading of every catalogue and the sum of what *)
(* each of them costs alone: none is read or written twice for another's   *)
(* sake.                                                                   *)
NaturalCost ==
  (Finished /\ NothingLost
   /\ Conflicts(run) = UNION {OfKind(kind) : kind \in Kinds})
  => /\ Count("catalogue") = Cardinality(Warehouse)
     /\ \A purpose \in {"events", "write", "verification"} :
          LET cost(kind) == CallsFor[kind][purpose] * Cardinality(OfKind(kind))
          IN  Count(purpose) = cost("stale") + cost("newer") + cost("divergence")

=============================================================================
