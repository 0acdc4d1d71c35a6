----------------------------- MODULE Simulation -----------------------------
(***************************************************************************)
(* The live simulation: simulation/controller.py with disturbances.py,     *)
(* client.py, evaluator.py and models.py around the agent of AgentRun.     *)
(* Each round disturbs one SKU through the control routes, runs the agent  *)
(* once, judges what it did and makes sure that the warehouses agree       *)
(* again, by a reset if the agent escalated.                               *)
(*                                                                         *)
(* Control calls of one gather() are answered in any order.  The gathers   *)
(* of client.py and disturbances.py have no return_exceptions: the first   *)
(* call that fails ends the round while the others are still on their way, *)
(* and a call without an answer may still reach its warehouse.  Such calls *)
(* go to "stray".                                                          *)
(***************************************************************************)
EXTENDS AgentRun

CONSTANTS
  Rounds,     \* the kinds of disturbance; the order of a seed is any order
  Catalogues, \* what may be on disk, as loaded: SKU -> entry
  Noon        \* the stamps of the injected events are Noon + minute

Disturbances == {"stale", "newer", "corruption", "incomplete", "branches"}
NoRound == "none"

ASSUME SimulationAssumption ==
  /\ Rounds \subseteq Disturbances /\ Rounds # {}
  /\ Warehouse = 1..3 /\ 1..5 \subseteq Sku
  /\ Catalogues \subseteq [Sku -> Entry]
  /\ Noon \in Nat

VARIABLES
  sim,   \* the state of run_simulation
  stray, \* control calls nobody waits for any more
  files  \* the catalogue of all warehouses; it never changes

simVars == <<sim, stray, files>>
allVars == <<vars, simVars>>

-----------------------------------------------------------------------------
(* required_rounds and DISTURBANCE_SKUS *)

Expected == [stale |-> "RESOLVED", newer |-> "RESOLVED",
             corruption |-> "RESOLVED", incomplete |-> "ESCALATED",
             branches |-> "ESCALATED"]

(* Faulty: an event is injected into a SKU that an earlier round repaired. *)
SharedSku == [stale |-> 1, newer |-> 2, corruption |-> 3, incomplete |-> 4,
              branches |-> 3]

DisturbanceSku == [stale |-> 1, newer |-> 2, corruption |-> 3,
                   incomplete |-> 4, branches |-> 5]

ZeroWrites(kind) == Expected[kind] = "ESCALATED"

-----------------------------------------------------------------------------
(* Control calls (client.py).  A body of a reset or a GET is empty.        *)

NoBody == [expected |-> 0]

Call(call, w, s, body) == [call |-> call, to |-> w, sku |-> s, body |-> body]

Resets == {Call("reset", w, NoSku, NoBody) : w \in Warehouse}
Observations == {Call("observe", w, NoSku, NoBody) : w \in Warehouse}

Accepted(q) ==
  CASE q.call = "reset" -> TRUE
    [] q.call = "event" -> EventAccepted(shelf[q.to][q.sku], q.body)
    [] q.call = "corrupt" -> CorruptionAccepted(shelf[q.to][q.sku], q.body)
    [] q.call = "history" -> HistoryAccepted(shelf[q.to][q.sku], q.body)

(* What an accepted call leaves on the shelves *)
ShelfAfter(q) ==
  CASE q.call = "reset" -> [shelf EXCEPT ![q.to] = files]
    [] q.call = "event" ->
         [shelf EXCEPT ![q.to][q.sku] = AfterEvent(@, q.body)]
    [] q.call = "corrupt" ->
         [shelf EXCEPT ![q.to][q.sku] = AfterCorruption(@, q.body)]
    [] q.call = "history" ->
         [shelf EXCEPT ![q.to][q.sku] = AfterHistory(@, q.body)]

-----------------------------------------------------------------------------
(* Disturbances (disturbances.py) *)

(* _shared_baseline *)
Shared(view, s) ==
  \A v, w \in Warehouse :
    /\ view[s][v].inventory = view[s][w].inventory
    /\ view[s][v].version = view[s][w].version
    /\ view[s][v].cursor = view[s][w].cursor
    /\ view[s][v].last.id = view[s][w].last.id

(* A request can be made of the baseline: a SimulationCorruptionRequest    *)
(* for less than nothing is refused before any call.                       *)
Requestable(kind, view) ==
  LET s == DisturbanceSku[kind]
  IN  /\ Shared(view, s)
      /\ kind = "corruption" => view[s][1].inventory.on_hand >= 5

EventCall(w, s, base, id, delta, minute) ==
  Call("event", w, s,
       [expected |-> base.version,
        event |-> [id |-> id, delta |-> delta, opening |-> FALSE,
                   at |-> Noon + minute]])

(* The calls of the first gather(); the second follows in one kind only.   *)
FirstCalls(kind, view) ==
  LET s == DisturbanceSku[kind]
      base == view[s][1]
  IN  CASE kind = "stale" -> {EventCall(w, s, base, 1, 20, 1) : w \in {1, 3}}
        [] kind = "newer" -> {EventCall(3, s, base, 2, 15, 2)}
        [] kind = "corruption" ->
             {Call("corrupt", 3, s,
                   [expected |-> base.version,
                    on_hand |-> base.inventory.on_hand - 5])}
        [] kind = "incomplete" -> {EventCall(3, s, base, 4, 10, 4)}
        [] kind = "branches" -> {EventCall(2, s, base, 5, -10, 5),
                                 EventCall(3, s, base, 6, 10, 5)}

SecondCalls(view) ==
  LET s == DisturbanceSku["incomplete"]
      event == EventCall(3, s, view[s][1], 4, 10, 4).body.event
  IN  {Call("history", 3, s,
            [expectedLast |-> event.id, events |-> <<event>>])}

-----------------------------------------------------------------------------
(* Observation (observe_environment) *)

NoView == [s \in Sku |-> <<>>]

ConflictingSkus(view) ==
  {s \in Sku : DOMAIN view[s] # {} /\ Conflict(view[s])}

(* EnvironmentObservation.clean *)
Clean(view) ==
  /\ \A s \in Sku : DOMAIN view[s] # {}
  /\ ConflictingSkus(view) = {}

-----------------------------------------------------------------------------
(* Evaluation (evaluator.py, controller._terminal_outcome) *)

Writes(r) == Cardinality({c \in r.calls : c.purpose = "write"})

TerminalOutcome(r, s) ==
  IF /\ r.status = "completed"
     /\ DOMAIN r.resolutions = {s}
     /\ r.resolutions[s] \in {"RESOLVED", "ESCALATED"}
  THEN r.resolutions[s] ELSE "none"

(* evaluate_round gives PASS *)
Passes(kind, r, clean, resetDone) ==
  LET s == DisturbanceSku[kind]
  IN  /\ r.status = "completed"
      /\ TerminalOutcome(r, s) = Expected[kind]
      /\ clean
      /\ IF Expected[kind] = "RESOLVED" THEN s \in r.verified
         ELSE Writes(r) = 0 /\ resetDone

-----------------------------------------------------------------------------
(* The controller between two awaits.  "at" says what it waits for.        *)

Purposes == {"catalogue", "events", "write", "verification"}

NoControlCost == [reset |-> 0, mutation |-> 0, observation |-> 0, failed |-> 0]

NewSim ==
  [at |-> "resetting", waiting |-> Resets, round |-> NoRound,
   pending |-> Rounds, view |-> NoView, baseline |-> NoView,
   resetDone |-> FALSE, results |-> <<>>, resetFailures |-> 0,
   verdict |-> "none", control |-> NoControlCost, agentRuns |-> 0,
   cost |-> [p \in Purposes |-> 0]]

Ended(c, verdict) ==
  [c EXCEPT !.at = "ended", !.verdict = verdict, !.waiting = {},
            !.round = IF verdict = "PASS" THEN NoRound ELSE @]

Waits(c, at, calls) ==
  [c EXCEPT !.at = at, !.waiting = calls,
            !.view = IF calls = Observations THEN NoView ELSE @]

(* RoundResult *)
Result(status, r, ran) ==
  [status |-> status, ran |-> ran, writes |-> IF ran THEN Writes(r) ELSE 0]

(* An exception: in a round it is a failed result, after the agent's run   *)
(* the missing reset or clean check makes the evaluation fail.             *)
Failed(c, r) ==
  LET judged == c.at \in {"running", "resetting", "checking"}
      escalated == Expected[c.round] = "ESCALATED"
  IN  IF c.round = NoRound THEN Ended([c EXCEPT !.resetFailures = 1], "FAIL")
      ELSE Ended([c EXCEPT
                    !.results = With(@, c.round, Result("FAIL", r, judged)),
                    !.resetFailures =
                      IF c.at \in {"resetting", "checking"} /\ escalated
                      THEN @ + 1 ELSE @],
                 "FAIL")

(* Faulty: a kind may be drawn again. *)
StartedAgain(c, kind) ==
  Waits([c EXCEPT !.round = kind, !.resetDone = FALSE],
        "disturbing", FirstCalls(kind, c.baseline))

Started(c, kind) ==
  LET next == [c EXCEPT !.round = kind, !.pending = @ \ {kind},
                        !.resetDone = FALSE]
  IN  IF ~Requestable(kind, c.baseline)
      THEN Ended([next EXCEPT !.results =
                    With(@, kind, Result("FAIL", <<>>, FALSE))], "FAIL")
      ELSE Waits(next, "disturbing", FirstCalls(kind, c.baseline))

(* The answer to one control call, or its failure *)
Counted(c, q, failures) ==
  LET what == CASE q.call = "reset" -> "reset"
                [] q.call = "observe" -> "observation"
                [] OTHER -> "mutation"
  IN  [c EXCEPT !.waiting = @ \ {q},
                !.control[what] = @ + 1,
                !.control.failed = @ + failures]

-----------------------------------------------------------------------------
SimInit ==
  /\ Init
  /\ run.version = 3
  /\ sim = NewSim
  /\ stray = {}
  /\ files \in Catalogues

(* A GET of the catalogue is answered. *)
AnswerObservation(q) ==
  /\ q.call = "observe"
  /\ sim' = [Counted(sim, q, 0) EXCEPT
       !.view = [s \in Sku |-> IF shelf[q.to][s] = Missing THEN @[s]
                               ELSE With(@[s], q.to, shelf[q.to][s].rec)]]
  /\ UNCHANGED <<vars, stray>>

(* A POST is answered. *)
AnswerControl(q) ==
  /\ q.call # "observe"
  /\ Accepted(q)
  /\ shelf' = ShelfAfter(q)
  /\ sim' = Counted(sim, q, 0)
  /\ UNCHANGED <<clock, run, late, losses, stray>>

(* The calls of a gather() that go on when one of them has failed          *)
LeftBehind(calls) == {q \in calls : q.call # "observe"}

(* Faulty: a refused call is sent again. *)
RejectControlRetrying(q) ==
  /\ q.call # "observe"
  /\ ~Accepted(q)
  /\ UNCHANGED allVars

RejectControl(q) ==
  /\ q.call # "observe"
  /\ ~Accepted(q)
  /\ sim' = Failed(Counted(sim, q, 1), run)
  /\ stray' = stray \cup LeftBehind(sim.waiting \ {q})
  /\ UNCHANGED <<vars>>

(* Faulty: a failed call does not end the gather(). *)
LoseControlSilently(q) ==
  /\ losses < MaxLosses
  /\ losses' = losses + 1
  /\ sim' = Counted(sim, q, 1)
  /\ stray' = stray \cup LeftBehind({q})
  /\ UNCHANGED <<shelf, clock, run, late>>

LoseControl(q) ==
  /\ losses < MaxLosses
  /\ losses' = losses + 1
  /\ sim' = Failed(Counted(sim, q, 1), run)
  /\ stray' = stray \cup LeftBehind(sim.waiting)
  /\ UNCHANGED <<shelf, clock, run, late>>

HandleStray(q) ==
  /\ stray' = stray \ {q}
  /\ shelf' = IF Accepted(q) THEN ShelfAfter(q) ELSE shelf
  /\ UNCHANGED <<clock, run, late, losses, sim>>

(* reset_all is over. *)
ResetAll ==
  /\ sim.at = "resetting" /\ sim.waiting = {}
  /\ sim' = Waits([sim EXCEPT !.resetDone = TRUE], "checking", Observations)
  /\ UNCHANGED <<vars, stray>>

(* Faulty: the next round is prepared from the observations of the first.  *)
CheckWithOldBaseline ==
  LET checked == [sim EXCEPT !.baseline =
                    IF sim.round = NoRound THEN sim.view ELSE @]
      passed == [checked EXCEPT !.results =
                   With(@, sim.round, Result("PASS", run, TRUE))]
  IN  /\ sim.at = "checking" /\ sim.waiting = {}
      /\ IF sim.round = NoRound
         THEN IF Clean(sim.view)
              THEN \E kind \in Rounds : sim' = Started(checked, kind)
              ELSE sim' = Failed(checked, run)
         ELSE IF Passes(sim.round, run, Clean(sim.view), sim.resetDone)
         THEN IF sim.pending = {} THEN sim' = Ended(passed, "PASS")
              ELSE \E kind \in sim.pending : sim' = Started(passed, kind)
         ELSE sim' = Failed(checked, run)
      /\ UNCHANGED <<vars, stray>>

(* The clean check, the judgement of the round it ends, and the next round *)
Check ==
  LET checked == [sim EXCEPT !.baseline = sim.view]
      passed == [checked EXCEPT !.results =
                   With(@, sim.round, Result("PASS", run, TRUE))]
  IN  /\ sim.at = "checking" /\ sim.waiting = {}
      /\ IF sim.round = NoRound
         THEN IF Clean(sim.view)
              THEN \E kind \in Rounds : sim' = Started(checked, kind)
              ELSE sim' = Failed(checked, run)
         ELSE IF Passes(sim.round, run, Clean(sim.view), sim.resetDone)
         THEN IF sim.pending = {} THEN sim' = Ended(passed, "PASS")
              ELSE \E kind \in sim.pending : sim' = Started(passed, kind)
         ELSE sim' = Failed(checked, run)
      /\ UNCHANGED <<vars, stray>>

(* inject_disturbance is over, or has its second call to make. *)
Inject ==
  /\ sim.at \in {"disturbing", "shortening"} /\ sim.waiting = {}
  /\ sim' = IF sim.at = "disturbing" /\ sim.round = "incomplete"
            THEN Waits(sim, "shortening", SecondCalls(sim.baseline))
            ELSE Waits(sim, "inspecting", Observations)
  /\ UNCHANGED <<vars, stray>>

(* Exactly the intended conflict is there: the agent starts. *)
Inspect ==
  /\ sim.at = "inspecting" /\ sim.waiting = {}
  /\ IF ConflictingSkus(sim.view) = {DisturbanceSku[sim.round]}
     THEN sim' = Waits(sim, "running", {}) /\ run' = Observing(3)
     ELSE sim' = Failed(sim, run) /\ UNCHANGED run
  /\ UNCHANGED <<shelf, clock, late, losses, stray>>

(* The agent's run is over: reset, look again, or fail the round at once.  *)
Judge ==
  LET outcome == TerminalOutcome(run, DisturbanceSku[sim.round])
      spent == [sim EXCEPT
        !.agentRuns = @ + 1,
        !.cost = [p \in Purposes |->
          @[p] + Cardinality({c \in run.calls : c.purpose = p})]]
  IN  /\ sim.at = "running" /\ Over(run)
      /\ sim' = IF \/ outcome # Expected[sim.round]
                   \/ ZeroWrites(sim.round) /\ Writes(run) > 0
                THEN Failed(spent, run)
                ELSE IF outcome = "ESCALATED"
                THEN Waits(spent, "resetting", Resets)
                ELSE Waits(spent, "checking", Observations)
      /\ UNCHANGED <<vars, stray>>

-----------------------------------------------------------------------------
SimStep ==
  /\ \/ \E q \in sim.waiting : \/ AnswerObservation(q)
                               \/ AnswerControl(q)
                               \/ RejectControl(q)
     \/ ResetAll \/ Check \/ Inject \/ Inspect \/ Judge
  /\ UNCHANGED files

SimFault ==
  /\ \/ \E q \in sim.waiting : LoseControl(q)
     \/ \E q \in stray : HandleStray(q)
  /\ UNCHANGED files

AgentStep == RunStep /\ UNCHANGED simVars
AgentFault == Fault /\ UNCHANGED simVars

SimTerminated == sim.at = "ended" /\ UNCHANGED allVars

SimNext ==
  \/ SimStep \/ SimFault \/ AgentStep \/ AgentFault \/ SimTerminated

SimSpec == SimInit /\ [][SimNext]_allVars

(* Every call ends, and the controller and the agent go on when they can.  *)
FairSim == SimSpec /\ WF_allVars(SimStep) /\ WF_allVars(AgentStep)

-----------------------------------------------------------------------------
ControlCallOK(q) ==
  /\ q.to \in Warehouse /\ q.sku \in Sku \cup {NoSku}
  /\ \/ q.call \in {"reset", "observe"} /\ q.body = NoBody
     \/ q.call = "event" /\ q.body \in EventRequest
     \/ q.call = "corrupt" /\ q.body \in CorruptionRequest
     \/ q.call = "history" /\ q.body \in HistoryRequest

SimTypeOK ==
  /\ TypeOK
  /\ sim.at \in {"resetting", "checking", "disturbing", "shortening",
                 "inspecting", "running", "ended"}
  /\ sim.round \in Rounds \cup {NoRound}
  /\ sim.pending \subseteq Rounds \ {sim.round}
  /\ \A q \in sim.waiting \cup stray : ControlCallOK(q)
  /\ \A s \in Sku : IsPartial(sim.view[s], Record)
  /\ DOMAIN sim.results \subseteq Rounds
  /\ sim.control \in [DOMAIN NoControlCost -> Nat]
  /\ sim.cost \in [Purposes -> Nat] /\ sim.agentRuns \in 0..5

-----------------------------------------------------------------------------
(* Safety *)

(* Outside the agent's run a simulation that goes on has nothing under way *)
(* that could still change a warehouse: no PUT the agent gave up on, no    *)
(* control call of a gather() that failed.  The clean check and the next   *)
(* disturbance rest on it (controller.py:171-185).                         *)
NothingLeftBehind ==
  sim.at \notin {"running", "ended"} => late = {} /\ stray = {}

(* When the controller prepares a disturbance from the observations it has *)
(* kept since the last clean check, the warehouses still hold exactly that *)
(* (controller.py:121-124, disturbances.py:31).                            *)
BaselineIsCurrent ==
  [][(sim'.at = "disturbing" /\ sim.at # "disturbing") =>
       \A s \in Sku, w \in Warehouse :
         shelf[w][s] # Missing /\ sim'.baseline[s][w] = shelf[w][s].rec
    ]_allVars

(* What each warehouse gains by a complete disturbance, in events and in   *)
(* stock (the "detail" of DisturbanceMetadata)                             *)
Moves == [stale      |-> << <<1, 20>>, <<0, 0>>, <<1, 20>> >>,
          newer      |-> << <<0, 0>>, <<0, 0>>, <<1, 15>> >>,
          corruption |-> << <<0, 0>>, <<0, 0>>, <<0, -5>> >>,
          incomplete |-> << <<0, 0>>, <<0, 0>>, <<1, 10>> >>,
          branches   |-> << <<0, 0>>, <<1, -10>>, <<1, 10>> >>]

(* The agent is started only on a complete disturbance: both events of a   *)
(* pair are in, or the shortened history is.  Looking for a conflict about *)
(* the SKU (controller.py:126-130) does not show that.                     *)
DisturbanceIsComplete ==
  [][(sim.at = "inspecting" /\ sim'.at = "running") =>
       LET s == DisturbanceSku[sim.round]
       IN  /\ \A w \in Warehouse :
                LET now == shelf[w][s].rec
                    base == sim.baseline[s][w]
                IN  /\ now.cursor = base.cursor + Moves[sim.round][w][1]
                    /\ now.inventory.on_hand =
                         base.inventory.on_hand + Moves[sim.round][w][2]
           /\ sim.round = "incomplete" => ~shelf[3][s].hist[1].opening
    ]_allVars

(* Stock of a kind's SKU after its round, relative to the catalogue        *)
Gain == [stale |-> 20, newer |-> 15, corruption |-> 0, incomplete |-> 0,
         branches |-> 0]

(* PASS means the right stock, although the evaluator never looks at a     *)
(* value: at the end of a passed round every warehouse has what the events *)
(* of the disturbed SKU make of it, and for every other SKU either what    *)
(* was there when the round began or what a reset loads (README.md of      *)
(* simulation/, lines 52-59).                                              *)
PassedRoundIsRight ==
  [][\A kind \in DOMAIN sim'.results \ DOMAIN sim.results :
       sim'.results[kind].status = "PASS" =>
         \A w \in Warehouse, s \in Sku :
           LET now == shelf[w][s].rec.inventory
               boot == files[s].rec.inventory
           IN  IF s = DisturbanceSku[kind]
               THEN now = [boot EXCEPT !.on_hand = @ + Gain[kind]]
               ELSE now = boot \/ now = sim.baseline[s][w].inventory
    ]_allVars

(* A simulation that passed has cost what was recorded for one             *)
(* (README.md:294-303, tests/manual/live_simulation_results.txt:600-620),  *)
(* whatever the order of its rounds and whichever history could not be     *)
(* read: 37 calls of the agent, 50 of the controller, none of them failed. *)
RecordedCost ==
  sim.verdict = "PASS" /\ Rounds = Disturbances =>
    /\ sim.agentRuns = 5
    /\ sim.cost = [catalogue |-> 15, events |-> 7, write |-> 6,
                   verification |-> 9]
    /\ sim.control = [reset |-> 9, mutation |-> 8, observation |-> 33,
                      failed |-> 0]

(* The rounds are gated by what the warehouses really hold, not only by    *)
(* what the controller has seen of them.                                   *)
ViewOf(shelves) ==
  [s \in Sku |-> [w \in {v \in Warehouse : shelves[v][s] # Missing} |->
                   shelves[w][s].rec]]

Gated ==
  INSTANCE GatedRounds WITH
    clean <- Clean(ViewOf(shelf)), round <- sim.round,
    passed <- {k \in DOMAIN sim.results : sim.results[k].status = "PASS"},
    verdict <- sim.verdict

RoundsAreGated == Gated!Spec

-----------------------------------------------------------------------------
(* Liveness *)

(* Whatever calls get no answer, the simulation ends with a verdict.       *)
EverySimulationEnds == <>(sim.at = "ended")

(* When every call is answered, and there is stock to take, it passes,     *)
(* whatever the order of the rounds (the seed) and of the answers.         *)
EverySimulationPasses ==
  (/\ \A s \in Sku : LET stock == files[s].rec.inventory
                     IN  stock.reserved + 20 <= stock.on_hand
   /\ [](losses = 0)) => <>(sim.verdict = "PASS")

=============================================================================
