# Inventory reconciliation, in TLA+

A verification development of the inventory reconciliation agent: TLA+ modules
that model the warehouse services and the agent, TLC configurations that check
them on small fleets, and theorems checked by TLAPS. Paths and line numbers
refer to the repository this directory stands beside.

## 1. Inventory

The program is three HTTP services (`warehouse/`), all the same code with their
own in-memory records, and an agent (`agent/`) that reads them, decides per SKU
whether the records can be reconciled, writes the decided state and reads the
fleet again. A simulator (`simulation/`) disturbs the services and judges the
agent. The parts talk over HTTP only.

| part | state | operations | interaction |
| --- | --- | --- | --- |
| warehouse store (`store.py`, `app.py`, `models.py`) | per SKU a record (product, inventory, version, cursor, last event) and an event history; a lock; a writable flag | `update`, `simulation_apply_event`, `simulation_corrupt`, `simulation_replace_history`, `simulation_reset`, reads | every method runs under one lock; any client at any time |
| loader (`loader.py`) | none | catalogue files plus scenario overlay to initial records | at start and at reset (reset drops the overlay) |
| observer, detector | none | concurrent catalogue reads, conflict types | one failed read fails the run |
| evidence | none (pure) | agreement groups, relative progress, replay of histories | input of the policy |
| policy, planner, safety | none (pure) | `decide`, the two plans, validation of a write plan | output is what the executor may write |
| executor, verifier, runner | the state of a run | read, decide, read histories once, decide again, write in order, stop at the first failure, verify | GETs and PUTs with a 10 s timeout |
| client, metrics | one record per call: purpose, success, bytes, latency | one request each | only the simulation reads what is counted |
| simulation | rounds, baseline observations, costs, results | disturb, check, run agent, judge, reset, check clean | the simulation routes; runs the agent in its own process |

Nothing is persisted: a restarted warehouse loads its files again. There is no
lock between agents and no retry (README.md:444, agent_v3.md:143).

What is hard here, and what it takes for the parts to be right:

- **A warehouse** must keep record and history in step, never reuse an event id
  although it makes ids from a counter, and give every new revision exactly one
  event, under updates, external events and history replacements in any order.
- **Decisions are taken on what was read**, at different instants, and written
  later. The only protection is the expected version of a PUT, and a miscount
  changes stock without a version.
- **PUTs are not recalled**: one that timed out may still arrive, after
  verification or during another agent's run.
- **Evidence must not lie**: a history cut at ten events, or read after more
  events came in, must not support a stock that never was.
- **SKUs share a run**: the conflicts of a run are investigated in one gather
  and written one after the other; a call that fails for one SKU must not change
  what is done for the others.
- **The simulation must be gated**: it disturbs, judges and goes on, and what an
  unanswered call leaves under way must never fall into the next round.
- **A restart takes versions back**, and the version is all a PUT is checked by.
- **A run must end**, and runs together must converge, although a run stops at
  its first failure and rolls nothing back.

`PROJECT.json` lists these hazards with their lines and the properties that
cover them.

## 2. Modules

| module | what it is | code |
| --- | --- | --- |
| `WarehouseOps` | data of one SKU at one warehouse, each request's guard and effect, as operators | `warehouse/models.py`, `store.py` |
| `WarehouseStore` | one warehouse service: `shelf` maps SKUs to entries, one action per mutation, `Restart` for a new process | `store.py`, `app.py`, `loader.py` |
| `StockLedger` | abstract specification of a warehouse: stock and the total of the posted deltas | (promise of `store.py`) |
| `WarehouseOpsProofs`, `WarehouseStoreProofs` | lemmas about one entry; what the sums of the model (`SumFunctionOnSet`) are for any finite set; theorems about `WarehouseStore` | |
| `Evidence` | conflicts, agreement groups, progress, replay, findings as sets | `detector.py`, `evidence.py` |
| `Policy` | `decide`, both planners, safety validation | `policy.py`, `planner.py`, `safety.py` |
| `Reconciliation` | the fleet: warehouses, agents that run again and again, messages, stock events, for one SKU | `runner.py`, `observer.py`, `client.py`, `executor.py`, `verifier.py` |
| `RunSteps` | what a run of the agent computes between two awaits, shared by `Reconciliation` and `AgentRun` | `runner.py`, `verifier.py` |
| `Restarts` | the fleet with warehouses that load their files again at any moment | `store.py`, `loader.py` |
| `AgentRun` | one run of v1, v2 or v3 over all SKUs, with the record of every call | `runner.py`, `executor.py`, `client.py`, `metrics.py` |
| `AgentRunRefinement` | `AgentRun` seen as one `Reconciliation` per SKU | |
| `Simulation` | the live simulation: rounds, control calls, evaluator, composed with `AgentRun` | `simulation/` |
| `GatedRounds` | abstract specification of the simulation's gates | (promise of `controller.py`) |
| `AgentRunProofs`, `SimulationProofs` | theorems about `AgentRun` and `Simulation` | |
| `PromiseProofs` | that a run resolves what its calls let it, SKU by SKU, and with the calls this takes | |
| `RefinementProofs` | that the steps of `AgentRun` are steps of its fleets | |
| `PolicyProofs`, `FleetProofs` | theorems about `Decide` and its plans, and about `Reconciliation` | |
| `MCWarehouseStore`, `MCReconciliation`, `MCRestarts`, `MCAgentRun`, `MCSimulation` | values of the constants for TLC | |

`Reconciliation` and `AgentRun` extend `RunSteps`, which extends `Policy`, then
`Evidence`, then `WarehouseOps`, and `Simulation` extends `AgentRun`: the fleet uses the very operators the single warehouse is
checked and proved with, so `Handle` and `Ingest` are `AfterUpdate` and
`AfterEvent` of one warehouse.

### How the model corresponds to the code

*Data.* Event ids are numbers; those below `ReconcileBase` are the ids of files
and of external processors, the others are `evt-reconcile-<sku>-<cursor>`.
`processed_at` is a number, `occurred_at`, type and reference are folded into the
id, except that `opening` says whether the reference marks opening stock.
`available` is `on_hand - reserved` by validation (models.py:20-26) and is left
out; so are snapshot ids, checksums, sync status, data quality and prose.

*Warehouse.* One request is one step because every method holds the lock
(`store.py`). A request that is refused changes nothing and is a stuttering
step. `SimulationReset` installs the catalogue, `Restart` the catalogue with the
scenario overlay.

*Run.* `run[a].stage` follows `RunStatus` at its awaits: `observing` (GET
/inventory), `investigating` (GET events), `executing` (PUT), `verifying` (GET
/inventory/{sku}), `finished`. What lies between two awaits is one step:
`Analyse` is detection, evidence, `decide` and `plan_investigation`; `Reassess`
is the second decision; `Concluded` adds `plan_reconciliation` and
`validate_reconciliation_plan`, which await nothing. Answers of one `gather`
come in any order, each taken at its own instant. A PUT and its answer are one
step when the answer arrives (`ExecuteUpdate`): nothing the agent does lies
between. `LoseUpdate` is a PUT without answer: the message stays in `late` and
`HandleLate` may apply it at any later time, at once included, or never.

*World.* Warehouses process one stream of stock events in order, each at its
own pace (`Ingest`), as the scenario files and the simulator do, and stock may
be miscounted (`Miscount`). `reflected`, `feed` and `run[a].known` are ghosts:
which events a stock accounts for. No action reads them but to update them,
except that `Ingest` gives a warehouse only events it does not account for.

*One run over all SKUs.* `AgentRun` drops what `Reconciliation` has around a run
(several agents, repeated runs, stock events) and adds what one SKU cannot show:
the catalogue with all SKUs, agents of version 1 (detect only) and 2 (decide
only), the shared gather of all investigations, the loop over the decisions
(`Proceed` goes to the next SKU in order; `run.failed` and `run.resolutions` are
kept per SKU) and `run.calls`, which stands for `RunMetrics.api_calls`: what each
call was for, to whom, about which SKU, and whether it was answered.
`EachSkuIsReconciled` ties the two together: seen through the mapping of
`AgentRunRefinement`, each step of the run is for every SKU a step of the fleet
with that SKU alone, or none. The run of SKU `s`, `SkuRun(run, s)`, has read what
the run has read about `s`, waits for whom the gather waits about `s`, and is at the
first PUT of its plan from the decision on until its turn comes. So what is checked
and proved of `Reconciliation`, for stores that meet its assumptions, holds of every
SKU of a run.

*Simulation.* `sim.at` is where `run_simulation` waits: resetting, checking
(observing the fleet after a reset or a resolved round), disturbing and
shortening (one or two gathers of control calls), inspecting (observing the
disturbance), running (`run_agent_v3`, every step of `AgentRun`), ended. The five
disturbances are sets of calls built from the kept observations (`FirstCalls`,
`SecondCalls`). A control call is answered, refused (409, when the warehouse's
state does not allow it) or lost. A failed call ends the simulation, since
`asyncio.gather` raises at the first failure; but it cancels nothing, so the lost
call and every call of the same gather not answered yet stay in `stray`, and
`HandleStray` may apply them at any later time. `Judge` and `Check` are
`evaluate_round` and the code around it; each round is used once, in any order,
as the shuffle may give. `files` is what the warehouses load on a reset; like the
`files` of `Restarts` it never changes, and lets one run have several catalogues.

Definitions marked `Faulty` are variants with a plausible mistake (a dropped
guard, a missing reset). No specification uses them; each property fails when
its variant takes the place of the real definition (`PROJECT.json`, "mutants").

## 3. Runs

| run | question | bounds |
| --- | --- | --- |
| `warehouse_store` | is one warehouse consistent under every caller? | 2 SKUs, versions to 4 (two external events and an update between them), a clock before and after the events' stamps; 187,577 states |
| `static_fleets` | does a run on a fleet at rest do what the README says, and a second run nothing? | 10,224 fleets of 3 warehouses, 2 runs; 250,362 states |
| `moving_fleets` | and when warehouses change between any two steps? | 3 stock events, 1 miscount, histories cut at 3 events, 2 runs; 952,387 states |
| `two_agents` | two agents, a lost answer, a late PUT? | 1 run each, 1 loss, 2 stock events |
| `convergence` | does every run end, and do repeated runs converge? | a fleet with one warehouse an event behind, 4 runs, 2 losses, 2 restarts before the second run starts, fairness; 14,064 states |
| `several_skus` | do SKUs disturb each other in a run of version 1, 2 or 3? | 3 SKUs: all 49 pairs of SKU states beside a consistent third, and `scenarios/mixed-conflicts`; 2 losses; 30,156 states |
| `simulations` | is the live simulation gated, truthful and sure to end, and does it pass? | all orders of 5 rounds, stock of the catalogue or all of it reserved (and of SKU 3 too little to ask for its corruption), shelves as loaded or left disturbed, 2 losses, control calls that arrive late; 71,521 states |

The fleets of `static_fleets` are of three kinds: prefixes of one stream at most
two events apart, with at most one miscount, any histories cut, or one SKU
missing; warehouses that earlier runs have written at different times and that
then went on, with at most one miscount; and any miscounts at a common revision.

Five runs end in a counterexample. Each checks one sentence of the docs that the
code does not keep:

| run | the docs say | the code does |
| --- | --- | --- |
| `stale_by_two` | a stale third warehouse can be moved forward directly (README.md:86-88) | moves its cursor by one whatever the distance (store.py:149); verification then finds the cursors different, the run escalates, and so does every later one |
| `newer_after_reconcile` | a newer warehouse has its history read (README.md:89-91) | after a reconciliation the warehouses' last events have different times, so there is no agreement group to be newer than (evidence.py:442-454): escalated unread |
| `branch_behind` | two valid branches that disagree are escalated (README.md:95-96) | a branch on a stale warehouse is never read and is overwritten (policy.py:209-223) |
| `restarted_warehouse` | the expected version keeps the agent from overwriting a newer change (warehouse_rules.md:93) | after a restart versions are used again (store.py:199), and only the number is compared (store.py:130) |
| `equal_stamps` | no stock is written that the evidence cannot support (README.md:98-100) | events are sorted by stamp and id (evidence.py:478); with equal stamps an event that is already in the reference's stock may come after the reference's last event; the replay counts its delta a second time (evidence.py:131) and explains a miscounted stock that equals the wrong sum |

In `restarted_warehouse` the stock of the overwritten event is contained in what
is written; it is the version check that does not do what is said of it. No
shipped scenario gives two events of a SKU one stamp; `equal_stamps` is about
external processors that do, which nothing in the program refuses.

Three smaller differences are kept out of the runs, as the code is safe there or
the docs are loose: a supported value is restored only when exactly one warehouse
is contradicted (policy.py:121, README.md:92-93 does not say so); `update` does
not compare its clock with the last event's stamp (store.py:147), so that the
order of a history may differ from the order of time; and a repair takes
`reserved` from the first supported warehouse (policy.py:125), for which no event
is evidence.

### What the passing runs show

- `RevisionsAreLogged`: between two loads of the files, a new revision and one
  new, never used event come together or not at all; versions and cursors do not
  move back. `ImplementsLedger`: stock and posted deltas move together, so the
  gap a miscount opens is visible in the history for ever; a repair does not
  close it (its delta is measured from the miscounted value).
- `OnlyUpdatesBreakTheOrder`: where any two events of a history stand against the
  order of time, by which every reader sorts it, an `update` after the first of
  them, and not after the second, was stamped before the event it follows. Two
  external events may be such a pair, as an external event is compared with the
  record's last event only (store.py:230): stamped 2, then an update on a slow
  clock stamped 0, then stamped 1, all are accepted, and the run reaches this.
  Without an early update a history is chronological, which needs record and
  history to agree through replacements, corruptions and loads.
- `OnlyTrueStockIsSpread`: a plan only ever spreads the stock that the opening
  count and the accounted events make, though records are miscounted and
  histories are cut or read later than the records.
- `NoStockEventLost`: no write takes back an event a warehouse accounts for, on
  one stream of events. `two_agents` loses one answer, which may be that of a
  history: a decision that took an unread newer warehouse for not newer would
  overwrite it. The expected version alone is not what protects it: with
  that guard dropped, the target version and the same-version guard still do;
  with all guards dropped it fails.
- `WriteReplacesWhatWasRead`: each applied PUT, late ones included, replaces the
  revision its sender had read. `ResolvedStands`: what verification confirmed is
  not undone by another agent or a late PUT.
- `NewerIsNotOverwritten`: a warehouse that is ahead is never the target.
- `PromisedFleetsAreResolved`, `SecondRunFindsNothing`: the three promised
  conflicts end RESOLVED and the next run is CONSISTENT, from every such fleet.
  A newer state is promised to spread when it extends the others' last event, and
  a miscount to be repaired when the histories agree, up to the record that was
  read: a repair appends an event of its own to the repaired warehouse.
  `EvidentFleet` is what the promise presupposes of a fleet, that a history read in
  full accounts for the stock, and `WrongStockShows` what `OnlyTrueStockIsSpread`
  presupposes where nothing moves: a wrong stock is agreed on by nobody while a
  warehouse is behind, and no history explains or makes it. TLC evaluates both for
  all fleets of `static_fleets` (`StaticFleetsAreEvident`); 8,756 of the 10,224 have
  a wrong stock.
- The fleets written before make `OnlyTrueStockIsSpread` harder: reconciliation
  ids are made from a warehouse's own cursor, so the same id stands for different
  events at different warehouses. With an explanation that looked at the ids
  only, wrong stock would be spread.
- `EachSkuIsReconciled`, `FailureStaysWithItsSku`: a run over several SKUs does to
  each what it would do to it alone, and a conflict of a kind the agent resolves
  is RESOLVED unless one of its own calls failed. `ResolvedIsQuiet`: no PUT of
  the run is on its way to a SKU reported RESOLVED. `EveryConflictIsAnswered`:
  the run ends with one resolution per conflict.
- `NaturalCost`, `RecordedCost`: three conflicts cost the catalogue reads and the
  sum of what each costs alone; a simulation that passed has made exactly the 37
  and 50 calls of the recorded one, so nothing is counted twice or not at all.
- `EverySimulationPasses`, `EverySimulationEnds`: see below.
- `RoundsAreGated`, `NothingLeftBehind`, `BaselineIsCurrent`: a round begins on an
  agreeing fleet with nothing under way, and what its disturbance is computed
  from is what the warehouses hold.
- `DisturbanceIsComplete`: the agent is only started on a whole disturbance. The
  code's own check, that exactly the intended SKU conflicts, would let half a
  disturbance through; it is the exception of the failed gather that stops it.
- `PassedRoundIsRight`: the evaluator compares no values, yet a passed round has
  the right stock everywhere.
- `EveryRunEnds`, `Converges`: see below.

### Bounds, and why they are enough

`several_skus` has all the pairs of SKU states that can meet in a run, the
order of three conflicts in the mixed scenario, and a third, consistent SKU that
must be left alone. Two losses there and in `simulations` reach a failure within
the handling of a failure, such as a lost PUT and then a lost verification read.
The simulation keeps its five rounds and the opening stock of the catalogue; it
starts on shelves that are as loaded and on shelves another simulation has left
disturbed. With all stock reserved the warehouse refuses the disturbances; and a
corruption of a stock below five is never asked for (`Requestable`), since the
request itself must have `on_hand >= 0` (disturbances.py:66-74, models.py:162-167).

Three warehouses is what `load_warehouse_endpoints` configures, and the least
number with an agreeing group and a dissenter. SKUs share no state in a
warehouse or in a decision, so the fleet has one; the single warehouse has two,
to see that one request leaves the other alone. Two events apart separate "one
behind" from "further behind", the difference the cursor arithmetic makes. One
late PUT, two agents and a stock event in between give every order of a write
against another. `HistoryLimit = 3` in `moving_fleets` lets a history outgrow the
limit (10 in the code) within a run. `MaxRuns`, `MaxLosses`, `MaxMiscounts` and the
length of `Deltas` bound the counters and nothing else.

A fleet whose warehouses all sit still may stop, so the fleet's configurations
turn the deadlock check off; the single warehouse's leave it on.

### Fairness

`RestartFairness` has weak fairness of an agent's own steps and of `Start`. An exchange
ends because `httpx.AsyncClient(timeout=10.0)` gives up on it (runner.py:181,
282), and an event loop runs a ready task; that a run is started again is the
operator's part, and `Converges` is a claim about an operator who does. A late
PUT, a lost answer, a restart and a stock event are not fair: they need not happen.
`Converges` is checked of `JustLoaded`, fleets that start as their files say. It needs more
runs than losses and runs after the last restart (four runs, two losses, restarts
while at most one run has been started), as in the code, where no call is
repeated within a run.

`FairSim` has weak fairness of the program's own steps and of an exchange coming
to an end, answered or not, for the same reason (the simulation's client has a
timeout of 10 s as well, controller.py:252). Strays and late PUTs are not fair.
`EverySimulationEnds` holds whatever is lost or refused. `EverySimulationPasses`
says of a simulation whose stock allows its disturbances that it passes if no
call is ever lost.
The injected events carry fixed stamps (disturbances.py:166) while an update
takes the clock of the day. `Noon = 3` puts them before the agent's clock, where an event
for a SKU that an earlier round has repaired would be refused as out of date
(store.py:230); no round meets that because no two kinds share a SKU
(`DisturbanceSku`). With the stamps after the agent's clock nothing is refused for
its stamp, and the run would say less.

## 4. Proofs

`WarehouseStoreProofs` proves, for every set of SKUs, products, requests, clock
readings and loaded files, the invariants `TypeOK`, `TipIsLastEvent`,
`UniqueEventIds`, `IdsBoundedByCursor`, `OnlyUpdatesBreakTheOrder`, the action
property `RevisionsAreLogged` and the refinement `ImplementsLedger`.

The inductive invariant `StoreInv` says that the shelf is well typed and every
known entry is `Sealed`: its history ends in its last event, its ids are unique
and no id exceeds `ReconcileBase + cursor`. The bound is what uniqueness alone
lacks: `update` makes its id from `cursor + 1` without a look at the history, and
it is new only because nothing in the history is above the cursor. The other
mutations either come with ids below the base or move the cursor up; replacing
the history keeps it because the new events are older ones.
Each mutation has a lemma (`UpdateSeals`, `EventSeals`, `CorruptionSeals` in
`WarehouseOpsProofs`, `HistorySeals`); `ReplacingOneEntry` lifts them to the
shelf. `OrderIsKept` rests on `StoreInv`: an external event is compared with the
record's last event, and `Sealed` makes that the last of the history it joins. The
comparison with one event decides about all pairs: if the new event is stamped
before some older one, so is the event it follows, and that pair already has its
early update; or it is an early update itself (`AppendingInOrder`).

`LedgerIsImplemented` needs to know what the sum of a history is after one more
event. A sum is a fold (`SumFunctionOnSet`), and what a fold computes is found by induction, which
the library's theorems would take as an operator. The module does without them:
a recursion over subsets is written as a function on `SUBSET S` (`Adds`), and each
induction is the argument that a set of counterexamples has a smallest one
(`SetInduction`, over a set and not an operator). `AddsInAnyOrder` then says that
it does not matter which member is taken first, so a sum with one more term is
the sum and the term (`SumOfAppended`). With that each accepted request moves the
stock and the posted deltas of its own page of the ledger as `StockLedger` says,
and `OnePageChanges` leaves the others alone.

Assumptions: `MissingIsNoAccount` (the marker of an unknown SKU is no account of the
ledger), `WarehouseAssumption`, `StoreAssumption` (types of the constants),
`LoaderAssumption` (what `ScenarioRecord` validates, loader.py:48-59: a history in
the order of time that ends in the last event; and the catalogue builds,
loader.py:110-152; that the files repeat no event id is
assumed of the data, the loader does not check it) and `ForeignIdsAssumption`
(only `update` makes `evt-reconcile-` ids; nothing in the code refuses one in an
external event). TLC evaluates all of them in `warehouse_store`.

`PolicyProofs` is about the pure functions. `DecisionsAreSound` goes through the
branches of `Decide`: the only extension is a pair of an investigated warehouse
and a group, and no warehouse ahead is left beside it; at one version and one
cursor none is ahead; the stale branch is reached with none ahead. The planner
takes the least warehouse of a group and the greatest version, so the module
first proves that a nonempty set of numbers has a least element and a finite one
a greatest (`LeastOfNats`, `GreatestOfNats`). `PlansAreSound` then types the plan.

`FleetProofs` proves, for any finite set of warehouses, any agents, streams and
sealed initial fleets, and whatever the bounds `MaxRuns`, `MaxLosses` and
`MaxMiscounts`: `TypeOK`, `NewerIsNotOverwritten`, `WriteReplacesWhatWasRead`,
and `ResolvedStands` for `MaxMiscounts = 0` (a corruption changes the stock of a
resolved warehouse at an unchanged revision, so the assumption is needed). Neither
of the last two is inductive: both need to know what a version number read long
ago still says. `FleetInv` therefore has, for everything a run has observed or
verified and for every delayed PUT, `Seen(rec, store[w])`: the warehouse still
holds that very revision, or a higher version. Every request that changes an
entry `Advances` it, which is where the guard of `update` (`target` above the
version) and the `+ 1` of an event are used; `SeenStays` carries `Seen` over. A
PUT that is accepted has `expected` equal to the version it finds, so of the two
cases of `Seen` only the first is left: it replaces what was read. The rest of
`FleetInv` is the shape of a run (`RunInv`: histories only of observed
warehouses, no plan before a decision, writes left only of the plan, targets
never ahead, a resolved run is `Verified`), with one lemma per step on the run
alone (`AfterCatalogue` to `NextWrite`, `ConcludedRun`) and one on the fleet
(`StartFleetInv` to `MiscountedStock`). The argument rests on versions never
moving back within a run of the warehouse: `Reconciliation` has no restart, and
`restarted_warehouse` shows that `WriteReplacesWhatWasRead` needs that. It also assumes `FleetAssumption` (a finite set of numbered
warehouses), `ReconciliationAssumption` (types) and `FleetsAssumption` (initial
entries as the store leaves them, `StoreInv` above; event ids below the base).

Its second part proves what the README promises of a world at rest: one agent, no
loss, no miscount, no stock event (`Still`). `SecondRunFindsNothing` needs nothing
else. By `Quiet` what a lone agent reads is what the warehouses hold until it writes,
a plan is only made with every warehouse observed, and a run that ends RESOLVED has
verified them all; then the warehouses are `Level`, which is all the detector compares, and
stay so until the next run has looked (`StepFindsNothingAgain`).

`PromisedFleetsAreResolved` is stated of the end of a run, in stores that this run
and earlier ones have written, and with histories as they are by then. The proof
therefore carries the fleet `f` that was found at the start along (`Promised`). Each
warehouse is as `f` has it or was written since, at the end of its history, no two
at one time (`Stems`, `Apart`), and one that was written is at no version of its own
(`Followed`). So a warehouse that is ahead, or three at one revision, can only be
warehouses that no run has touched, and the promise about them is one about `f`
(`PromisedIsHopeful`, `Hopeful`); a stale warehouse may well be met in a store that
was written. What the agent decides then is the policy's, by
the lemmas of `PolicyProofs` (`HopefulAtFirst`, `HopefulThen`); the histories it asked
for are those of the warehouses it observed (`Asking`), every write is taken, so a
target has the revision of the plan with the cursor one further (`Carried`, `Taken`), and the plan
was made so that this levels the fleet (`Levels`). The hypotheses are those of
`PromiseProofs` below: three warehouses or more, none read-only, and histories that tell
the truth (`EvidentFleet`, for all of `Fleets`).

`WrongStockIsNotSpread` is the same world's `OnlyTrueStockIsSpread`, if wrong stock
shows in all of `Fleets` (`WrongStockShows`). That hypothesis is about the fleet as it
was found; a decision is about the stores that earlier runs have left, where versions
are other ones, and wrong stock could have become what two warehouses agree on.
`Truthful` says why it does not. What was written since is true (`TrueSince`), since the
plan was; what was not is as found; and records only grow (`Grown`), so a warehouse
that is behind another now was behind it then. Once anything was written, the fleet is
at one version or two warehouses agree (`Settled`): a lone lowest state, the other
reference the policy compares with, is one of the fleet as found. With that each of
the three sources a decision can have, agreed on (`AgreedIsTrue`), explained
(`ExplainedIsTrue`) and replayed (`RepairSourceIsTrue`), was written since, or was
a source already in `f`, where a wrong one would show.

`AgentRunProofs` proves `TypeOK`, `ResolvedIsQuiet` and `EveryConflictIsAnswered`
for any warehouses, SKUs, shelves, versions of the agent and number of losses.
`ResolvedIsQuiet` is not inductive: it
follows from the order in which a run does things, which `Quiet` states. An
unanswered PUT puts its message into `late` and marks its SKU as failed in the
same step; a failed SKU is never given the resolution RESOLVED; the SKU being
written has no resolution yet, so a resolved one is never written again. There
is one lemma per helper that changes the run and one per group of actions.

The other two rest on `RunInvariant`, whose core `SoundRun` ties the parts of a
run to each other: what was read is of warehouses that answered; what is decided
is every conflict and a decision that `SoundDecision` allows; what is planned is the
plan of its decision, and a SKU without a plan has the resolution of its decision.
That a conflict is answered is a matter of the loop: a SKU with a plan has a
resolution or is the one in hand (`WhoseTurn`), a SKU that the loop passes over is
not executable and gets its resolution there (`PassedOver`), and the loop only
ends when no executable SKU is left (`ProceedIsSound`). A failed run has a lost
catalogue read (`Catalogued`).

`PromiseProofs` proves `FailureStaysWithItsSku`: however the calls of other SKUs
fail, a conflict of a kind the agent resolves ends RESOLVED unless one of its own
calls, or a catalogue, got no answer. The invariant `Promise` adds to `RunInvariant`
that there are shelves `sh`, those the run began with, such that everything known of
a SKU without a lost call comes from `sh` (`ReadFrom`, `HistoryIn`); a decision is what
the policy makes of that (`Choice`, `ChosenFor`); and the warehouses hold `sh` until
the plan is written, then the plan at the targets written so far (`Untouched`,
`AsPlanned`), which verification reads again (`CheckedIn`). A PUT without an answer is
of another SKU, so applying it late changes no such warehouse; other shelves only ever
append to their histories (`Grown`). A plan stays executable because what was read is
still there (`Sure`). The rest is the policy, in `PolicyProofs`: what `Decide` answers
to one stale warehouse, to one newer warehouse before and after its history is read,
and to one divergent warehouse before and after all histories are read
(`StaleIsReconciled` to `DivergenceIsRepaired`), and that the plan of each passes
`SafePlan` (`ForwardPlans`, `RepairPlans`). The theorem has three hypotheses. There
are three warehouses or more: of two, neither is the odd one out. None is read-only:
the policy reconciles towards one that cannot be written as towards any other, and
the write is refused. The shelves are `EvidentShelf`: where all warehouses know a SKU
from its opening on, one that is an event ahead shows the event, and at a common
revision all show one history that makes the stock of all but one. That is the README's
own condition ("checks whether later events explain its stock", README.md:89-94), and TLC evaluates it for the
shelves of `several_skus` (`ShelvesAreEvident`), so it is met by shelves with conflicts
of every kind.

Its second part proves `NaturalCost` under the same hypotheses, for any number of SKUs
in conflict. `Promise` is extended to `CostInv`. As long as no call is lost and every
plan does what it is to do (`Smooth`), the calls made are exactly those that what has
been observed, read, written and checked took, each answered "ok" (`Accounted`): a write
is never refused because of what `Promise` says of its target. A run goes on only with
all catalogues and asks about conflicts only (`Surveyed`). At the end of a run whose
conflicts are all of the three kinds, every plan is such a plan and its verification
read every warehouse (`Done`), so the calls for a purpose are as many as pairs of
a warehouse and a SKU that the policy names (`NeededFor`, `CallsAreCounted`). The pairs
of SKUs of one kind are counted with the library's facts about finite sets, with no
induction over the SKUs: one warehouse for each is a bijection (`SingleRows`), all of
them a product (`WholeRows`), all but one their difference (`OtherRows`). The kinds
exclude one another (`KindsAreApart`), so the counts add up (`RowsOfBoth`).

`RefinementProofs` proves `EachSkuIsReconciled` for any warehouses, SKUs, shelves,
versions and losses: for every SKU, `Init` is the fleet's, and each step of the
run is a step of the fleet or leaves it as it is. The two specifications get
their operators from the same modules, but those of an instance are operators of
its own, so the module first shows that they are the same (`SameDecisions`,
`SameConclusions`). Then each action of the fleet has a lemma that says what must
become of the run, the records and the counters of a SKU for that action to be
taken (`ReadsHistory`, `Executes`, `LosesPut`), and each action of `AgentRun` one
that says that this is what becomes of the SKU it is about (`EventsGo`,
`ExecutionGoes`, `LostWriteGoes`), while the others stand by (`SameOf`,
`StandsBy`). Two steps are not obvious. The loop over the decisions writes the
plan of the next SKU and the resolutions of those it passes over, when a step
about another SKU ends; for each of these fleets the decision was the step
that made it finish or begin to execute, so nothing may change there (`Fresh`,
`FreshAfterLoop`). And a fleet counts its own losses: a call that gets no answer
must be new among the calls of its SKU, or the fleet would lose a read without
counting it. `RefinementInvariant` therefore adds to `RunInvariant` and `Quiet`
that every unanswered call is found where it was made (`Traced`): a lost catalogue
is of a warehouse not observed and no longer waited for, a lost PUT is of a failed
SKU, a lost verification of a resolved SKU or one no longer waited for. Besides
`AgentRunAssumption` the theorem assumes `EverySkuIsKnown`: the SKUs of a run are
those that some catalogue names (detector.py:18-20); a SKU that nobody
holds is in no observation and no conflict of the run, while its fleet would miss
every state of it. TLC evaluates the assumption in `several_skus`. `Catalogues`
carries it to the analysis.

`SimulationProofs` is about the composition: `NothingLeftBehind`,
`BaselineIsCurrent` and `RoundsAreGated`, the refinement of `GatedRounds`, for
any warehouses, shelves and losses and any set of the five rounds. `SimInv` says
where a call may still be under way. A control call that fails ends the
simulation in the same step, so no stray is left in one that goes on; the
expected outcome of a round is what rules out a late PUT: a RESOLVED run has
none by `Quiet`, which the proof uses as it stands, and an ESCALATED one is only
accepted when no write was sent at all. Hence nothing changes a shelf while the
controller observes it, and the view it collects (`SeenBut`, the part of a gather
already answered) is the shelf itself. In the refinement `clean` says that the
real shelves agree; a round begins after `Clean(view)`, and the view is the shelf.

Its second half proves `SimTypeOK` and `DisturbanceIsComplete`. `SimTypes` joins
`SimInv` to `RunInvariant` and to what the simulation keeps about its calls: the
kept baseline is a full observation of well-formed records, every control call
under way or astray is one the services can be asked (`CallsAreSound`), and one
agent run is counted for each round that is over (`RunsAdd`). `Disturbed` then says
what of a disturbance is already applied: a warehouse whose call is not answered
yet still has its baseline, one whose call is answered holds what `Moves` tells
of that call, and nothing else changes a shelf while calls are under way. So
when the agent is started, and no call has failed, all of the disturbance is
there. Each warehouse is asked at most once by
the first calls of a round, and one that is not asked has nothing to move
(`FirstCallsMove`): so the answers may come in any order. The proof needs
`Requestable`: without it a corruption of a stock below five units would be a call
that the code cannot even build.

Model-checked only:

- `NoStockEventLost`, and `OnlyTrueStockIsSpread` where stock events and miscounts come
  between (`moving_fleets`; no run has lost exchanges or a second agent there), hold of
  the given fleets and streams, not of any values of the constants: `branch_behind` and
  `equal_stamps` are fleets for which they fail. `WrongStockShows` would have to be assumed of every
  store that those may leave, which is no hypothesis about the fleet as found, and
  needs the replay of any history cut at any point;
- `RecordedCost` counts the calls of all rounds of a simulation: what a run costs is
  `NaturalCost`, but which kinds of conflict its round has needs what
  `PassedRoundIsRight` needs;
- `PassedRoundIsRight`: what a passed round leaves on the shelves is
  `DisturbanceIsComplete` and the policy's computation on each of the five
  disturbances, with histories that account for the stock of the catalogue;
- `EveryRunEnds`, `Converges`, `EverySimulationEnds` and `EverySimulationPasses` are
  liveness under fairness, out of the prover's reach.

## 5. Not modelled

- reports, command lines, compose files, reading and validating JSON: no decision
  reads what they make; bytes and latencies of calls: only reported;
- `reserved` as evidence (the code has none): the fleets differ in `on_hand`
  only, all reserve the same;
- control calls of a failed simulation that are applied during another one. A
  simulation starts with a reset and such a call may come after it; the code has
  nothing against that. `Simulation` is one simulation, on shelves that an
  earlier one has left;
- stock events from outside and restarts during a simulation: it owns the
  services it runs against;
- a propagation that stopped halfway leaves two warehouses ahead of the third,
  which every later run escalates (policy.py:86-95). The docs promise nothing
  about it.

## 6. Plan

1. *Done:* warehouse, ledger, evidence, policy, fleet, restarts in the fleet, the
   run over several SKUs and its refinement, the simulation and its gates; the
   proofs about the warehouse and its ledger, the policy, the fleet (its safety and,
   at rest, its promises), the run
   (types, silence, answers, promises, costs and the refinement) and the simulation (gates, types,
   disturbances).
2. *Proofs next:* `PassedRoundIsRight`, and with it `RecordedCost`.
3. *Out of reach of the prover:* liveness and `ENABLED`.
