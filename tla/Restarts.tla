------------------------------ MODULE Restarts ------------------------------
(***************************************************************************)
(* The fleet with warehouses that are restarted, or reset through          *)
(* /simulation/reset, at any moment.  A warehouse keeps nothing on disk:   *)
(* records, histories, versions and cursors are those of its files again   *)
(* (warehouse/loader.py), while agents still hold what they have read and  *)
(* PUTs are still under way.  The event stream goes on from what the       *)
(* warehouse accounts for then.                                            *)
(***************************************************************************)
EXTENDS Reconciliation

CONSTANTS
  Boots,       \* what the files may say, as fleets
  MaxRestarts, \* bound
  LastRun      \* bound: no restart after an agent has started more runs

ASSUME RestartAssumption ==
  Boots \subseteq Fleet /\ {MaxRestarts, LastRun} \subseteq Nat

VARIABLES
  files,   \* what the warehouses load; it never changes
  restarts

restartVars == <<vars, files, restarts>>

-----------------------------------------------------------------------------
RestartInit == Init /\ files \in Boots /\ restarts = 0

(* Faulty: "versions must never move backwards", so the version stays. *)
LoadedKeepingVersion(w) ==
  [files.store[w] EXCEPT !.rec.version = store[w].rec.version]

Loaded(w) == files.store[w]

Restart(w) ==
  /\ restarts < MaxRestarts
  /\ \A a \in Agent : runs[a] <= LastRun
  /\ restarts' = restarts + 1
  /\ store' = [store EXCEPT ![w] = Loaded(w)]
  /\ reflected' = [reflected EXCEPT ![w] = files.reflected[w]]
  /\ UNCHANGED <<files, feed, clock, run, late, losses, runs, miscounts>>

RestartNext ==
  \/ Next /\ UNCHANGED <<files, restarts>>
  \/ \E w \in Warehouse : Restart(w)

RestartSpec == RestartInit /\ [][RestartNext]_restartVars

(* Every exchange ends (httpx gives up after 10 s) and an event loop runs  *)
(* what is ready; an operator starts the agent again and again.  Nothing   *)
(* makes a warehouse restart.                                              *)
RestartFairness ==
  \A a \in Agent :
    /\ WF_restartVars(AgentStep(a) /\ UNCHANGED <<files, restarts>>)
    /\ WF_restartVars(Start(a) /\ UNCHANGED <<files, restarts>>)

=============================================================================
