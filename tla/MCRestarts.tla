----------------------------- MODULE MCRestarts -----------------------------
(***************************************************************************)
(* Restarts for TLC: fleets that start as their files say, with one        *)
(* warehouse that is one event behind; and a fleet in which that warehouse *)
(* was written by an earlier run before the next event reached the others. *)
(***************************************************************************)
EXTENDS Restarts, MCReconciliation

JustLoadedInit == RestartInit /\ files.store = store
JustLoaded == JustLoadedInit /\ [][RestartNext]_restartVars /\ RestartFairness

CatalogueBoots == {FleetOf([w \in Warehouse |-> Prefix(0)], NoErrors, Full, <<>>)}

WrittenSince ==
  {[store |-> [w \in Warehouse |->
                 IF w = 2 THEN WrittenReplica(<<0, 1, 1>>, w, 0)
                 ELSE WrittenReplica(<<0, 0, 2>>, w, 0)],
    reflected |-> [w \in Warehouse |-> IF w = 2 THEN {1} ELSE {1, 2}],
    feed |-> Events(0, 2)]}

=============================================================================
