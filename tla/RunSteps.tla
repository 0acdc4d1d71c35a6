------------------------------ MODULE RunSteps ------------------------------
(***************************************************************************)
(* What a run of the agent does with one SKU and says nothing of calls:    *)
(* the absent plan, results by warehouse and the verdict of the verifier   *)
(* (agent/verifier.py).                                                    *)
(***************************************************************************)
EXTENDS Policy

IsPartial(f, S) == \E ws \in SUBSET Warehouse : f \in [ws -> S]

Plan ==
  [source : Warehouse \cup {NoSource}, inventory : Inventory, version : Nat,
   repair : BOOLEAN, participants : SUBSET Warehouse,
   targets : SUBSET Warehouse]

NoPlan == [source |-> NoSource, inventory |-> [on_hand |-> 0, reserved |-> 0],
           version |-> 0, repair |-> FALSE, participants |-> {},
           targets |-> {}]

With(f, w, x) == [v \in DOMAIN f \cup {w} |-> IF v = w THEN x ELSE f[v]]

-----------------------------------------------------------------------------
(* Faulty: event progress is not compared. *)
VerifiedWithoutCursors(r) ==
  /\ DOMAIN r.checked = r.plan.participants
  /\ \A w \in DOMAIN r.checked :
       /\ r.checked[w].inventory = r.plan.inventory
       /\ r.checked[w].version = r.plan.version

(* verify_reconciliation gives verified = True *)
Verified(r) ==
  /\ DOMAIN r.checked = r.plan.participants
  /\ ~Several(Inventories(r.checked))
  /\ ~Several(Versions(r.checked))
  /\ ~Several(Cursors(r.checked))
  /\ ~IdentityMismatch(r.checked)
  /\ \A w \in DOMAIN r.checked :
       /\ r.checked[w].inventory = r.plan.inventory
       /\ r.checked[w].version = r.plan.version

=============================================================================
