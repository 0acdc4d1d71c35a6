----------------------------- MODULE GatedRounds -----------------------------
(***************************************************************************)
(* What the live simulation promises ("strictly gated orchestration",      *)
(* simulation/controller.py): a round begins only while the warehouses     *)
(* agree on everything, the next one only after the last has passed and    *)
(* the warehouses agree again, and nothing begins after a failure.  What a *)
(* round has to disturb may turn out unusable at once.                     *)
(***************************************************************************)
CONSTANT Rounds

None == "none"

VARIABLES
  clean,   \* the warehouses agree on everything, whoever has looked
  round,   \* the round under way
  passed,
  verdict

vars == <<clean, round, passed, verdict>>

Init ==
  /\ clean \in BOOLEAN
  /\ round = None /\ passed = {} /\ verdict = None

(* Disturbing, reconciling and resetting go on unobserved; what a failed   *)
(* simulation leaves behind is anybody's guess.                            *)
Work ==
  /\ verdict # "PASS"
  /\ clean' \in BOOLEAN
  /\ UNCHANGED <<round, passed, verdict>>

Begin ==
  /\ round = None /\ verdict = None /\ clean
  /\ round' \in Rounds /\ verdict' \in {None, "FAIL"}
  /\ UNCHANGED <<clean, passed>>

Pass ==
  /\ round # None /\ verdict = None /\ clean
  /\ passed' = passed \cup {round}
  /\ IF passed' = Rounds THEN round' = None /\ verdict' = "PASS"
     ELSE round' \in Rounds \ passed' /\ verdict' \in {None, "FAIL"}
  /\ UNCHANGED clean

Fail ==
  /\ verdict = None /\ verdict' = "FAIL"
  /\ UNCHANGED <<clean, round, passed>>

Next == Work \/ Begin \/ Pass \/ Fail

Spec == Init /\ [][Next]_vars

=============================================================================
