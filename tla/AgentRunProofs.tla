---------------------------- MODULE AgentRunProofs ----------------------------
(***************************************************************************)
(* Proofs about AgentRun, for any SKUs, warehouses and losses.  What a run *)
(* has RESOLVED has no PUT under way any more: an unanswered PUT marks its *)
(* SKU as failed in the step that gives it up, a SKU that has failed is    *)
(* never RESOLVED, and a SKU that has a resolution is never written again. *)
(* Then the types of a run, and that it ends with one resolution for each  *)
(* conflict: the loop over the decided SKUs has answered all that come     *)
(* before the one it stands at.                                            *)
(***************************************************************************)
EXTENDS AgentRun, PolicyProofs, WarehouseOpsProofs

-----------------------------------------------------------------------------
(* Runs *)

RunFields ==
  {"version", "status", "waiting", "calls", "observed", "obs", "asked",
   "histories", "decisions", "plans", "current", "todo", "failed", "checked",
   "verified", "resolutions"}

(* The SKU that is being written or verified *)
InHand(r) ==
  IF r.status \in {"executing", "verifying"} THEN {r.current} ELSE {}

(* A run between two SKUs *)
Settled(r) ==
  /\ DOMAIN r = RunFields
  /\ DOMAIN r.decisions \subseteq Sku
  /\ IsFiniteSet(r.calls)
  /\ \A s \in DOMAIN r.resolutions :
       r.resolutions[s] = "RESOLVED" => s \notin r.failed
  /\ r.failed \subseteq DOMAIN r.resolutions
  /\ r.failed # {} => \E c \in r.calls : c.purpose = "write"

(* Any run *)
Orderly(r) ==
  /\ DOMAIN r = RunFields
  /\ DOMAIN r.decisions \subseteq Sku
  /\ IsFiniteSet(r.calls)
  /\ \A s \in DOMAIN r.resolutions :
       r.resolutions[s] = "RESOLVED" => s \notin r.failed
  /\ r.failed \subseteq DOMAIN r.resolutions \cup InHand(r)
  /\ InHand(r) \cap DOMAIN r.resolutions = {}
  /\ r.failed # {} => \E c \in r.calls : c.purpose = "write"

LEMMA SettledIsOrderly ==
  ASSUME NEW r, Orderly(r), r.status \notin {"executing", "verifying"}
  PROVE  Settled(r)
BY DEF Settled, Orderly, InHand

(* The loop over the decisions gives no SKU the resolution RESOLVED and    *)
(* takes one in hand that has none.                                        *)
LEMMA ProceedIsOrderly ==
  ASSUME NEW r, Settled(r)
  PROVE  /\ Orderly(Proceed(r))
         /\ Proceed(r).failed = r.failed
         /\ Proceed(r).status \in {"executing", "completed"}
<1> DEFINE open == DOMAIN r.decisions \ DOMAIN r.resolutions
           ready == {s \in open : Executable(r, s)}
           passed == {s \in open : \A t \in ready : s < t}
           resolutions == [s \in DOMAIN r.resolutions \cup passed |->
                             IF s \in DOMAIN r.resolutions
                             THEN r.resolutions[s]
                             ELSE Unwritten(r.decisions[s])]
           next == [r EXCEPT !.resolutions = resolutions]
           s0 == Min(ready)
<1>1. /\ DOMAIN next = RunFields /\ next.resolutions = resolutions
      /\ next.decisions = r.decisions /\ next.calls = r.calls
      /\ next.failed = r.failed
  BY DEF Settled, RunFields
<1>2. DOMAIN resolutions = DOMAIN r.resolutions \cup passed
  OBVIOUS
<1>3. \A s \in DOMAIN resolutions :
        resolutions[s] = "RESOLVED" => s \notin r.failed
  <2> SUFFICES ASSUME NEW s \in DOMAIN resolutions, resolutions[s] = "RESOLVED"
               PROVE  s \notin r.failed
    OBVIOUS
  <2>1. s \in DOMAIN r.resolutions
    BY DEF Unwritten
  <2>2. r.resolutions[s] = "RESOLVED"
    BY <2>1
  <2> QED BY <2>1, <2>2 DEF Settled
<1>4. CASE ready = {}
  <2> DEFINE q == [next EXCEPT !.status = "completed", !.current = NoSku]
  <2>1. Proceed(r) = q
    BY <1>4 DEF Proceed
  <2>2. /\ DOMAIN q = RunFields /\ q.status = "completed"
        /\ q.resolutions = resolutions /\ q.decisions = r.decisions
        /\ q.calls = r.calls /\ q.failed = r.failed
    BY <1>1 DEF RunFields
  <2> HIDE DEF q, next, resolutions, passed, ready
  <2>3. Orderly(q)
    BY <1>2, <1>3, <2>2 DEF Settled, Orderly, InHand
  <2> QED BY <2>1, <2>2, <2>3
<1>5. CASE ready # {}
  <2> DEFINE q == [next EXCEPT !.status = "executing", !.current = s0,
                               !.plans = With(next.plans, s0, PlanFor(r, s0)),
                               !.todo = PlanFor(r, s0).targets,
                               !.checked = With(next.checked, s0, <<>>)]
  <2>1. Proceed(r) = q
    BY <1>5 DEF Proceed
  <2>2. /\ DOMAIN q = RunFields /\ q.status = "executing" /\ q.current = s0
        /\ q.resolutions = resolutions /\ q.decisions = r.decisions
        /\ q.calls = r.calls /\ q.failed = r.failed
    <3> HIDE DEF next, s0
    <3> QED BY <1>1 DEF RunFields
  <2>3. ready \in SUBSET Nat
    BY AgentRunAssumption DEF Settled
  <2>4. s0 \in ready
    <3> HIDE DEF ready
    <3> QED BY <1>5, <2>3, LeastOfNats
  <2>5. s0 \notin passed /\ s0 \notin DOMAIN r.resolutions
    <3>1. s0 \in Nat /\ s0 \in open
      BY <2>3, <2>4
    <3>2. ~(s0 < s0)
      BY <3>1
    <3> HIDE DEF s0
    <3> QED BY <2>4, <3>1, <3>2
  <2> HIDE DEF q, next, resolutions, passed, ready, s0
  <2>6. Orderly(q)
    BY <1>2, <1>3, <2>2, <2>5 DEF Settled, Orderly, InHand
  <2> QED BY <2>1, <2>2, <2>6
<1> QED BY <1>4, <1>5

(* What a step between two SKUs' turns leaves alone *)
LEMMA SameProgressIsOrderly ==
  ASSUME NEW r, Orderly(r), NEW q,
         DOMAIN q = RunFields, q.status = r.status, q.current = r.current,
         q.decisions = r.decisions, q.resolutions = r.resolutions,
         q.failed = r.failed, r.calls \subseteq q.calls, IsFiniteSet(q.calls)
  PROVE  Orderly(q)
BY DEF Orderly, InHand

LEMMA CallsAreAdded ==
  ASSUME NEW r, Orderly(r), NEW p, NEW w, NEW s, NEW answer,
         NEW q, q = Called(r, p, w, s, answer)
  PROVE  /\ DOMAIN q = RunFields
         /\ q.status = r.status /\ q.current = r.current
         /\ q.decisions = r.decisions /\ q.resolutions = r.resolutions
         /\ q.failed = r.failed
         /\ r.calls \subseteq q.calls /\ IsFiniteSet(q.calls)
         /\ \E call \in q.calls : call.purpose = p
<1> DEFINE call == [purpose |-> p, to |-> w, sku |-> s, answer |-> answer]
<1>1. DOMAIN r = RunFields /\ IsFiniteSet(r.calls)
  BY DEF Orderly
<1>2. /\ DOMAIN q = RunFields
      /\ q.status = r.status /\ q.current = r.current
      /\ q.decisions = r.decisions /\ q.resolutions = r.resolutions
      /\ q.failed = r.failed
      /\ q.calls = r.calls \cup {call}
  BY <1>1 DEF Called, RunFields
<1>3. call.purpose = p
  OBVIOUS
<1> HIDE DEF call
<1>4. IsFiniteSet(q.calls)
  BY <1>1, <1>2, FS_AddElement
<1>5. \E c \in q.calls : c.purpose = p
  BY <1>2, <1>3
<1> QED BY <1>2, <1>4, <1>5

(* A read, answered or not *)
LEMMA CallIsOrderly ==
  ASSUME NEW r, Orderly(r), NEW p, NEW w, NEW s, NEW answer,
         NEW c, c = Called(r, p, w, s, answer)
  PROVE  Orderly(c) /\ c.failed = r.failed /\ c.status = r.status
BY CallsAreAdded, SameProgressIsOrderly

LEMMA AnswerIsOrderly ==
  ASSUME NEW c, Orderly(c), NEW q,
         \/ \E x, y : q = [c EXCEPT !.observed = x, !.obs = y]
         \/ \E x : q = [c EXCEPT !.histories = x]
         \/ \E x : q = [c EXCEPT !.checked = x]
  PROVE  Orderly(q) /\ q.failed = c.failed /\ q.status = c.status
<1>1. DOMAIN c = RunFields
  BY DEF Orderly
<1>2. /\ DOMAIN q = RunFields
      /\ q.status = c.status /\ q.current = c.current
      /\ q.decisions = c.decisions /\ q.resolutions = c.resolutions
      /\ q.failed = c.failed /\ q.calls = c.calls
  BY <1>1 DEF RunFields
<1> QED BY <1>2, SameProgressIsOrderly DEF Orderly

(* A write, answered or not; after a failure the SKU has failed. *)
LEMMA SentIsOrderly ==
  ASSUME NEW r, Orderly(r), r.status = "executing", NEW w, NEW answer
  PROVE  /\ Orderly(Sent(r, w, answer))
         /\ r.failed \subseteq Sent(r, w, answer).failed
         /\ answer # "ok" => r.current \in Sent(r, w, answer).failed
         /\ Sent(r, w, answer).status \in {"executing", "verifying"}
<1> DEFINE c == Called(r, "write", w, r.current, answer)
           failed == IF answer = "ok" THEN c.failed
                     ELSE c.failed \cup {r.current}
           next == [c EXCEPT !.todo = IF answer = "ok" THEN c.todo \ {w} ELSE {},
                             !.failed = failed]
           q == Sent(r, w, answer)
<1>1. /\ DOMAIN c = RunFields
      /\ c.status = r.status /\ c.current = r.current
      /\ c.decisions = r.decisions /\ c.resolutions = r.resolutions
      /\ c.failed = r.failed /\ IsFiniteSet(c.calls)
      /\ \E call \in c.calls : call.purpose = "write"
  BY CallsAreAdded
<1> HIDE DEF c
<1>2. /\ DOMAIN next = RunFields
      /\ next.status = r.status /\ next.current = r.current
      /\ next.decisions = r.decisions /\ next.resolutions = r.resolutions
      /\ next.failed = failed /\ next.calls = c.calls
  BY <1>1 DEF RunFields
<1>3. \/ q = next
      \/ \E x : q = [next EXCEPT !.status = "verifying", !.waiting = x]
  BY DEF Sent, c
<1> HIDE DEF next
<1>4. /\ DOMAIN q = RunFields
      /\ q.status \in {"executing", "verifying"} /\ q.current = r.current
      /\ q.decisions = r.decisions /\ q.resolutions = r.resolutions
      /\ q.failed = failed /\ q.calls = c.calls
  BY <1>2, <1>3 DEF RunFields
<1> HIDE DEF q
<1>5. r.failed \subseteq failed /\ failed \subseteq r.failed \cup {r.current}
  BY <1>1
<1>6. r.current \notin DOMAIN r.resolutions
  BY DEF Orderly, InHand
<1>7. Orderly(q)
  <2> HIDE DEF failed
  <2> QED BY <1>1, <1>4, <1>5, <1>6 DEF Orderly, InHand
<1>8. answer # "ok" => r.current \in failed
  OBVIOUS
<1> QED BY <1>4, <1>5, <1>7, <1>8 DEF q

LEMMA ResolutionIsOrderly ==
  ASSUME NEW r, Orderly(r), r.status = "verifying"
  PROVE  /\ Orderly(Resolution(r))
         /\ Resolution(r).failed = r.failed
         /\ Resolution(r).status \in {"executing", "completed"}
<1> DEFINE s == r.current
           outcome == IF s \notin r.failed
                         /\ Verified([plan |-> r.plans[s],
                                      checked |-> r.checked[s]])
                      THEN "RESOLVED" ELSE "ESCALATED"
           resolutions == With(r.resolutions, s, outcome)
<1>1. PICK x : Resolution(r) = Proceed([r EXCEPT !.verified = x,
                                                 !.resolutions = resolutions])
  BY DEF Resolution
<1> DEFINE q == [r EXCEPT !.verified = x, !.resolutions = resolutions]
<1>2. /\ DOMAIN q = RunFields /\ q.resolutions = resolutions
      /\ q.decisions = r.decisions /\ q.calls = r.calls /\ q.failed = r.failed
  BY DEF Orderly, RunFields
<1>3. outcome = "RESOLVED" => s \notin r.failed
  OBVIOUS
<1> HIDE DEF q, outcome
<1>4. /\ DOMAIN resolutions = DOMAIN r.resolutions \cup {s}
      /\ resolutions[s] = outcome
      /\ \A t \in DOMAIN r.resolutions \ {s} : resolutions[t] = r.resolutions[t]
  <2>1. resolutions = With(r.resolutions, s, outcome)
    OBVIOUS
  <2> HIDE DEF resolutions, s
  <2> QED BY <2>1 DEF With
<1> HIDE DEF resolutions
<1>5. Settled(q)
  BY <1>2, <1>3, <1>4 DEF Settled, Orderly, InHand
<1> QED BY <1>1, <1>2, <1>5, ProceedIsOrderly DEF q

-----------------------------------------------------------------------------
(* The invariant and the steps *)

(* A PUT without an answer is of a SKU that has failed. *)
Quiet ==
  /\ Orderly(run)
  /\ \A m \in late : m.sku \in run.failed
  /\ run.status = "starting" => late = {}

LEMMA NewRunIsOrderly ==
  ASSUME NEW version
  PROVE  /\ Orderly(NewRun(version)) /\ NewRun(version).failed = {}
         /\ NewRun(version).status = "starting"
         /\ Orderly(Observing(version)) /\ Observing(version).failed = {}
         /\ Observing(version).status = "observing"
<1>1. /\ DOMAIN NewRun(version) = RunFields
      /\ NewRun(version).status = "starting"
      /\ NewRun(version).calls = {} /\ NewRun(version).failed = {}
      /\ NewRun(version).decisions = <<>> /\ NewRun(version).resolutions = <<>>
  BY DEF NewRun, RunFields
<1>2. /\ DOMAIN Observing(version) = RunFields
      /\ Observing(version).status = "observing"
      /\ Observing(version).calls = {} /\ Observing(version).failed = {}
      /\ Observing(version).decisions = <<>>
      /\ Observing(version).resolutions = <<>>
  BY <1>1 DEF Observing, RunFields
<1>3. DOMAIN <<>> = {}
  OBVIOUS
<1> QED BY <1>1, <1>2, <1>3, FS_EmptySet DEF Orderly, InHand

LEMMA DecidedIsOrderly ==
  ASSUME NEW r, Settled(r)
  PROVE  /\ Orderly(Decided(r)) /\ Decided(r).failed = r.failed
         /\ Decided(r).status \in {"executing", "completed"}
<1>1. CASE r.version = 2
  <2> DEFINE q == [r EXCEPT !.status = "completed"]
  <2>1. Decided(r) = q
    BY <1>1 DEF Decided
  <2>2. /\ DOMAIN q = RunFields /\ q.status = "completed"
        /\ q.decisions = r.decisions /\ q.calls = r.calls
        /\ q.resolutions = r.resolutions /\ q.failed = r.failed
    BY DEF Settled, RunFields
  <2> HIDE DEF q
  <2>3. Orderly(q)
    BY <2>2 DEF Settled, Orderly, InHand
  <2> QED BY <2>1, <2>2, <2>3
<1>2. CASE r.version # 2
  BY <1>2, ProceedIsOrderly DEF Decided
<1> QED BY <1>1, <1>2

(* Only the fields that Settled and Orderly do not speak of, the decisions *)
(* and the status change when the catalogues or the histories are in.      *)
LEMMA SettledWithDecisions ==
  ASSUME NEW r, Settled(r), NEW q, DOMAIN q = RunFields,
         DOMAIN q.decisions \subseteq Sku, q.calls = r.calls,
         q.resolutions = r.resolutions, q.failed = r.failed
  PROVE  Settled(q)
BY DEF Settled

LEMMA WaitingIsOrderly ==
  ASSUME NEW r, Settled(r), NEW q, DOMAIN q = RunFields,
         q.status \notin {"executing", "verifying"},
         q.decisions = r.decisions, q.calls = r.calls,
         q.resolutions = r.resolutions, q.failed = r.failed
  PROVE  Orderly(q)
BY DEF Settled, Orderly, InHand

LEMMA AnalysisIsOrderly ==
  ASSUME NEW r, Orderly(r), r.status = "observing",
         NEW decisions, DOMAIN decisions \subseteq Sku,
         NEW after, after = Analysis(r, decisions)
  PROVE  /\ Orderly(after) /\ after.failed = r.failed
         /\ after.status # "starting"
<1>1. Settled(r)
  BY SettledIsOrderly
<1>2. PICK asked :
        \/ after = [r EXCEPT !.status = "failed"]
        \/ after = [r EXCEPT !.status = "completed"]
        \/ after = Decided([r EXCEPT !.decisions = decisions, !.asked = asked])
        \/ after = [[r EXCEPT !.decisions = decisions, !.asked = asked]
                     EXCEPT !.status = "investigating", !.waiting = asked]
  BY DEF Analysis
<1> DEFINE next == [r EXCEPT !.decisions = decisions, !.asked = asked]
<1>3. /\ DOMAIN next = RunFields /\ next.decisions = decisions
      /\ next.calls = r.calls /\ next.resolutions = r.resolutions
      /\ next.failed = r.failed
  BY <1>1 DEF Settled, RunFields
<1>4. \/ after = [r EXCEPT !.status = "failed"]
      \/ after = [r EXCEPT !.status = "completed"]
      \/ after = Decided(next)
      \/ after = [next EXCEPT !.status = "investigating", !.waiting = asked]
  BY <1>2
<1> HIDE DEF next
<1>5. Settled(next)
  BY <1>1, <1>3, SettledWithDecisions
<1>6. CASE \/ after = [r EXCEPT !.status = "failed"]
          \/ after = [r EXCEPT !.status = "completed"]
  <2>1. /\ DOMAIN after = RunFields /\ after.status \in {"failed", "completed"}
        /\ after.decisions = r.decisions /\ after.calls = r.calls
        /\ after.resolutions = r.resolutions /\ after.failed = r.failed
    BY <1>1, <1>6 DEF Settled, RunFields
  <2> QED BY <1>1, <2>1, WaitingIsOrderly
<1>7. CASE after = Decided(next)
  BY <1>3, <1>5, <1>7, DecidedIsOrderly
<1>8. CASE after = [next EXCEPT !.status = "investigating", !.waiting = asked]
  <2>1. /\ DOMAIN after = RunFields /\ after.status = "investigating"
        /\ after.decisions = next.decisions /\ after.calls = next.calls
        /\ after.resolutions = next.resolutions /\ after.failed = next.failed
    BY <1>5, <1>8 DEF Settled, RunFields
  <2> QED BY <1>3, <1>5, <2>1, WaitingIsOrderly
<1> QED BY <1>4, <1>6, <1>7, <1>8

LEMMA ReassessmentIsOrderly ==
  ASSUME NEW r, Orderly(r), r.status = "investigating",
         NEW decisions, DOMAIN decisions \subseteq Sku,
         NEW after, after = Decided([r EXCEPT !.decisions = decisions])
  PROVE  /\ Orderly(after) /\ after.failed = r.failed
         /\ after.status # "starting"
<1>1. Settled(r)
  BY SettledIsOrderly
<1> DEFINE next == [r EXCEPT !.decisions = decisions]
<1>2. /\ DOMAIN next = RunFields /\ next.decisions = decisions
      /\ next.calls = r.calls /\ next.resolutions = r.resolutions
      /\ next.failed = r.failed
  BY <1>1 DEF Settled, RunFields
<1>3. after = Decided(next)
  OBVIOUS
<1> HIDE DEF next
<1>4. Settled(next)
  BY <1>1, <1>2, SettledWithDecisions
<1> QED BY <1>2, <1>3, <1>4, DecidedIsOrderly

LEMMA DecisionsAreOfSkus ==
  ASSUME Orderly(run)
  PROVE  /\ DOMAIN Decisions(run) \subseteq Sku
         /\ DOMAIN Reassessments(run) \subseteq Sku
BY DEF Orderly, Decisions, Reassessments, Conflicts

-----------------------------------------------------------------------------
(* Quiet is an invariant. *)

LEMMA BeginIsQuiet == Quiet /\ Begin => Quiet'
BY NewRunIsOrderly DEF Quiet, Begin, world

LEMMA AnswersAreQuiet == Quiet /\ Answered => Quiet'
<1> SUFFICES ASSUME Quiet, Answered PROVE Quiet'
  OBVIOUS
<1>1. /\ Orderly(run') /\ run'.failed = run.failed
      /\ run'.status = run.status
  <2>1. PICK w \in Warehouse : \/ AnswerCatalogue(w)
                               \/ \E s \in Sku : AnswerEvents(w, s)
                               \/ \E s \in Sku : AnswerVerification(w, s)
    BY DEF Answered
  <2>2. CASE AnswerCatalogue(w)
    <3> DEFINE c == Called(run, "catalogue", w, NoSku, "ok")
    <3>1. Orderly(c) /\ c.failed = run.failed /\ c.status = run.status
      BY CallIsOrderly DEF Quiet
    <3>2. \E x, y : run' = [c EXCEPT !.observed = x, !.obs = y]
      BY <2>2 DEF AnswerCatalogue
    <3> HIDE DEF c
    <3> QED BY <3>1, <3>2, AnswerIsOrderly
  <2>3. CASE \E s \in Sku : AnswerEvents(w, s)
    <3>1. PICK s \in Sku : AnswerEvents(w, s)
      BY <2>3
    <3> DEFINE c == Called(run, "events", w, s, "ok")
    <3>2. Orderly(c) /\ c.failed = run.failed /\ c.status = run.status
      BY CallIsOrderly DEF Quiet
    <3>3. \E x : run' = [c EXCEPT !.histories = x]
      BY <3>1 DEF AnswerEvents
    <3> HIDE DEF c
    <3> QED BY <3>2, <3>3, AnswerIsOrderly
  <2>4. CASE \E s \in Sku : AnswerVerification(w, s)
    <3>1. PICK s \in Sku : AnswerVerification(w, s)
      BY <2>4
    <3> DEFINE c == Called(run, "verification", w, s, "ok")
    <3>2. Orderly(c) /\ c.failed = run.failed /\ c.status = run.status
      BY CallIsOrderly DEF Quiet
    <3>3. \E x : run' = [c EXCEPT !.checked = x]
      BY <3>1 DEF AnswerVerification
    <3> HIDE DEF c
    <3> QED BY <3>2, <3>3, AnswerIsOrderly
  <2> QED BY <2>1, <2>2, <2>3, <2>4
<1>2. late' = late
  BY DEF Answered, AnswerCatalogue, AnswerEvents, AnswerVerification, world
<1> QED BY <1>1, <1>2 DEF Quiet

LEMMA LoopStepsAreQuiet == Quiet /\ (Analyse \/ Reassess \/ Resolve) => Quiet'
<1> SUFFICES ASSUME Quiet, Analyse \/ Reassess \/ Resolve PROVE Quiet'
  OBVIOUS
<1>1. /\ DOMAIN Decisions(run) \subseteq Sku
      /\ DOMAIN Reassessments(run) \subseteq Sku
  BY DecisionsAreOfSkus DEF Quiet
<1>2. /\ Orderly(run') /\ run'.failed = run.failed
      /\ run'.status # "starting"
  <2>1. CASE Analyse
    <3>1. run.status = "observing" /\ run' = Analysis(run, Decisions(run))
      BY <2>1 DEF Analyse
    <3> QED BY <1>1, <3>1, AnalysisIsOrderly DEF Quiet
  <2>2. CASE Reassess
    <3>1. /\ run.status = "investigating"
          /\ run' = Decided([run EXCEPT !.decisions = Reassessments(run)])
      BY <2>2 DEF Reassess
    <3> QED BY <1>1, <3>1, ReassessmentIsOrderly DEF Quiet
  <2>3. CASE Resolve
    <3>1. run.status = "verifying" /\ run' = Resolution(run)
      BY <2>3 DEF Resolve
    <3> QED BY <3>1, ResolutionIsOrderly DEF Quiet
  <2> QED BY <2>1, <2>2, <2>3
<1>3. late' = late
  BY DEF Analyse, Reassess, Resolve, world
<1> QED BY <1>2, <1>3 DEF Quiet

LEMMA WritesAreQuiet == Quiet /\ (ExecuteUpdate \/ LoseUpdate) => Quiet'
<1> SUFFICES ASSUME Quiet, ExecuteUpdate \/ LoseUpdate PROVE Quiet'
  OBVIOUS
<1>1. CASE ExecuteUpdate
  <2>1. run.status = "executing" /\ late' = late
    BY <1>1 DEF ExecuteUpdate
  <2>2. PICK answer : run' = Sent(run, Min(run.todo), answer)
    BY <1>1 DEF ExecuteUpdate
  <2>3. /\ Orderly(run') /\ run.failed \subseteq run'.failed
        /\ run'.status # "starting"
    BY <2>1, <2>2, SentIsOrderly DEF Quiet
  <2> QED BY <2>1, <2>3 DEF Quiet
<1>2. CASE LoseUpdate
  <2>1. /\ run.status = "executing"
        /\ late' = late \cup {Message(run, Min(run.todo))}
        /\ run' = Sent(run, Min(run.todo), "lost")
    BY <1>2 DEF LoseUpdate
  <2>2. /\ Orderly(run') /\ run.failed \subseteq run'.failed
        /\ run.current \in run'.failed /\ run'.status # "starting"
    BY <2>1, SentIsOrderly DEF Quiet
  <2>3. Message(run, Min(run.todo)).sku = run.current
    BY DEF Message
  <2> QED BY <2>1, <2>2, <2>3 DEF Quiet
<1> QED BY <1>1, <1>2

LEMMA FaultsAreQuiet == Quiet /\ Fault => Quiet'
<1> SUFFICES ASSUME Quiet, Fault PROVE Quiet'
  OBVIOUS
<1>1. CASE \E w \in Warehouse, s \in Sku \cup {NoSku} : LoseRead(w, s)
  <2>1. PICK w \in Warehouse, s \in Sku \cup {NoSku} : LoseRead(w, s)
    BY <1>1
  <2>2. /\ late' = late
        /\ run' = Called(run, Purpose(run.status), w, s, "lost")
    BY <2>1 DEF LoseRead, world
  <2>3. /\ Orderly(run') /\ run'.failed = run.failed
        /\ run'.status = run.status
    BY <2>2, CallIsOrderly DEF Quiet
  <2> QED BY <2>2, <2>3 DEF Quiet
<1>2. CASE LoseUpdate
  BY <1>2, WritesAreQuiet
<1>3. CASE \E m \in late : HandleLate(m)
  <2>1. run' = run /\ late' \subseteq late
    BY <1>3 DEF HandleLate
  <2> QED BY <2>1 DEF Quiet
<1> QED BY <1>1, <1>2, <1>3 DEF Fault

LEMMA StepsAreQuiet == Quiet /\ [Next]_vars => Quiet'
<1> SUFFICES ASSUME Quiet, [Next]_vars PROVE Quiet'
  OBVIOUS
<1>1. CASE Terminated \/ UNCHANGED vars
  BY <1>1 DEF Terminated, vars, Quiet
<1> QED BY <1>1, BeginIsQuiet, AnswersAreQuiet, LoopStepsAreQuiet,
           WritesAreQuiet, FaultsAreQuiet DEF Next, RunStep

(* A PUT that is still under way is of a SKU whose execution has failed    *)
(* (runner.py:214-276, executor.py:38-54), whatever calls are lost.        *)
THEOREM QuietInvariant == Spec => []Quiet
<1>1. Init => Quiet
  <2> SUFFICES ASSUME Init PROVE Quiet
    OBVIOUS
  <2>1. PICK version \in AgentVersions : run = NewRun(version)
    BY DEF Init
  <2> QED BY <2>1, NewRunIsOrderly DEF Quiet, Init
<1> QED BY <1>1, StepsAreQuiet, PTL DEF Spec

(* What a run has RESOLVED stays as verified: no PUT for it is under way   *)
(* any more, however many SKUs, warehouses and lost calls there are.       *)
THEOREM ResolvedIsStill == Spec => []ResolvedIsQuiet
<1>1. Quiet => ResolvedIsQuiet
  BY DEF Quiet, Orderly, ResolvedIsQuiet
<1> QED BY <1>1, QuietInvariant, PTL

-----------------------------------------------------------------------------
(* The state of a run, exactly *)

Statuses == {"starting", "observing", "investigating", "executing",
             "verifying", "completed", "failed"}

(* What was read: records of observed warehouses, and histories that were  *)
(* asked of warehouses which hold the SKU.                                 *)
WhatWasRead(r) ==
  /\ r.version \in 1..3
  /\ r.observed \in SUBSET Warehouse
  /\ DOMAIN r.obs = Sku /\ DOMAIN r.histories = Sku
  /\ r.asked \in SUBSET (Warehouse \X Sku)
  /\ \A s \in Sku : /\ r.obs[s] \in Partial(Record)
                    /\ DOMAIN r.obs[s] \subseteq r.observed
                    /\ AskedOf(r, s) \subseteq DOMAIN r.obs[s]
                    /\ DOMAIN r.histories[s] \subseteq AskedOf(r, s)

(* What was decided: nothing before the analysis, and then every conflict. *)
Undecided(r) ==
  r.status \in {"starting", "observing", "failed"} \/ r.version = 1

WhatWasDecided(r) ==
  /\ DOMAIN r.decisions = IF Undecided(r) THEN {} ELSE Conflicts(r)
  /\ Undecided(r) => r.asked = {}
  /\ \A s \in DOMAIN r.decisions : SoundDecision(r.decisions[s], r.obs[s])
  /\ r.status \in {"executing", "verifying", "completed"} =>
       \A s \in DOMAIN r.decisions : r.decisions[s].outcome # "INVESTIGATE"
  /\ r.status = "investigating" =>
       /\ r.version # 1
       /\ \A s \in DOMAIN r.decisions :
            r.decisions[s].outcome = "INVESTIGATE" <=> AskedOf(r, s) # {}

(* What was written: the plans that were started are those of the          *)
(* decisions, and a SKU without a plan has the resolution of its decision. *)
WhatWasWritten(r) ==
  /\ DOMAIN r.resolutions \subseteq DOMAIN r.decisions
  /\ DOMAIN r.plans = DOMAIN r.checked
  /\ DOMAIN r.plans \subseteq DOMAIN r.decisions
  /\ \A s \in DOMAIN r.plans :
       /\ Executable(r, s) /\ r.plans[s] = PlanFor(r, s)
       /\ r.checked[s] \in Partial(Record)
       /\ DOMAIN r.checked[s] \subseteq DOMAIN r.obs[s]
  /\ \A s \in DOMAIN r.resolutions \ DOMAIN r.plans :
       ~Executable(r, s) /\ r.resolutions[s] = Unwritten(r.decisions[s])
  /\ r.failed \cup r.verified \subseteq DOMAIN r.plans
  /\ DOMAIN r.plans \cup DOMAIN r.resolutions # {} =>
       r.version = 3 /\ r.status # "investigating"

(* Whose turn it is *)
WhoseTurn(r) ==
  /\ r.status \in Statuses
  /\ InHand(r) \subseteq DOMAIN r.plans \ DOMAIN r.resolutions
  /\ DOMAIN r.plans \subseteq DOMAIN r.resolutions \cup InHand(r)
  /\ r.current \in DOMAIN r.plans \cup {NoSku}
  /\ r.todo # {} <=> r.status = "executing"
  /\ r.status = "executing" => /\ r.todo \subseteq r.plans[r.current].targets
                               /\ r.current \notin r.failed
  /\ r.status = "completed" /\ r.version = 3 =>
       DOMAIN r.resolutions = DOMAIN r.decisions

(* The calls of the gather() that is waited for *)
Awaited(r) ==
  CASE r.status = "observing" -> Warehouse \X {NoSku}
    [] r.status = "investigating" -> r.asked
    [] r.status = "verifying" -> (DOMAIN r.obs[r.current]) \X {r.current}
    [] OTHER -> {}

SoundRun(r) ==
  /\ DOMAIN r = RunFields
  /\ WhatWasRead(r)
  /\ WhatWasDecided(r)
  /\ WhatWasWritten(r)
  /\ WhoseTurn(r)
  /\ r.waiting \subseteq Awaited(r)

LEMMA NothingRead ==
  ASSUME NEW r, r.obs = [s \in Sku |-> <<>>], r.histories = [s \in Sku |-> <<>>],
         r.version \in 1..3, r.observed = {}, r.asked = {}
  PROVE  WhatWasRead(r)
<1>1. <<>> \in Partial(Record) /\ DOMAIN <<>> = {}
  BY EmptyIsPartial
<1>2. \A s \in Sku : AskedOf(r, s) = {}
  BY DEF AskedOf
<1> QED BY <1>1, <1>2 DEF WhatWasRead

LEMMA NewRunIsSound ==
  ASSUME NEW version \in 1..3
  PROVE  SoundRun(NewRun(version)) /\ SoundRun(Observing(version))
<1> DEFINE r == NewRun(version)
           q == Observing(version)
<1>1. DOMAIN <<>> = {}
  OBVIOUS
<1> DEFINE Blank(x) ==
             /\ DOMAIN x = RunFields /\ x.version = version
             /\ x.obs = [s \in Sku |-> <<>>] /\ x.histories = [s \in Sku |-> <<>>]
             /\ x.observed = {} /\ x.asked = {} /\ x.decisions = <<>>
             /\ x.plans = <<>> /\ x.checked = <<>> /\ x.resolutions = <<>>
             /\ x.current = NoSku /\ x.todo = {} /\ x.failed = {}
             /\ x.verified = {}
<1>2. Blank(r) /\ r.status = "starting" /\ r.waiting = {}
  BY DEF NewRun, RunFields
<1>3. Blank(q) /\ q.status = "observing" /\ q.waiting = Warehouse \X {NoSku}
  <2>1. q = [r EXCEPT !.status = "observing", !.waiting = Warehouse \X {NoSku}]
    BY DEF Observing
  <2> HIDE DEF r, q
  <2> QED BY <1>2, <2>1 DEF RunFields
<1> HIDE DEF r, q
<1>4. ASSUME NEW x, Blank(x), x.status \in {"starting", "observing"},
             x.waiting \subseteq Awaited(x)
      PROVE  SoundRun(x)
  <2>1. WhatWasRead(x)
    BY <1>4, NothingRead
  <2>2. WhatWasDecided(x)
    BY <1>1, <1>4 DEF WhatWasDecided, Undecided
  <2>3. WhatWasWritten(x) /\ WhoseTurn(x)
    BY <1>1, <1>4 DEF WhatWasWritten, WhoseTurn, InHand, Statuses
  <2> QED BY <1>4, <2>1, <2>2, <2>3 DEF SoundRun
<1> QED BY <1>2, <1>3, <1>4 DEF Awaited, r, q

(* What depends on which fields *)
LEMMA ReadingStays ==
  ASSUME NEW r, WhatWasRead(r), NEW q, q.version = r.version,
         q.observed = r.observed, q.obs = r.obs, q.histories = r.histories,
         q.asked = r.asked
  PROVE  WhatWasRead(q)
BY DEF WhatWasRead, AskedOf

LEMMA DecidedStays ==
  ASSUME NEW r, WhatWasDecided(r), NEW q, q.version = r.version,
         q.status = r.status, q.obs = r.obs, q.asked = r.asked,
         q.decisions = r.decisions
  PROVE  WhatWasDecided(q)
BY DEF WhatWasDecided, Undecided, Conflicts, AskedOf

LEMMA SamePlan ==
  ASSUME NEW r, NEW q, NEW s, q.obs[s] = r.obs[s],
         q.decisions[s] = r.decisions[s]
  PROVE  PlanFor(q, s) = PlanFor(r, s) /\ Executable(q, s) = Executable(r, s)
BY DEF PlanFor, Executable

LEMMA WrittenStays ==
  ASSUME NEW r, WhatWasWritten(r), NEW q, q.version = r.version,
         q.obs = r.obs, q.decisions = r.decisions, q.plans = r.plans,
         q.checked = r.checked, q.resolutions = r.resolutions,
         q.failed = r.failed, q.verified = r.verified,
         q.status = "investigating" => r.status = "investigating"
  PROVE  WhatWasWritten(q)
<1>1. \A s : PlanFor(q, s) = PlanFor(r, s) /\ Executable(q, s) = Executable(r, s)
  BY SamePlan
<1> QED BY <1>1 DEF WhatWasWritten

LEMMA TurnStays ==
  ASSUME NEW r, WhoseTurn(r), NEW q, q.version = r.version,
         q.status = r.status, q.decisions = r.decisions, q.plans = r.plans,
         q.resolutions = r.resolutions, q.failed = r.failed,
         q.current = r.current, q.todo = r.todo
  PROVE  WhoseTurn(q)
BY DEF WhoseTurn, InHand

LEMMA CallChanges ==
  ASSUME NEW r, DOMAIN r = RunFields, NEW p, NEW w, NEW s, NEW answer
  PROVE  LET q == Called(r, p, w, s, answer) IN
         /\ DOMAIN q = RunFields
         /\ q.version = r.version /\ q.status = r.status
         /\ q.observed = r.observed /\ q.obs = r.obs /\ q.asked = r.asked
         /\ q.histories = r.histories /\ q.decisions = r.decisions
         /\ q.plans = r.plans /\ q.current = r.current /\ q.todo = r.todo
         /\ q.failed = r.failed /\ q.checked = r.checked
         /\ q.verified = r.verified /\ q.resolutions = r.resolutions
         /\ q.waiting = r.waiting \ {<<w, s>>}
         /\ q.calls = r.calls \cup {[purpose |-> p, to |-> w, sku |-> s,
                                     answer |-> answer]}
BY DEF Called, RunFields

LEMMA CallIsSound ==
  ASSUME NEW r, SoundRun(r), NEW p, NEW w, NEW s, NEW answer
  PROVE  SoundRun(Called(r, p, w, s, answer))
<1> DEFINE q == Called(r, p, w, s, answer)
<1>1. DOMAIN r = RunFields
  BY DEF SoundRun
<1>2. /\ DOMAIN q = RunFields
      /\ q.version = r.version /\ q.status = r.status
      /\ q.observed = r.observed /\ q.obs = r.obs /\ q.asked = r.asked
      /\ q.histories = r.histories /\ q.decisions = r.decisions
      /\ q.plans = r.plans /\ q.current = r.current /\ q.todo = r.todo
      /\ q.failed = r.failed /\ q.checked = r.checked
      /\ q.verified = r.verified /\ q.resolutions = r.resolutions
      /\ q.waiting = r.waiting \ {<<w, s>>}
  BY <1>1, CallChanges
<1> HIDE DEF q
<1>3. WhatWasRead(q)
  BY <1>2, ReadingStays DEF SoundRun
<1>4. WhatWasDecided(q)
  BY <1>2, DecidedStays DEF SoundRun
<1>5. WhatWasWritten(q)
  BY <1>2, WrittenStays DEF SoundRun
<1>6. WhoseTurn(q)
  BY <1>2, TurnStays DEF SoundRun
<1>7. Awaited(q) = Awaited(r)
  BY <1>2 DEF Awaited
<1>8. q.waiting \subseteq Awaited(q)
  BY <1>2, <1>7 DEF SoundRun
<1> QED BY <1>2, <1>3, <1>4, <1>5, <1>6, <1>8 DEF SoundRun, q

-----------------------------------------------------------------------------
(* Answers *)

(* Nothing is decided while catalogues are read. *)
LEMMA ObservingDecidesNothing ==
  ASSUME NEW r, SoundRun(r), Undecided(r)
  PROVE  /\ DOMAIN r.decisions = {} /\ DOMAIN r.plans = {}
         /\ DOMAIN r.checked = {} /\ DOMAIN r.resolutions = {}
         /\ r.failed = {} /\ r.verified = {} /\ r.asked = {}
         /\ \A s : AskedOf(r, s) = {}
         /\ \A s \in Sku : DOMAIN r.histories[s] = {}
BY DEF SoundRun, WhatWasRead, WhatWasDecided, WhatWasWritten, AskedOf

(* Without decisions there is nothing else that could be unsound. *)
LEMMA UndecidedIsSound ==
  ASSUME NEW r, DOMAIN r = RunFields, WhatWasRead(r), Undecided(r),
         r.status \in {"starting", "observing", "failed", "completed"},
         DOMAIN r.decisions = {}, DOMAIN r.plans = {}, DOMAIN r.checked = {},
         DOMAIN r.resolutions = {}, r.failed = {}, r.verified = {},
         r.asked = {}, r.current = NoSku, r.todo = {},
         r.waiting \subseteq Awaited(r)
  PROVE  SoundRun(r)
<1>1. WhatWasDecided(r)
  BY DEF WhatWasDecided, Undecided
<1>2. WhatWasWritten(r)
  BY DEF WhatWasWritten
<1>3. WhoseTurn(r)
  BY DEF WhoseTurn, InHand, Statuses, Undecided
<1> QED BY <1>1, <1>2, <1>3 DEF SoundRun

LEMMA CatalogueIsSound ==
  ASSUME NEW r, SoundRun(r), r.status = "observing", NEW w \in Warehouse,
         NEW h \in [Sku -> Entry \cup {Missing}], NEW q,
         q = [r EXCEPT !.observed = r.observed \cup {w},
                       !.obs = [s \in Sku |->
                                  IF h[s] = Missing THEN r.obs[s]
                                  ELSE With(r.obs[s], w, h[s].rec)]]
  PROVE  SoundRun(q)
<1> DEFINE obs == [s \in Sku |-> IF h[s] = Missing THEN r.obs[s]
                                 ELSE With(r.obs[s], w, h[s].rec)]
<1>1. DOMAIN r = RunFields
  BY DEF SoundRun
<1>2. /\ DOMAIN q = RunFields
      /\ q.version = r.version /\ q.status = r.status
      /\ q.observed = r.observed \cup {w} /\ q.obs = obs
      /\ q.asked = r.asked /\ q.histories = r.histories
      /\ q.decisions = r.decisions /\ q.plans = r.plans
      /\ q.current = r.current /\ q.todo = r.todo /\ q.failed = r.failed
      /\ q.checked = r.checked /\ q.verified = r.verified
      /\ q.resolutions = r.resolutions /\ q.waiting = r.waiting
  <2> HIDE DEF obs
  <2>1. q = [r EXCEPT !.observed = r.observed \cup {w}, !.obs = obs]
    BY DEF obs
  <2> QED BY <1>1, <2>1 DEF RunFields
<1>3. Undecided(r) /\ Undecided(q)
  BY <1>2 DEF Undecided
<1>4. /\ DOMAIN r.decisions = {} /\ DOMAIN r.plans = {}
      /\ DOMAIN r.checked = {} /\ DOMAIN r.resolutions = {}
      /\ r.failed = {} /\ r.verified = {} /\ r.asked = {}
      /\ \A s \in Sku : DOMAIN r.histories[s] = {}
  BY <1>3, ObservingDecidesNothing
<1>5. ASSUME NEW s \in Sku
      PROVE  /\ obs[s] \in Partial(Record)
             /\ DOMAIN obs[s] \subseteq r.observed \cup {w}
  <2>1. r.obs[s] \in Partial(Record) /\ DOMAIN r.obs[s] \subseteq r.observed
    BY DEF SoundRun, WhatWasRead
  <2>2. CASE h[s] = Missing
    BY <2>1, <2>2
  <2>3. CASE h[s] # Missing
    <3>1. h[s].rec \in Record
      BY <2>3 DEF Entry
    <3>2. obs[s] = With(r.obs[s], w, h[s].rec)
      BY <2>3
    <3>3. obs[s] \in Partial(Record)
      BY <2>1, <3>1, <3>2, WithType
    <3>4. DOMAIN obs[s] = DOMAIN r.obs[s] \cup {w}
      <4> DEFINE f == r.obs[s]
                 x == h[s].rec
      <4>1. obs[s] = With(f, w, x)
        BY <3>2
      <4> HIDE DEF obs, f, x
      <4>2. DOMAIN With(f, w, x) = DOMAIN f \cup {w}
        BY WithDomain
      <4>3. DOMAIN obs[s] = DOMAIN f \cup {w}
        BY <4>1, <4>2
      <4> QED BY <4>3 DEF f
    <3> QED BY <2>1, <3>3, <3>4
  <2> QED BY <2>2, <2>3
<1>6. DOMAIN obs = Sku
  OBVIOUS
<1> HIDE DEF obs
<1>7. WhatWasRead(q)
  <2>1. \A s \in Sku : AskedOf(q, s) = {}
    BY <1>2, <1>4 DEF AskedOf
  <2>2. q.observed \in SUBSET Warehouse /\ q.version \in 1..3
        /\ DOMAIN q.histories = Sku /\ q.asked \in SUBSET (Warehouse \X Sku)
    BY <1>2 DEF SoundRun, WhatWasRead
  <2> QED BY <1>2, <1>4, <1>5, <1>6, <2>1, <2>2 DEF WhatWasRead
<1>8. r.current = NoSku /\ r.todo = {}
  BY <1>4 DEF SoundRun, WhoseTurn
<1>9. q.waiting \subseteq Awaited(q)
  BY <1>2 DEF SoundRun, Awaited
<1> QED BY <1>2, <1>3, <1>4, <1>7, <1>8, <1>9, UndecidedIsSound

LEMMA ChangedValue ==
  ASSUME NEW f, NEW a \in DOMAIN f, NEW y
  PROVE  LET g == [f EXCEPT ![a] = y] IN
         /\ DOMAIN g = DOMAIN f
         /\ g[a] = y
         /\ \A b \in DOMAIN f \ {a} : g[b] = f[b]
OBVIOUS

LEMMA EventsAreSound ==
  ASSUME NEW r, SoundRun(r), NEW w, NEW s, <<w, s>> \in r.asked,
         NEW got, NEW q,
         q = [r EXCEPT !.histories =
                [r.histories EXCEPT ![s] = With(r.histories[s], w, got)]]
  PROVE  SoundRun(q)
<1>1. DOMAIN r = RunFields /\ DOMAIN r.histories = Sku /\ s \in Sku /\ w \in Warehouse
  BY DEF SoundRun, WhatWasRead
<1> DEFINE histories == [r.histories EXCEPT ![s] = With(r.histories[s], w, got)]
<1>2. /\ DOMAIN q = RunFields
      /\ q.version = r.version /\ q.status = r.status
      /\ q.observed = r.observed /\ q.obs = r.obs
      /\ q.asked = r.asked /\ q.histories = histories
      /\ q.decisions = r.decisions /\ q.plans = r.plans
      /\ q.current = r.current /\ q.todo = r.todo /\ q.failed = r.failed
      /\ q.checked = r.checked /\ q.verified = r.verified
      /\ q.resolutions = r.resolutions /\ q.waiting = r.waiting
  <2>1. q = [r EXCEPT !.histories = histories]
    OBVIOUS
  <2> HIDE DEF histories
  <2> QED BY <1>1, <2>1 DEF RunFields
<1>3. /\ DOMAIN histories = Sku
      /\ histories[s] = With(r.histories[s], w, got)
      /\ \A t \in Sku \ {s} : histories[t] = r.histories[t]
  BY <1>1, ChangedValue
<1> HIDE DEF histories
<1>4. DOMAIN histories[s] = DOMAIN r.histories[s] \cup {w}
  <2>1. DOMAIN With(r.histories[s], w, got) = DOMAIN r.histories[s] \cup {w}
    BY WithDomain
  <2>2. histories[s] = With(r.histories[s], w, got)
    BY <1>3
  <2> QED BY <2>1, <2>2
<1>5. w \in AskedOf(r, s)
  BY <1>1 DEF AskedOf
<1>6. \A t \in Sku : DOMAIN r.histories[t] \subseteq AskedOf(r, t)
  BY DEF SoundRun, WhatWasRead
<1>7. \A t \in Sku : DOMAIN histories[t] \subseteq AskedOf(r, t)
  BY <1>3, <1>4, <1>5, <1>6
<1>8. \A t \in Sku : AskedOf(q, t) = AskedOf(r, t)
  BY <1>2 DEF AskedOf
<1>9. WhatWasRead(q)
  BY <1>2, <1>3, <1>7, <1>8 DEF SoundRun, WhatWasRead
<1>10. WhatWasDecided(q)
  BY <1>2, DecidedStays DEF SoundRun
<1>11. WhatWasWritten(q)
  BY <1>2, WrittenStays DEF SoundRun
<1>12. WhoseTurn(q)
  BY <1>2, TurnStays DEF SoundRun
<1>13. q.waiting \subseteq Awaited(q)
  BY <1>2 DEF SoundRun, Awaited
<1> QED BY <1>2, <1>9, <1>10, <1>11, <1>12, <1>13 DEF SoundRun

LEMMA VerificationIsSound ==
  ASSUME NEW r, SoundRun(r), NEW s \in DOMAIN r.plans,
         NEW w \in DOMAIN r.obs[s], NEW got \in Record, NEW q,
         q = [r EXCEPT !.checked =
                [r.checked EXCEPT ![s] = With(r.checked[s], w, got)]]
  PROVE  SoundRun(q)
<1>1. DOMAIN r = RunFields /\ s \in DOMAIN r.checked /\ s \in Sku
  BY DEF SoundRun, WhatWasWritten, WhatWasDecided, Conflicts
<1> DEFINE checked == [r.checked EXCEPT ![s] = With(r.checked[s], w, got)]
<1>2. /\ DOMAIN q = RunFields
      /\ q.version = r.version /\ q.status = r.status
      /\ q.observed = r.observed /\ q.obs = r.obs
      /\ q.asked = r.asked /\ q.histories = r.histories
      /\ q.decisions = r.decisions /\ q.plans = r.plans
      /\ q.current = r.current /\ q.todo = r.todo /\ q.failed = r.failed
      /\ q.checked = checked /\ q.verified = r.verified
      /\ q.resolutions = r.resolutions /\ q.waiting = r.waiting
  <2>1. q = [r EXCEPT !.checked = checked]
    OBVIOUS
  <2> HIDE DEF checked
  <2> QED BY <1>1, <2>1 DEF RunFields
<1>3. /\ DOMAIN checked = DOMAIN r.checked
      /\ checked[s] = With(r.checked[s], w, got)
      /\ \A t \in DOMAIN r.checked \ {s} : checked[t] = r.checked[t]
  BY <1>1, ChangedValue
<1> HIDE DEF checked
<1>4. /\ r.checked[s] \in Partial(Record)
      /\ DOMAIN r.checked[s] \subseteq DOMAIN r.obs[s]
      /\ DOMAIN r.obs[s] \subseteq Warehouse
  <2>1. r.obs[s] \in Partial(Record)
    BY <1>1 DEF SoundRun, WhatWasRead
  <2> QED BY <2>1, PartialFunctions DEF SoundRun, WhatWasWritten
<1>5. checked[s] \in Partial(Record) /\ DOMAIN checked[s] = DOMAIN r.checked[s] \cup {w}
  <2>1. /\ With(r.checked[s], w, got) \in Partial(Record)
        /\ DOMAIN With(r.checked[s], w, got) = DOMAIN r.checked[s] \cup {w}
    BY <1>4, WithType, WithDomain
  <2>2. checked[s] = With(r.checked[s], w, got)
    BY <1>3
  <2> QED BY <2>1, <2>2
<1>6. \A t : PlanFor(q, t) = PlanFor(r, t) /\ Executable(q, t) = Executable(r, t)
  BY <1>2, SamePlan
<1>7. WhatWasRead(q)
  BY <1>2, ReadingStays DEF SoundRun
<1>8. WhatWasDecided(q)
  BY <1>2, DecidedStays DEF SoundRun
<1>9. WhatWasWritten(q)
  <2>1. \A t \in DOMAIN r.plans : /\ checked[t] \in Partial(Record)
                                  /\ DOMAIN checked[t] \subseteq DOMAIN r.obs[t]
    BY <1>3, <1>4, <1>5 DEF SoundRun, WhatWasWritten
  <2> QED BY <1>2, <1>3, <1>6, <2>1 DEF SoundRun, WhatWasWritten
<1>10. WhoseTurn(q)
  BY <1>2, TurnStays DEF SoundRun
<1>11. q.waiting \subseteq Awaited(q)
  BY <1>2 DEF SoundRun, Awaited
<1> QED BY <1>2, <1>7, <1>8, <1>9, <1>10, <1>11 DEF SoundRun

-----------------------------------------------------------------------------
(* Writes and verdicts *)

(* The fields of a run after the end of one PUT *)
TodoAfter(r, w, answer) == IF answer = "ok" THEN r.todo \ {w} ELSE {}

FailedAfter(r, answer) ==
  IF answer = "ok" THEN r.failed ELSE r.failed \cup {r.current}

FieldsAfterPut(q, r, w, answer) ==
  /\ DOMAIN q = RunFields
  /\ q.version = r.version /\ q.observed = r.observed
  /\ q.obs = r.obs /\ q.asked = r.asked /\ q.histories = r.histories
  /\ q.decisions = r.decisions /\ q.plans = r.plans
  /\ q.current = r.current /\ q.checked = r.checked
  /\ q.verified = r.verified /\ q.resolutions = r.resolutions
  /\ q.calls = r.calls \cup {[purpose |-> "write", to |-> w,
                              sku |-> r.current, answer |-> answer]}
  /\ q.todo = TodoAfter(r, w, answer) /\ q.failed = FailedAfter(r, answer)
  /\ q.todo # {} => /\ q.status = r.status
                    /\ q.waiting = r.waiting \ {<<w, r.current>>}
  /\ q.todo = {} => /\ q.status = "verifying"
                    /\ q.waiting = r.plans[r.current].participants
                                     \X {r.current}

LEMMA SentChanges ==
  ASSUME NEW r, DOMAIN r = RunFields, NEW w, NEW answer
  PROVE  FieldsAfterPut(Sent(r, w, answer), r, w, answer)
<1> DEFINE c == Called(r, "write", w, r.current, answer)
           todo == TodoAfter(r, w, answer)
           failed == FailedAfter(r, answer)
           next == [c EXCEPT !.todo = todo, !.failed = failed]
           all == r.plans[r.current].participants \X {r.current}
           q == Sent(r, w, answer)
<1>1. /\ DOMAIN c = RunFields
      /\ c.version = r.version /\ c.status = r.status
      /\ c.observed = r.observed /\ c.obs = r.obs /\ c.asked = r.asked
      /\ c.histories = r.histories /\ c.decisions = r.decisions
      /\ c.plans = r.plans /\ c.current = r.current /\ c.todo = r.todo
      /\ c.failed = r.failed /\ c.checked = r.checked
      /\ c.verified = r.verified /\ c.resolutions = r.resolutions
      /\ c.waiting = r.waiting \ {<<w, r.current>>}
      /\ c.calls = r.calls \cup {[purpose |-> "write", to |-> w,
                                  sku |-> r.current, answer |-> answer]}
  BY CallChanges
<1>2. q = LET n == [c EXCEPT !.todo = IF answer = "ok" THEN @ \ {w} ELSE {},
                             !.failed = IF answer = "ok" THEN @
                                        ELSE @ \cup {r.current}]
          IN  IF n.todo # {} THEN n
              ELSE [n EXCEPT !.status = "verifying", !.waiting = all]
  BY DEF Sent
<1> HIDE DEF c, q
<1>3. q = IF next.todo # {} THEN next
          ELSE [next EXCEPT !.status = "verifying", !.waiting = all]
  BY <1>1, <1>2 DEF TodoAfter, FailedAfter
<1> HIDE DEF todo, failed, all
<1>4. /\ DOMAIN next = RunFields
      /\ next.version = r.version /\ next.status = r.status
      /\ next.observed = r.observed /\ next.obs = r.obs
      /\ next.asked = r.asked /\ next.histories = r.histories
      /\ next.decisions = r.decisions /\ next.plans = r.plans
      /\ next.current = r.current /\ next.todo = todo
      /\ next.failed = failed /\ next.checked = r.checked
      /\ next.verified = r.verified /\ next.resolutions = r.resolutions
      /\ next.waiting = r.waiting \ {<<w, r.current>>}
      /\ next.calls = r.calls \cup {[purpose |-> "write", to |-> w,
                                     sku |-> r.current, answer |-> answer]}
  BY <1>1 DEF RunFields
<1> HIDE DEF next
<1>5. CASE todo # {}
  <2>1. q = next
    BY <1>3, <1>4, <1>5
  <2> QED BY <1>4, <1>5, <2>1 DEF FieldsAfterPut, todo, failed, q
<1>6. CASE todo = {}
  <2>1. q = [next EXCEPT !.status = "verifying", !.waiting = all]
    BY <1>3, <1>4, <1>6
  <2>2. /\ DOMAIN q = RunFields
        /\ q.version = r.version /\ q.status = "verifying"
        /\ q.observed = r.observed /\ q.obs = r.obs
        /\ q.asked = r.asked /\ q.histories = r.histories
        /\ q.decisions = r.decisions /\ q.plans = r.plans
        /\ q.current = r.current /\ q.todo = todo
        /\ q.failed = failed /\ q.checked = r.checked
        /\ q.verified = r.verified /\ q.resolutions = r.resolutions
        /\ q.waiting = all /\ q.calls = next.calls
    BY <1>4, <2>1 DEF RunFields
  <2> QED BY <1>4, <1>6, <2>2 DEF FieldsAfterPut, todo, failed, q, all
<1> QED BY <1>5, <1>6

(* The plan of a SKU is of every warehouse that was seen to hold it. *)
LEMMA PlannedIsSound ==
  ASSUME NEW r, WhatWasRead(r), NEW s \in Sku, Executable(r, s),
         SoundDecision(r.decisions[s], r.obs[s])
  PROVE  /\ PlanFor(r, s) \in Plan
         /\ PlanFor(r, s).participants = DOMAIN r.obs[s]
         /\ PlanFor(r, s).targets \subseteq DOMAIN r.obs[s]
         /\ PlanFor(r, s).targets # {}
<1>1. r.obs[s] \in Partial(Record)
  BY DEF WhatWasRead
<1>2. SoundReconciliation(r.decisions[s], r.obs[s])
  BY ReconcileIsSound DEF Executable
<1>3. PlanFor(r, s).targets # {}
  BY DEF Executable
<1> QED BY <1>1, <1>2, <1>3, PlansAreTyped DEF PlanFor

LEMMA PlansOfSoundRuns ==
  ASSUME NEW r, SoundRun(r), NEW s \in DOMAIN r.plans
  PROVE  /\ s \in Sku
         /\ r.plans[s] = PlanFor(r, s)
         /\ r.plans[s] \in Plan
         /\ r.plans[s].participants = DOMAIN r.obs[s]
         /\ r.plans[s].targets \subseteq DOMAIN r.obs[s]
         /\ DOMAIN r.obs[s] \subseteq Warehouse
         /\ r.obs[s] \in Partial(Record)
<1>1. s \in DOMAIN r.decisions /\ Executable(r, s) /\ r.plans[s] = PlanFor(r, s)
  BY DEF SoundRun, WhatWasWritten
<1>2. s \in Sku /\ SoundDecision(r.decisions[s], r.obs[s])
  BY <1>1 DEF SoundRun, WhatWasDecided, Conflicts
<1>3. r.obs[s] \in Partial(Record) /\ WhatWasRead(r)
  BY <1>2 DEF SoundRun, WhatWasRead
<1> QED BY <1>1, <1>2, <1>3, PlannedIsSound, PartialFunctions

(* What is to be written next is a warehouse that was seen to hold it. *)
LEMMA TurnOfExecution ==
  ASSUME NEW r, SoundRun(r), r.status = "executing"
  PROVE  /\ r.current \in DOMAIN r.plans
         /\ Min(r.todo) \in r.todo
         /\ r.todo \subseteq DOMAIN r.obs[r.current]
         /\ r.todo \subseteq r.plans[r.current].targets
<1>1. /\ r.current \in DOMAIN r.plans /\ r.todo # {}
      /\ r.todo \subseteq r.plans[r.current].targets
  BY DEF SoundRun, WhoseTurn, InHand
<1>2. /\ r.plans[r.current].targets \subseteq DOMAIN r.obs[r.current]
      /\ DOMAIN r.obs[r.current] \subseteq Warehouse
  BY <1>1, PlansOfSoundRuns
<1>3. r.todo \in SUBSET Warehouse
  BY <1>1, <1>2
<1>4. Min(r.todo) \in r.todo
  BY <1>1, <1>3, WarehousesAreNumbers
<1> QED BY <1>1, <1>2, <1>4

LEMMA SentIsSound ==
  ASSUME NEW r, SoundRun(r), r.status = "executing", NEW w, NEW answer
  PROVE  SoundRun(Sent(r, w, answer))
<1> DEFINE q == Sent(r, w, answer)
<1>1. DOMAIN r = RunFields
  BY DEF SoundRun
<1>2. FieldsAfterPut(q, r, w, answer)
  BY <1>1, SentChanges
<1> HIDE DEF q
<1>3. /\ q.todo \subseteq r.todo
      /\ q.failed \subseteq r.failed \cup {r.current}
      /\ q.todo # {} => q.failed = r.failed
  BY <1>2 DEF FieldsAfterPut, TodoAfter, FailedAfter
<1>4. /\ r.current \in DOMAIN r.plans
      /\ r.current \in DOMAIN r.plans \ DOMAIN r.resolutions
      /\ r.todo \subseteq r.plans[r.current].targets
      /\ r.plans[r.current].participants = DOMAIN r.obs[r.current]
      /\ r.waiting = {}
  <2>1. r.current \in DOMAIN r.plans \ DOMAIN r.resolutions
    BY DEF SoundRun, WhoseTurn, InHand
  <2>2. r.waiting = {}
    BY DEF SoundRun, Awaited
  <2> QED BY <2>1, <2>2, TurnOfExecution, PlansOfSoundRuns
<1>5. q.status \in {"executing", "verifying"}
  BY <1>2 DEF FieldsAfterPut
<1>6. WhatWasRead(q)
  BY <1>2, ReadingStays DEF FieldsAfterPut, SoundRun
<1>7. WhatWasDecided(q)
  <2>1. Conflicts(q) = Conflicts(r) /\ \A s : AskedOf(q, s) = AskedOf(r, s)
    BY <1>2 DEF FieldsAfterPut, Conflicts, AskedOf
  <2>2. Undecided(q) = Undecided(r)
    BY <1>2, <1>5 DEF FieldsAfterPut, Undecided
  <2> QED BY <1>2, <1>5, <2>1, <2>2 DEF FieldsAfterPut, SoundRun, WhatWasDecided
<1>8. WhatWasWritten(q)
  <2>1. \A s : PlanFor(q, s) = PlanFor(r, s) /\ Executable(q, s) = Executable(r, s)
    BY <1>2, SamePlan DEF FieldsAfterPut
  <2>2. WhatWasWritten(r)
    BY DEF SoundRun
  <2>3. q.status # "investigating" /\ q.failed \subseteq DOMAIN r.plans
    BY <1>2, <1>3, <1>4, <1>5, <2>2 DEF FieldsAfterPut, WhatWasWritten
  <2> QED BY <1>2, <2>1, <2>2, <2>3 DEF FieldsAfterPut, WhatWasWritten
<1>9. WhoseTurn(q)
  <2>1. InHand(q) = {r.current} /\ InHand(r) = {r.current}
    BY <1>2, <1>5 DEF FieldsAfterPut, InHand
  <2> QED BY <1>2, <1>3, <1>4, <1>5, <2>1 DEF FieldsAfterPut, SoundRun, WhoseTurn, Statuses
<1>10. q.waiting \subseteq Awaited(q)
  <2>1. CASE q.todo # {}
    BY <1>2, <1>4, <2>1 DEF FieldsAfterPut
  <2>2. CASE q.todo = {}
    BY <1>2, <1>4, <2>2 DEF FieldsAfterPut, Awaited
  <2> QED BY <2>1, <2>2
<1> QED BY <1>2, <1>6, <1>7, <1>8, <1>9, <1>10 DEF FieldsAfterPut, SoundRun, q

-----------------------------------------------------------------------------
(* The loop over the decisions *)

Ready(r) ==
  {s \in DOMAIN r.decisions \ DOMAIN r.resolutions : Executable(r, s)}

Passed(r) ==
  {s \in DOMAIN r.decisions \ DOMAIN r.resolutions :
     \A t \in Ready(r) : s < t}

(* The fields of a run that went on to its next SKU, or to its end *)
FieldsAfterLoop(q, r) ==
  /\ DOMAIN q = RunFields
  /\ q.version = r.version /\ q.observed = r.observed
  /\ q.obs = r.obs /\ q.asked = r.asked /\ q.histories = r.histories
  /\ q.decisions = r.decisions /\ q.calls = r.calls /\ q.failed = r.failed
  /\ q.verified = r.verified /\ q.waiting = r.waiting
  /\ q.resolutions = [s \in DOMAIN r.resolutions \cup Passed(r) |->
                        IF s \in DOMAIN r.resolutions THEN r.resolutions[s]
                        ELSE Unwritten(r.decisions[s])]
  /\ Ready(r) = {} => /\ q.status = "completed" /\ q.current = NoSku
                      /\ q.plans = r.plans /\ q.checked = r.checked
                      /\ q.todo = r.todo
  /\ Ready(r) # {} => /\ q.status = "executing" /\ q.current = Min(Ready(r))
                      /\ q.plans = With(r.plans, q.current,
                                        PlanFor(r, q.current))
                      /\ q.checked = With(r.checked, q.current, <<>>)
                      /\ q.todo = PlanFor(r, q.current).targets

LEMMA ProceedChanges ==
  ASSUME NEW r, DOMAIN r = RunFields
  PROVE  FieldsAfterLoop(Proceed(r), r)
<1> DEFINE resolutions == [s \in DOMAIN r.resolutions \cup Passed(r) |->
                             IF s \in DOMAIN r.resolutions
                             THEN r.resolutions[s]
                             ELSE Unwritten(r.decisions[s])]
           next == [r EXCEPT !.resolutions = resolutions]
           s0 == Min(Ready(r))
           plan == PlanFor(r, s0)
           q == Proceed(r)
<1>1. q = IF Ready(r) = {}
          THEN [next EXCEPT !.status = "completed", !.current = NoSku]
          ELSE [next EXCEPT !.status = "executing", !.current = s0,
                            !.plans = With(next.plans, s0, plan),
                            !.todo = plan.targets,
                            !.checked = With(next.checked, s0, <<>>)]
  BY DEF Proceed, Ready, Passed
<1> HIDE DEF q, resolutions
<1>2. /\ DOMAIN next = RunFields /\ next.version = r.version
      /\ next.observed = r.observed /\ next.obs = r.obs
      /\ next.asked = r.asked /\ next.histories = r.histories
      /\ next.decisions = r.decisions /\ next.calls = r.calls
      /\ next.failed = r.failed /\ next.verified = r.verified
      /\ next.waiting = r.waiting /\ next.resolutions = resolutions
      /\ next.plans = r.plans /\ next.checked = r.checked
      /\ next.todo = r.todo
  BY DEF RunFields
<1> HIDE DEF next, s0, plan
<1>3. CASE Ready(r) = {}
  <2>1. q = [next EXCEPT !.status = "completed", !.current = NoSku]
    BY <1>1, <1>3
  <2>2. /\ DOMAIN q = RunFields /\ q.version = r.version
        /\ q.observed = r.observed /\ q.obs = r.obs
        /\ q.asked = r.asked /\ q.histories = r.histories
        /\ q.decisions = r.decisions /\ q.calls = r.calls
        /\ q.failed = r.failed /\ q.verified = r.verified
        /\ q.waiting = r.waiting /\ q.resolutions = resolutions
        /\ q.plans = r.plans /\ q.checked = r.checked /\ q.todo = r.todo
        /\ q.status = "completed" /\ q.current = NoSku
    BY <1>2, <2>1 DEF RunFields
  <2> QED BY <1>3, <2>2 DEF FieldsAfterLoop, q, resolutions
<1>4. CASE Ready(r) # {}
  <2> DEFINE plans == With(r.plans, s0, plan)
             checked == With(r.checked, s0, <<>>)
  <2>1. q = [next EXCEPT !.status = "executing", !.current = s0,
                         !.plans = plans, !.todo = plan.targets,
                         !.checked = checked]
    BY <1>1, <1>2, <1>4
  <2> HIDE DEF plans, checked
  <2>2. /\ DOMAIN q = RunFields /\ q.version = r.version
        /\ q.observed = r.observed /\ q.obs = r.obs
        /\ q.asked = r.asked /\ q.histories = r.histories
        /\ q.decisions = r.decisions /\ q.calls = r.calls
        /\ q.failed = r.failed /\ q.verified = r.verified
        /\ q.waiting = r.waiting /\ q.resolutions = resolutions
        /\ q.plans = plans /\ q.checked = checked /\ q.todo = plan.targets
        /\ q.status = "executing" /\ q.current = s0
    BY <1>2, <2>1 DEF RunFields
  <2> QED BY <1>4, <2>2
          DEF FieldsAfterLoop, q, resolutions, plans, checked, plan, s0
<1> QED BY <1>3, <1>4

(* A run of version 3 that has no SKU in hand *)
Between(r) ==
  /\ DOMAIN r = RunFields
  /\ WhatWasRead(r)
  /\ r.version = 3
  /\ DOMAIN r.decisions = Conflicts(r)
  /\ \A s \in DOMAIN r.decisions :
       /\ SoundDecision(r.decisions[s], r.obs[s])
       /\ r.decisions[s].outcome # "INVESTIGATE"
  /\ DOMAIN r.resolutions \subseteq DOMAIN r.decisions
  /\ DOMAIN r.plans = DOMAIN r.checked
  /\ DOMAIN r.plans \subseteq DOMAIN r.resolutions
  /\ \A s \in DOMAIN r.plans :
       /\ Executable(r, s) /\ r.plans[s] = PlanFor(r, s)
       /\ r.checked[s] \in Partial(Record)
       /\ DOMAIN r.checked[s] \subseteq DOMAIN r.obs[s]
  /\ \A s \in DOMAIN r.resolutions \ DOMAIN r.plans :
       ~Executable(r, s) /\ r.resolutions[s] = Unwritten(r.decisions[s])
  /\ r.failed \cup r.verified \subseteq DOMAIN r.plans
  /\ r.todo = {} /\ r.waiting = {}

LEMMA NextInTurn ==
  ASSUME NEW r, DOMAIN r.decisions \subseteq Sku, Ready(r) # {}
  PROVE  /\ Min(Ready(r)) \in Ready(r)
         /\ Min(Ready(r)) \notin Passed(r)
<1>1. Ready(r) \in SUBSET Nat
  BY AgentRunAssumption DEF Ready
<1>2. Min(Ready(r)) \in Ready(r)
  BY <1>1, LeastOfNats
<1>3. ~(Min(Ready(r)) < Min(Ready(r)))
  BY <1>1, <1>2
<1> QED BY <1>2, <1>3 DEF Passed

(* What is passed over is not executable. *)
LEMMA PassedOver ==
  ASSUME NEW r, DOMAIN r.decisions \subseteq Sku, NEW s \in Passed(r)
  PROVE  /\ s \in DOMAIN r.decisions \ DOMAIN r.resolutions
         /\ ~Executable(r, s)
<1>1. s \in DOMAIN r.decisions \ DOMAIN r.resolutions /\ s \in Nat
  BY AgentRunAssumption DEF Passed
<1>2. s \notin Ready(r)
  <2>1. ~(s < s)
    BY <1>1
  <2> QED BY <2>1 DEF Passed
<1> QED BY <1>1, <1>2 DEF Ready

LEMMA ProceedIsSound ==
  ASSUME NEW r, Between(r)
  PROVE  SoundRun(Proceed(r))
<1> DEFINE q == Proceed(r)
<1>1. FieldsAfterLoop(q, r)
  BY ProceedChanges DEF Between
<1> HIDE DEF q
<1>2. DOMAIN r.decisions \subseteq Sku
  BY DEF Between, Conflicts
<1>3. /\ DOMAIN q.resolutions = DOMAIN r.resolutions \cup Passed(r)
      /\ \A s \in DOMAIN r.resolutions : q.resolutions[s] = r.resolutions[s]
      /\ \A s \in Passed(r) \ DOMAIN r.resolutions :
           q.resolutions[s] = Unwritten(r.decisions[s])
  BY <1>1 DEF FieldsAfterLoop
<1>4. \A s : PlanFor(q, s) = PlanFor(r, s) /\ Executable(q, s) = Executable(r, s)
  BY <1>1, SamePlan DEF FieldsAfterLoop
<1>5. q.status \in {"executing", "completed"}
  BY <1>1 DEF FieldsAfterLoop
<1>6. WhatWasRead(q)
  BY <1>1, ReadingStays DEF FieldsAfterLoop, Between
<1>7. WhatWasDecided(q)
  <2>1. Conflicts(q) = Conflicts(r)
    BY <1>1 DEF FieldsAfterLoop, Conflicts
  <2>2. ~Undecided(q)
    BY <1>1, <1>5 DEF FieldsAfterLoop, Undecided, Between
  <2> QED BY <1>1, <1>5, <2>1, <2>2 DEF FieldsAfterLoop, WhatWasDecided, Between
<1>8. q.waiting \subseteq Awaited(q)
  BY <1>1 DEF FieldsAfterLoop, Between
<1>9. ASSUME NEW s \in DOMAIN q.resolutions \ DOMAIN r.plans
      PROVE  ~Executable(q, s) /\ q.resolutions[s] = Unwritten(q.decisions[s])
  <2>1. q.decisions = r.decisions
    BY <1>1 DEF FieldsAfterLoop
  <2>2. CASE s \in DOMAIN r.resolutions
    BY <1>3, <1>4, <2>1, <2>2 DEF Between
  <2>3. CASE s \notin DOMAIN r.resolutions
    BY <1>2, <1>3, <1>4, <2>1, <2>3, PassedOver
  <2> QED BY <2>2, <2>3
<1>10. DOMAIN q.resolutions \subseteq DOMAIN r.decisions
  BY <1>2, <1>3, PassedOver DEF Between
<1>11. CASE Ready(r) = {}
  <2>1. /\ q.status = "completed" /\ q.current = NoSku
        /\ q.plans = r.plans /\ q.checked = r.checked /\ q.todo = {}
    BY <1>1, <1>11 DEF FieldsAfterLoop, Between
  <2>2. DOMAIN q.resolutions = DOMAIN r.decisions
    BY <1>3, <1>11 DEF Passed, Between
  <2>3. WhatWasWritten(q)
    BY <1>1, <1>4, <1>9, <2>1, <2>2 DEF FieldsAfterLoop, Between, WhatWasWritten
  <2>4. WhoseTurn(q)
    BY <1>1, <1>3, <2>1, <2>2
       DEF FieldsAfterLoop, Between, WhoseTurn, InHand, Statuses
  <2> QED BY <1>1, <1>6, <1>7, <1>8, <2>3, <2>4 DEF SoundRun, FieldsAfterLoop, q
<1>12. CASE Ready(r) # {}
  <2> DEFINE c == q.current
  <2>1. /\ q.status = "executing" /\ c = Min(Ready(r))
        /\ q.plans = With(r.plans, c, PlanFor(r, c))
        /\ q.checked = With(r.checked, c, <<>>)
        /\ q.todo = PlanFor(r, c).targets
    BY <1>1, <1>12 DEF FieldsAfterLoop
  <2>2. c \in Ready(r) /\ c \notin Passed(r)
    BY <1>2, <1>12, <2>1, NextInTurn
  <2> HIDE DEF c
  <2>3. /\ c \in DOMAIN r.decisions /\ Executable(r, c)
        /\ c \notin DOMAIN r.resolutions /\ c \notin DOMAIN q.resolutions
        /\ c \notin DOMAIN r.plans /\ c \notin r.failed
    BY <1>3, <2>2 DEF Ready, Between
  <2>4. /\ DOMAIN q.plans = DOMAIN r.plans \cup {c}
        /\ q.plans[c] = PlanFor(r, c)
        /\ \A s \in DOMAIN r.plans : q.plans[s] = r.plans[s]
    BY <2>1, <2>3 DEF With
  <2>5. /\ DOMAIN q.checked = DOMAIN r.checked \cup {c}
        /\ q.checked[c] = <<>>
        /\ \A s \in DOMAIN r.checked \ {c} : q.checked[s] = r.checked[s]
    BY <2>1 DEF With
  <2>6. /\ PlanFor(r, c).targets # {}
    BY <2>3 DEF Executable
  <2>7. WhatWasWritten(q)
    <3>1. ASSUME NEW s \in DOMAIN q.plans
          PROVE  /\ Executable(q, s) /\ q.plans[s] = PlanFor(q, s)
                 /\ q.checked[s] \in Partial(Record)
                 /\ DOMAIN q.checked[s] \subseteq DOMAIN q.obs[s]
      <4>1. q.obs = r.obs
        BY <1>1 DEF FieldsAfterLoop
      <4>2. CASE s = c
        BY <1>4, <2>3, <2>4, <2>5, <4>2, EmptyIsPartial
      <4>3. CASE s # c
        BY <1>4, <2>4, <2>5, <4>1, <4>3 DEF Between
      <4> QED BY <4>2, <4>3
    <3>2. DOMAIN q.plans = DOMAIN q.checked
      BY <2>4, <2>5 DEF Between
    <3>3. q.failed \cup q.verified \subseteq DOMAIN q.plans
      BY <1>1, <2>4 DEF FieldsAfterLoop, Between
    <3>4. DOMAIN q.plans \subseteq DOMAIN r.decisions
      BY <2>3, <2>4 DEF Between
    <3>5. /\ q.decisions = r.decisions /\ q.version = 3
          /\ q.status # "investigating"
      BY <1>1, <2>1 DEF FieldsAfterLoop, Between
    <3>6. \A s \in DOMAIN q.resolutions \ DOMAIN q.plans :
            ~Executable(q, s) /\ q.resolutions[s] = Unwritten(q.decisions[s])
      BY <1>9, <2>4
    <3> QED BY <1>10, <3>1, <3>2, <3>3, <3>4, <3>5, <3>6 DEF WhatWasWritten
  <2>8. WhoseTurn(q)
    <3>1. InHand(q) = {c} /\ q.current = c
      BY <2>1 DEF InHand, c
    <3>2. q.todo \subseteq q.plans[q.current].targets /\ q.todo # {}
      BY <2>1, <2>4, <2>6, <3>1
    <3>3. /\ DOMAIN q.plans \subseteq DOMAIN q.resolutions \cup {c}
          /\ c \in DOMAIN q.plans \ DOMAIN q.resolutions
      BY <1>3, <2>3, <2>4 DEF Between
    <3>4. c \notin q.failed
      BY <1>1, <2>3 DEF FieldsAfterLoop
    <3> QED BY <2>1, <3>1, <3>2, <3>3, <3>4 DEF WhoseTurn, Statuses
  <2> QED BY <1>1, <1>6, <1>7, <1>8, <2>7, <2>8 DEF SoundRun, FieldsAfterLoop, q
<1> QED BY <1>11, <1>12

(* The resolution of the SKU in hand *)
Verdict(r) ==
  IF /\ r.current \notin r.failed
     /\ Verified([plan |-> r.plans[r.current], checked |-> r.checked[r.current]])
  THEN "RESOLVED" ELSE "ESCALATED"

LEMMA ResolutionProceeds ==
  ASSUME NEW r, SoundRun(r), r.status = "verifying", r.waiting = {}
  PROVE  \E q : /\ Between(q) /\ Resolution(r) = Proceed(q)
                /\ q.version = r.version /\ q.observed = r.observed
                /\ q.obs = r.obs /\ q.asked = r.asked
                /\ q.histories = r.histories /\ q.decisions = r.decisions
                /\ q.plans = r.plans /\ q.checked = r.checked
                /\ q.failed = r.failed /\ q.calls = r.calls
                /\ q.resolutions = With(r.resolutions, r.current, Verdict(r))
<1> DEFINE s == r.current
           done == Verified([plan |-> r.plans[s], checked |-> r.checked[s]])
           verified == IF done THEN r.verified \cup {s} ELSE r.verified
           outcome == IF s \notin r.failed /\ done
                      THEN "RESOLVED" ELSE "ESCALATED"
           resolutions == With(r.resolutions, s, outcome)
           q == [r EXCEPT !.verified = verified, !.resolutions = resolutions]
<1>1. Resolution(r) = Proceed(q)
  BY DEF Resolution
<1>2. s \in DOMAIN r.plans /\ r.version = 3
  BY DEF SoundRun, WhoseTurn, InHand, WhatWasWritten
<1>3. DOMAIN resolutions = DOMAIN r.resolutions \cup {s}
  <2> HIDE DEF outcome, s
  <2> QED BY WithDomain
<1>4. \A t \in DOMAIN r.resolutions \ {s} : resolutions[t] = r.resolutions[t]
  <2> HIDE DEF outcome, s
  <2> QED BY DEF With
<1>5. verified \subseteq r.verified \cup {s}
  OBVIOUS
<1> HIDE DEF verified, resolutions
<1>6. /\ DOMAIN q = RunFields /\ q.version = r.version
      /\ q.status = r.status
      /\ q.observed = r.observed /\ q.obs = r.obs /\ q.asked = r.asked
      /\ q.histories = r.histories /\ q.decisions = r.decisions
      /\ q.plans = r.plans /\ q.checked = r.checked /\ q.todo = r.todo
      /\ q.waiting = r.waiting /\ q.failed = r.failed
      /\ q.verified = verified /\ q.resolutions = resolutions
      /\ q.calls = r.calls
  BY DEF SoundRun, RunFields
<1> HIDE DEF q
<1>7. \A t : PlanFor(q, t) = PlanFor(r, t) /\ Executable(q, t) = Executable(r, t)
  BY <1>6, SamePlan
<1>8. WhatWasRead(q)
  BY <1>6, ReadingStays DEF SoundRun
<1>9. Conflicts(q) = Conflicts(r) /\ ~Undecided(r)
  BY <1>2, <1>6 DEF Conflicts, Undecided
<1>10. WhatWasWritten(r) /\ WhatWasDecided(r) /\ WhoseTurn(r)
  BY DEF SoundRun
<1>11. DOMAIN r.plans \subseteq DOMAIN r.resolutions \cup {s} /\ r.todo = {}
  BY <1>10 DEF WhoseTurn, InHand
<1> HIDE DEF s
<1>12. DOMAIN q.resolutions \subseteq DOMAIN r.decisions
  BY <1>2, <1>3, <1>6, <1>10 DEF WhatWasWritten
<1>13. /\ DOMAIN q.plans \subseteq DOMAIN q.resolutions
       /\ q.failed \cup q.verified \subseteq DOMAIN q.plans
  BY <1>2, <1>3, <1>5, <1>6, <1>10, <1>11 DEF WhatWasWritten
<1>14. \A t \in DOMAIN q.resolutions \ DOMAIN q.plans :
         ~Executable(q, t) /\ q.resolutions[t] = Unwritten(q.decisions[t])
  BY <1>2, <1>3, <1>4, <1>6, <1>7, <1>10 DEF WhatWasWritten
<1>15. \A t \in DOMAIN q.decisions :
         /\ SoundDecision(q.decisions[t], q.obs[t])
         /\ q.decisions[t].outcome # "INVESTIGATE"
  BY <1>6, <1>10 DEF WhatWasDecided
<1>16. \A t \in DOMAIN q.plans :
         /\ Executable(q, t) /\ q.plans[t] = PlanFor(q, t)
         /\ q.checked[t] \in Partial(Record)
         /\ DOMAIN q.checked[t] \subseteq DOMAIN q.obs[t]
  BY <1>6, <1>7, <1>10 DEF WhatWasWritten
<1>17. DOMAIN q.plans = DOMAIN q.checked /\ DOMAIN q.decisions = Conflicts(q)
  BY <1>6, <1>9, <1>10 DEF WhatWasWritten, WhatWasDecided
<1>18. Between(q)
  BY <1>2, <1>6, <1>8, <1>11, <1>12, <1>13, <1>14, <1>15, <1>16, <1>17
     DEF Between
<1>19. resolutions = With(r.resolutions, r.current, Verdict(r))
  BY DEF resolutions, s, Verdict
<1> QED BY <1>1, <1>6, <1>18, <1>19

LEMMA ResolutionIsSound ==
  ASSUME NEW r, SoundRun(r), r.status = "verifying", r.waiting = {}
  PROVE  SoundRun(Resolution(r))
BY ResolutionProceeds, ProceedIsSound

LEMMA ResolutionKeepsCatalogues ==
  ASSUME NEW r, DOMAIN r = RunFields
  PROVE  /\ Resolution(r).obs = r.obs
         /\ Resolution(r).status \in {"executing", "completed"}
<1>1. PICK x, y : Resolution(r) = Proceed([r EXCEPT !.verified = x,
                                                   !.resolutions = y])
  BY DEF Resolution
<1> DEFINE q == [r EXCEPT !.verified = x, !.resolutions = y]
<1>2. DOMAIN q = RunFields /\ q.obs = r.obs
  BY DEF RunFields
<1> HIDE DEF q
<1>3. FieldsAfterLoop(Proceed(q), q)
  BY <1>2, ProceedChanges
<1> QED BY <1>1, <1>2, <1>3 DEF FieldsAfterLoop, q

-----------------------------------------------------------------------------
(* Decisions *)

(* A run that has just decided *)
JustDecided(r) ==
  /\ DOMAIN r = RunFields
  /\ WhatWasRead(r)
  /\ r.version \in {2, 3}
  /\ DOMAIN r.decisions = Conflicts(r)
  /\ \A s \in DOMAIN r.decisions :
       /\ SoundDecision(r.decisions[s], r.obs[s])
       /\ r.decisions[s].outcome # "INVESTIGATE"
  /\ DOMAIN r.resolutions = {} /\ DOMAIN r.plans = {} /\ DOMAIN r.checked = {}
  /\ r.failed = {} /\ r.verified = {} /\ r.todo = {} /\ r.waiting = {}
  /\ r.current = NoSku

LEMMA DecidedIsSound ==
  ASSUME NEW r, JustDecided(r)
  PROVE  SoundRun(Decided(r))
<1>1. CASE r.version = 2
  <2> DEFINE q == [r EXCEPT !.status = "completed"]
  <2>1. Decided(r) = q
    BY <1>1 DEF Decided
  <2>2. /\ DOMAIN q = RunFields /\ q.version = r.version
        /\ q.status = "completed"
        /\ q.observed = r.observed /\ q.obs = r.obs /\ q.asked = r.asked
        /\ q.histories = r.histories /\ q.decisions = r.decisions
        /\ q.plans = r.plans /\ q.checked = r.checked /\ q.todo = r.todo
        /\ q.waiting = r.waiting /\ q.failed = r.failed
        /\ q.verified = r.verified /\ q.resolutions = r.resolutions
        /\ q.current = r.current
    BY DEF JustDecided, RunFields
  <2> HIDE DEF q
  <2>3. WhatWasRead(q)
    BY <2>2, ReadingStays DEF JustDecided
  <2>4. Conflicts(q) = Conflicts(r) /\ ~Undecided(q)
    BY <1>1, <2>2 DEF Conflicts, Undecided
  <2>5. WhatWasDecided(q)
    BY <2>2, <2>4 DEF WhatWasDecided, JustDecided
  <2>6. WhatWasWritten(q)
    BY <2>2 DEF WhatWasWritten, JustDecided
  <2>7. InHand(q) = {}
    BY <2>2 DEF InHand
  <2>8. WhoseTurn(q)
    BY <1>1, <2>2, <2>7 DEF WhoseTurn, Statuses, JustDecided
  <2>9. q.waiting \subseteq Awaited(q)
    BY <2>2 DEF JustDecided
  <2> QED BY <2>1, <2>2, <2>3, <2>5, <2>6, <2>8, <2>9 DEF SoundRun
<1>2. CASE r.version = 3
  <2>1. Between(r)
    BY <1>2 DEF JustDecided, Between
  <2>2. Decided(r) = Proceed(r)
    BY <1>2 DEF Decided
  <2> QED BY <2>1, <2>2, ProceedIsSound
<1> QED BY <1>1, <1>2 DEF JustDecided

LEMMA DecidedGoesOn ==
  ASSUME NEW r, DOMAIN r = RunFields
  PROVE  /\ Decided(r).status \in {"executing", "completed"}
         /\ Decided(r).obs = r.obs
<1>1. CASE r.version = 2
  <2> DEFINE q == [r EXCEPT !.status = "completed"]
  <2>1. Decided(r) = q
    BY <1>1 DEF Decided
  <2>2. q.status = "completed" /\ q.obs = r.obs
    BY DEF RunFields
  <2> QED BY <2>1, <2>2
<1>2. CASE r.version # 2
  <2>1. Decided(r) = Proceed(r)
    BY <1>2 DEF Decided
  <2>2. FieldsAfterLoop(Proceed(r), r)
    BY ProceedChanges
  <2> QED BY <2>1, <2>2 DEF FieldsAfterLoop
<1> QED BY <1>1, <1>2

(* What is read of a SKU is evidence about it. *)
LEMMA EvidenceIsAssessed ==
  ASSUME NEW r, WhatWasRead(r), NEW s \in Sku
  PROVE  /\ Assessed(EvidenceOf(r, s), DOMAIN r.obs[s])
         /\ EvidenceOf(r, s).obs = r.obs[s]
         /\ Investigated(EvidenceOf(r, s)) = DOMAIN r.histories[s]
<1>1. /\ r.obs[s] \in [DOMAIN r.obs[s] -> Record]
      /\ DOMAIN r.obs[s] \in SUBSET Warehouse
  BY PartialFunctions DEF WhatWasRead
<1>2. DOMAIN r.histories[s] \subseteq DOMAIN r.obs[s]
  BY DEF WhatWasRead
<1>3. /\ EvidenceOf(r, s).obs = r.obs[s]
      /\ EvidenceOf(r, s).histories = r.histories[s]
  BY DEF EvidenceOf
<1> QED BY <1>1, <1>2, <1>3 DEF Assessed, Investigated

(* A first decision to investigate leaves something to be read. *)
LEMMA InvestigationsRead ==
  ASSUME NEW e, Investigated(e) = {}, Decide(e).outcome = "INVESTIGATE"
  PROVE  InvestigationPlan(Decide(e), e) # {}
<1>1. /\ Escalate.outcome = "ESCALATE" /\ NoAction.outcome = "NO_ACTION"
      /\ \A x, y : Reconcile(x, y).outcome = "RECONCILE"
      /\ \A ws : Investigate(ws).investigate = ws
  BY DEF Escalate, NoAction, Investigate, Reconcile
<1>2. SameVersionDivergence(e.obs) => DOMAIN e.obs # {}
  BY DEF SameVersionDivergence, Several, Inventories, Values
<1>3. \E ws : ws # {} /\ Decide(e) = Investigate(ws)
  BY <1>1, <1>2 DEF Decide, Repair, ReconcileStale
<1> QED BY <1>1, <1>3 DEF InvestigationPlan

LEMMA SecondLookDecides ==
  ASSUME NEW e, NEW plan, plan # {}
  PROVE  Reassessed(plan, e).outcome # "INVESTIGATE"
BY DEF Reassessed, Escalate

(* The calls an analysis asks for *)
AskedBy(r, decisions) ==
  {c \in Warehouse \X Conflicts(r) :
     c[1] \in InvestigationPlan(decisions[c[2]], EvidenceOf(r, c[2]))}

LEMMA FirstDecisions ==
  ASSUME NEW r, WhatWasRead(r), \A s \in Sku : DOMAIN r.histories[s] = {},
         NEW s \in Conflicts(r)
  PROVE  LET d == Decisions(r)[s]
             plan == InvestigationPlan(d, EvidenceOf(r, s))
         IN  /\ SoundDecision(d, r.obs[s])
             /\ plan \subseteq DOMAIN r.obs[s]
             /\ d.outcome = "INVESTIGATE" <=> plan # {}
<1> DEFINE e == EvidenceOf(r, s)
           d == Decide(e)
           plan == InvestigationPlan(d, e)
<1>1. Decisions(r)[s] = d
  BY DEF Decisions
<1>2. s \in Sku
  BY DEF Conflicts
<1>3. /\ Assessed(e, DOMAIN r.obs[s]) /\ e.obs = r.obs[s]
      /\ Investigated(e) = {}
  BY <1>2, EvidenceIsAssessed
<1> HIDE DEF e
<1>4. SoundDecision(d, r.obs[s])
  BY <1>3, DecisionsAreSound
<1>5. d.outcome = "INVESTIGATE" => plan # {}
  BY <1>3, InvestigationsRead
<1>6. d.outcome # "INVESTIGATE" => plan = {}
  BY DEF InvestigationPlan
<1>7. plan \subseteq DOMAIN r.obs[s]
  <2> HIDE DEF d
  <2>1. CASE d.outcome = "INVESTIGATE"
    <3>1. /\ Escalate.outcome = "ESCALATE" /\ NoAction.outcome = "NO_ACTION"
          /\ \A ws : Investigate(ws).investigate = ws
      BY DEF Escalate, NoAction, Investigate
    <3>2. d.investigate \subseteq DOMAIN r.obs[s]
      BY <1>4, <2>1, <3>1 DEF SoundDecision, SoundReconciliation
    <3> QED BY <2>1, <3>2 DEF InvestigationPlan
  <2> QED BY <1>6, <2>1
<1> QED BY <1>1, <1>4, <1>5, <1>6, <1>7 DEF e

LEMMA AskedByAnalysis ==
  ASSUME NEW r, WhatWasRead(r), \A s \in Sku : DOMAIN r.histories[s] = {}
  PROVE  LET asked == AskedBy(r, Decisions(r)) IN
         /\ asked \in SUBSET (Warehouse \X Sku)
         /\ \A s \in Sku : {w \in Warehouse : <<w, s>> \in asked}
                             \subseteq DOMAIN r.obs[s]
         /\ \A s \in Conflicts(r) :
              Decisions(r)[s].outcome = "INVESTIGATE"
                <=> {w \in Warehouse : <<w, s>> \in asked} # {}
<1> DEFINE asked == AskedBy(r, Decisions(r))
           plan(s) == InvestigationPlan(Decisions(r)[s], EvidenceOf(r, s))
           of(s) == {w \in Warehouse : <<w, s>> \in asked}
<1>1. Conflicts(r) \subseteq Sku
  BY DEF Conflicts
<1>2. \A w, s : <<w, s>> \in asked
                  <=> w \in Warehouse /\ s \in Conflicts(r) /\ w \in plan(s)
  BY DEF AskedBy
<1>3. asked \in SUBSET (Warehouse \X Sku)
  BY <1>1 DEF AskedBy
<1>4. \A s \in Sku : DOMAIN r.obs[s] \in SUBSET Warehouse
  BY PartialFunctions DEF WhatWasRead
<1> HIDE DEF asked, plan
<1>5. ASSUME NEW s \in Conflicts(r)
      PROVE  /\ of(s) \subseteq DOMAIN r.obs[s]
             /\ Decisions(r)[s].outcome = "INVESTIGATE" <=> of(s) # {}
  <2>1. /\ plan(s) \subseteq DOMAIN r.obs[s]
        /\ Decisions(r)[s].outcome = "INVESTIGATE" <=> plan(s) # {}
    BY FirstDecisions DEF plan
  <2>2. of(s) = plan(s)
    BY <1>1, <1>2, <1>4, <2>1
  <2> QED BY <2>1, <2>2
<1>6. \A s : s \notin Conflicts(r) => of(s) = {}
  BY <1>2
<1> QED BY <1>3, <1>5, <1>6 DEF asked

LEMMA AnalysisIsSound ==
  ASSUME NEW r, SoundRun(r), r.status = "observing", r.waiting = {}
  PROVE  /\ SoundRun(Analysis(r, Decisions(r)))
         /\ r.observed # Warehouse =>
              Analysis(r, Decisions(r)) = [r EXCEPT !.status = "failed"]
         /\ r.observed = Warehouse =>
              Analysis(r, Decisions(r)).status # "failed"
<1> DEFINE decisions == Decisions(r)
           asked == AskedBy(r, decisions)
           next == [r EXCEPT !.decisions = decisions, !.asked = asked]
           q == Analysis(r, decisions)
<1>1. q = IF r.observed # Warehouse THEN [r EXCEPT !.status = "failed"]
          ELSE IF r.version = 1 THEN [r EXCEPT !.status = "completed"]
          ELSE IF asked = {} THEN Decided(next)
          ELSE [next EXCEPT !.status = "investigating", !.waiting = asked]
  BY DEF Analysis, AskedBy
<1>2. /\ DOMAIN r.decisions = {} /\ DOMAIN r.plans = {}
      /\ DOMAIN r.checked = {} /\ DOMAIN r.resolutions = {}
      /\ r.failed = {} /\ r.verified = {} /\ r.asked = {}
      /\ \A s \in Sku : DOMAIN r.histories[s] = {}
  BY ObservingDecidesNothing DEF Undecided
<1>3. DOMAIN r = RunFields /\ WhatWasRead(r)
  BY DEF SoundRun
<1>4. r.current = NoSku /\ r.todo = {}
  BY <1>2 DEF SoundRun, WhoseTurn
<1>5. /\ asked \in SUBSET (Warehouse \X Sku)
      /\ \A s \in Sku : {w \in Warehouse : <<w, s>> \in asked}
                          \subseteq DOMAIN r.obs[s]
      /\ \A s \in Conflicts(r) :
           decisions[s].outcome = "INVESTIGATE"
             <=> {w \in Warehouse : <<w, s>> \in asked} # {}
  BY <1>2, <1>3, AskedByAnalysis
<1>6. DOMAIN decisions = Conflicts(r)
  BY DEF Decisions
<1>7. \A s \in Conflicts(r) : SoundDecision(decisions[s], r.obs[s])
  BY <1>2, <1>3, FirstDecisions
<1> HIDE DEF decisions, asked, q
<1>8. ASSUME NEW st \in {"failed", "completed"}, q = [r EXCEPT !.status = st],
             st = "completed" => r.version = 1
      PROVE  SoundRun(q)
  <2>1. /\ DOMAIN q = RunFields /\ q.version = r.version
        /\ q.status = st
        /\ q.observed = r.observed /\ q.obs = r.obs /\ q.asked = r.asked
        /\ q.histories = r.histories /\ q.decisions = r.decisions
        /\ q.plans = r.plans /\ q.checked = r.checked /\ q.todo = r.todo
        /\ q.waiting = r.waiting /\ q.failed = r.failed
        /\ q.verified = r.verified /\ q.resolutions = r.resolutions
        /\ q.current = r.current
    BY <1>3, <1>8 DEF RunFields
  <2>2. WhatWasRead(q)
    BY <1>3, <2>1, ReadingStays
  <2>3. Undecided(q) /\ q.waiting \subseteq Awaited(q)
    BY <1>8, <2>1 DEF Undecided
  <2> QED BY <1>2, <1>4, <1>8, <2>1, <2>2, <2>3, UndecidedIsSound
<1>9. /\ DOMAIN next = RunFields /\ next.version = r.version
      /\ next.observed = r.observed /\ next.obs = r.obs
      /\ next.asked = asked /\ next.histories = r.histories
      /\ next.decisions = decisions /\ next.plans = r.plans
      /\ next.checked = r.checked /\ next.todo = r.todo
      /\ next.waiting = r.waiting /\ next.failed = r.failed
      /\ next.verified = r.verified /\ next.resolutions = r.resolutions
      /\ next.current = r.current
  BY <1>3 DEF RunFields
<1> HIDE DEF next
<1>10. \A s : AskedOf(next, s) = {w \in Warehouse : <<w, s>> \in asked}
  BY <1>9 DEF AskedOf
<1>11. Conflicts(next) = Conflicts(r)
  BY <1>9 DEF Conflicts
<1>12. WhatWasRead(next)
  BY <1>2, <1>3, <1>5, <1>9, <1>10 DEF WhatWasRead
<1>13. ASSUME asked = {}, r.version # 1
       PROVE  SoundRun(Decided(next)) /\ Decided(next).status # "failed"
  <2>1. \A s \in Conflicts(r) : decisions[s].outcome # "INVESTIGATE"
    BY <1>5, <1>13
  <2>2. r.version \in {2, 3}
    BY <1>3, <1>13 DEF WhatWasRead
  <2>3. JustDecided(next)
    BY <1>2, <1>4, <1>6, <1>7, <1>9, <1>11, <1>12, <2>1, <2>2 DEF JustDecided
  <2>4. SoundRun(Decided(next))
    BY <2>3, DecidedIsSound
  <2> QED BY <1>9, <2>4, DecidedGoesOn
<1>14. ASSUME q = [next EXCEPT !.status = "investigating", !.waiting = asked],
              r.version # 1
       PROVE  SoundRun(q) /\ q.status # "failed"
  <2>1. /\ DOMAIN q = RunFields /\ q.version = r.version
        /\ q.status = "investigating"
        /\ q.observed = r.observed /\ q.obs = r.obs /\ q.asked = asked
        /\ q.histories = r.histories /\ q.decisions = decisions
        /\ q.plans = r.plans /\ q.checked = r.checked /\ q.todo = r.todo
        /\ q.waiting = asked /\ q.failed = r.failed
        /\ q.verified = r.verified /\ q.resolutions = r.resolutions
        /\ q.current = r.current
    BY <1>9, <1>14 DEF RunFields
  <2>2. WhatWasRead(q)
    BY <1>9, <1>12, <2>1, ReadingStays
  <2>3. /\ \A s : AskedOf(q, s) = {w \in Warehouse : <<w, s>> \in asked}
        /\ Conflicts(q) = Conflicts(r) /\ ~Undecided(q)
    BY <1>14, <2>1 DEF AskedOf, Conflicts, Undecided
  <2>4. WhatWasDecided(q)
    BY <1>5, <1>6, <1>7, <1>14, <2>1, <2>3 DEF WhatWasDecided
  <2>5. WhatWasWritten(q)
    BY <1>2, <2>1 DEF WhatWasWritten
  <2>6. InHand(q) = {}
    BY <2>1 DEF InHand
  <2>7. WhoseTurn(q)
    BY <1>2, <1>4, <2>1, <2>6 DEF WhoseTurn, Statuses
  <2>8. q.waiting \subseteq Awaited(q)
    BY <2>1 DEF Awaited
  <2> QED BY <2>1, <2>2, <2>4, <2>5, <2>7, <2>8 DEF SoundRun
<1>15. CASE r.observed # Warehouse
  BY <1>1, <1>8, <1>15 DEF q, decisions
<1>16. CASE r.observed = Warehouse /\ r.version = 1
  <2>1. q = [r EXCEPT !.status = "completed"]
    BY <1>1, <1>16
  <2>2. q.status # "failed"
    BY <1>3, <2>1 DEF RunFields
  <2> QED BY <1>8, <1>16, <2>1, <2>2 DEF q, decisions
<1>17. CASE r.observed = Warehouse /\ r.version # 1
  BY <1>1, <1>13, <1>14, <1>17 DEF q, decisions
<1> QED BY <1>15, <1>16, <1>17

LEMMA AnalysisKeepsCatalogues ==
  ASSUME NEW r, DOMAIN r = RunFields, NEW decisions,
         NEW q, q = Analysis(r, decisions)
  PROVE  q.obs = r.obs /\ q.status # "observing"
<1> DEFINE asked == AskedBy(r, decisions)
           next == [r EXCEPT !.decisions = decisions, !.asked = asked]
<1>1. \/ q = [r EXCEPT !.status = "failed"]
      \/ q = [r EXCEPT !.status = "completed"]
      \/ q = Decided(next)
      \/ q = [next EXCEPT !.status = "investigating", !.waiting = asked]
  BY DEF Analysis, AskedBy
<1> HIDE DEF asked
<1>2. DOMAIN next = RunFields /\ next.obs = r.obs
  BY DEF RunFields
<1> HIDE DEF next
<1>3. CASE \/ q = [r EXCEPT !.status = "failed"]
          \/ q = [r EXCEPT !.status = "completed"]
          \/ q = [next EXCEPT !.status = "investigating", !.waiting = asked]
  BY <1>2, <1>3 DEF RunFields
<1>4. CASE q = Decided(next)
  BY <1>2, <1>4, DecidedGoesOn
<1> QED BY <1>1, <1>3, <1>4

LEMMA ReassessmentDecides ==
  ASSUME NEW r, SoundRun(r), r.status = "investigating", r.waiting = {}
  PROVE  JustDecided([r EXCEPT !.decisions = Reassessments(r)])
<1> DEFINE decisions == Reassessments(r)
           q == [r EXCEPT !.decisions = decisions]
<1>1. DOMAIN r = RunFields /\ WhatWasRead(r) /\ WhatWasDecided(r)
  BY DEF SoundRun
<1>2. r.version \in {2, 3} /\ ~Undecided(r)
  BY <1>1 DEF WhatWasRead, WhatWasDecided, Undecided
<1>3. DOMAIN decisions = Conflicts(r) /\ DOMAIN r.decisions = Conflicts(r)
  BY <1>1, <1>2 DEF Reassessments, WhatWasDecided
<1>4. ASSUME NEW s \in Conflicts(r)
      PROVE  /\ SoundDecision(decisions[s], r.obs[s])
             /\ decisions[s].outcome # "INVESTIGATE"
  <2>1. s \in Sku /\ s \in DOMAIN r.decisions
    BY <1>3 DEF Conflicts
  <2>2. CASE r.decisions[s].outcome # "INVESTIGATE"
    <3>1. decisions[s] = r.decisions[s]
      BY <2>1, <2>2 DEF Reassessments
    <3> QED BY <1>1, <2>1, <2>2, <3>1 DEF WhatWasDecided
  <2>3. CASE r.decisions[s].outcome = "INVESTIGATE"
    <3> DEFINE e == EvidenceOf(r, s)
               asked == AskedOf(r, s)
    <3>1. decisions[s] = Reassessed(asked, e)
      BY <2>1, <2>3 DEF Reassessments
    <3>2. asked # {}
      BY <1>1, <2>1, <2>3 DEF WhatWasDecided
    <3>3. Assessed(e, DOMAIN r.obs[s]) /\ e.obs = r.obs[s]
      BY <1>1, <2>1, EvidenceIsAssessed
    <3> HIDE DEF e, asked, decisions
    <3> QED BY <3>1, <3>2, <3>3, ReassessedIsSound, SecondLookDecides
  <2> QED BY <2>2, <2>3
<1> HIDE DEF decisions
<1>5. /\ DOMAIN q = RunFields /\ q.version = r.version
      /\ q.observed = r.observed /\ q.obs = r.obs /\ q.asked = r.asked
      /\ q.histories = r.histories /\ q.decisions = decisions
      /\ q.plans = r.plans /\ q.checked = r.checked /\ q.todo = r.todo
      /\ q.waiting = r.waiting /\ q.failed = r.failed
      /\ q.verified = r.verified /\ q.resolutions = r.resolutions
      /\ q.current = r.current
  BY <1>1 DEF RunFields
<1> HIDE DEF q
<1>6. WhatWasRead(q)
  BY <1>1, <1>5, ReadingStays
<1>7. Conflicts(q) = Conflicts(r)
  BY <1>5 DEF Conflicts
<1>8. /\ DOMAIN r.resolutions = {} /\ DOMAIN r.plans = {}
      /\ DOMAIN r.checked = {} /\ r.failed = {} /\ r.verified = {}
  BY DEF SoundRun, WhatWasWritten
<1>9. r.todo = {} /\ r.current = NoSku
  BY <1>8 DEF SoundRun, WhoseTurn
<1>10. JustDecided(q)
  BY <1>2, <1>3, <1>4, <1>5, <1>6, <1>7, <1>8, <1>9 DEF JustDecided
<1> QED BY <1>10 DEF q, decisions

LEMMA ReassessmentIsSound ==
  ASSUME NEW r, SoundRun(r), r.status = "investigating", r.waiting = {}
  PROVE  SoundRun(Decided([r EXCEPT !.decisions = Reassessments(r)]))
BY ReassessmentDecides, DecidedIsSound

-----------------------------------------------------------------------------
(* The warehouses *)

(* A warehouse that was seen to hold a SKU still holds it, and so does one *)
(* that a PUT is under way to.                                             *)
SoundWorld ==
  /\ shelf \in [Warehouse -> [Sku -> Entry \cup {Missing}]]
  /\ clock \in [Sku -> Nat]
  /\ \A s \in Sku : \A w \in DOMAIN run.obs[s] : shelf[w][s] # Missing
  /\ \A m \in late : /\ m.to \in Warehouse /\ m.sku \in Sku
                     /\ m.request \in UpdateRequest
                     /\ shelf[m.to][m.sku] # Missing
  /\ losses \in 0..MaxLosses

(* A catalogue is read, waited for or lost, and the run fails for a lost   *)
(* one only.                                                               *)
LostTo(r, w) ==
  \E c \in r.calls : c.purpose = "catalogue" /\ c.to = w /\ c.answer = "lost"

Catalogued(r) ==
  /\ r.status = "observing" =>
       \A w \in Warehouse : \/ <<w, NoSku>> \in r.waiting
                            \/ w \in r.observed
                            \/ LostTo(r, w)
  /\ r.status = "failed" => \E w \in Warehouse : LostTo(r, w)

RunInvariant == SoundRun(run) /\ Catalogued(run) /\ SoundWorld

LEMMA ChangedShelf ==
  ASSUME NEW A, NEW B, NEW S, NEW f \in [A -> [B -> S]], NEW a \in A,
         NEW b \in B, NEW y \in S
  PROVE  LET g == [f EXCEPT ![a][b] = y] IN
         /\ g \in [A -> [B -> S]]
         /\ g[a][b] = y
         /\ \A v \in A, t \in B : v # a \/ t # b => g[v][t] = f[v][t]
<1> DEFINE h == [f[a] EXCEPT ![b] = y]
           g == [f EXCEPT ![a] = h]
<1>1. [f EXCEPT ![a][b] = y] = g
  OBVIOUS
<1>2. /\ h \in [B -> S] /\ h[b] = y
      /\ \A t \in B \ {b} : h[t] = f[a][t]
  OBVIOUS
<1> HIDE DEF h
<1> DEFINE T == [B -> S]
<1>3. f \in [A -> T] /\ h \in T
  BY <1>2
<1> HIDE DEF T
<1>4. /\ g \in [A -> T] /\ g[a] = h
      /\ \A v \in A \ {a} : g[v] = f[v]
  BY <1>3
<1> HIDE DEF g
<1> QED BY <1>1, <1>2, <1>4 DEF T

(* A PUT that reaches its warehouse replaces one entry by another. *)
LEMMA HandlingIsSound ==
  ASSUME shelf \in [Warehouse -> [Sku -> Entry \cup {Missing}]],
         clock \in [Sku -> Nat], NEW m, NEW outcome, Handle(m, outcome),
         m.to \in Warehouse, m.sku \in Sku, m.request \in UpdateRequest,
         shelf[m.to][m.sku] # Missing
  PROVE  /\ shelf' \in [Warehouse -> [Sku -> Entry \cup {Missing}]]
         /\ clock' \in [Sku -> Nat]
         /\ \A w \in Warehouse, s \in Sku :
              shelf[w][s] # Missing => shelf'[w][s] # Missing
<1>1. CASE outcome = "updated"
  <2> DEFINE to == m.to
             sku == m.sku
             entry == shelf[to][sku]
             after == AfterUpdate(entry, m.request, clock[sku])
  <2>1. /\ shelf' = [shelf EXCEPT ![to][sku] = after]
        /\ clock' = [clock EXCEPT ![sku] = clock[sku] + 1]
    BY <1>1 DEF Handle
  <2>2. entry \in Entry /\ clock[sku] \in Nat
    OBVIOUS
  <2>3. after \in Entry
    <3> HIDE DEF entry, sku
    <3> QED BY <2>2, UpdateKeepsEntry
  <2>4. after # Missing
    BY <2>3, WarehouseAssumption
  <2>5. clock' \in [Sku -> Nat]
    <3>1. clock' = [clock EXCEPT ![sku] = clock[sku] + 1]
      BY <2>1
    <3> QED BY <2>2, <3>1
  <2>6. to \in Warehouse /\ sku \in Sku
    OBVIOUS
  <2> HIDE DEF after, entry, to, sku
  <2>7. /\ shelf' \in [Warehouse -> [Sku -> Entry \cup {Missing}]]
        /\ shelf'[to][sku] = after
        /\ \A v \in Warehouse, t \in Sku :
             v # to \/ t # sku => shelf'[v][t] = shelf[v][t]
    BY <2>1, <2>3, <2>6, ChangedShelf
  <2> QED BY <2>4, <2>5, <2>7
<1>2. CASE outcome # "updated"
  BY <1>2 DEF Handle
<1> QED BY <1>1, <1>2

(* The world after a step that sends no PUT, or that leaves it alone *)
LEMMA WorldStays ==
  ASSUME SoundWorld, UNCHANGED <<shelf, clock, late>>, losses' \in 0..MaxLosses,
         \A s \in Sku : \A w \in DOMAIN run'.obs[s] : shelf[w][s] # Missing
  PROVE  SoundWorld'
BY DEF SoundWorld

LEMMA CataloguedStays ==
  ASSUME NEW r, r.status \notin {"observing", "failed"}
  PROVE  Catalogued(r)
BY DEF Catalogued

LEMMA BeginIsSound ==
  ASSUME RunInvariant, Begin
  PROVE  RunInvariant'
<1>1. run' = Observing(run.version) /\ run.version \in 1..3
  BY DEF Begin, RunInvariant, SoundRun, WhatWasRead
<1>2. SoundRun(run')
  BY <1>1, NewRunIsSound
<1>3. /\ run'.status = "observing" /\ run'.waiting = Warehouse \X {NoSku}
      /\ run'.obs = [s \in Sku |-> <<>>]
  BY <1>1 DEF Observing, NewRun
<1>4. Catalogued(run')
  BY <1>3 DEF Catalogued
<1>5. DOMAIN <<>> = {}
  OBVIOUS
<1>6. SoundWorld'
  BY <1>3, <1>5, WorldStays DEF RunInvariant, Begin, world, SoundWorld
<1> QED BY <1>2, <1>4, <1>6 DEF RunInvariant

LEMMA CatalogueStep ==
  ASSUME RunInvariant, NEW w \in Warehouse, AnswerCatalogue(w)
  PROVE  RunInvariant'
<1> DEFINE c == Called(run, "catalogue", w, NoSku, "ok")
           obs == [s \in Sku |-> IF shelf[w][s] = Missing THEN c.obs[s]
                                 ELSE With(c.obs[s], w, shelf[w][s].rec)]
<1>1. /\ run.status = "observing"
      /\ run' = [c EXCEPT !.observed = c.observed \cup {w}, !.obs = obs]
  BY DEF AnswerCatalogue
<1>2. DOMAIN run = RunFields
  BY DEF RunInvariant, SoundRun
<1>3. /\ SoundRun(c) /\ c.status = "observing" /\ c.obs = run.obs
      /\ c.observed = run.observed
      /\ c.waiting = run.waiting \ {<<w, NoSku>>}
      /\ run.calls \subseteq c.calls /\ DOMAIN c = RunFields
  BY <1>1, <1>2, CallChanges, CallIsSound DEF RunInvariant
<1>4. shelf[w] \in [Sku -> Entry \cup {Missing}]
  BY DEF RunInvariant, SoundWorld
<1> HIDE DEF c
<1>5. SoundRun(run')
  BY <1>1, <1>3, <1>4, CatalogueIsSound
<1> HIDE DEF obs
<1>6. /\ run'.status = "observing" /\ run'.observed = run.observed \cup {w}
      /\ run'.obs = obs /\ run'.waiting = run.waiting \ {<<w, NoSku>>}
      /\ run'.calls = c.calls
  BY <1>1, <1>3 DEF RunFields
<1>7. Catalogued(run')
  BY <1>1, <1>3, <1>6 DEF RunInvariant, Catalogued, LostTo
<1>8. ASSUME NEW s \in Sku, NEW v \in DOMAIN run'.obs[s]
      PROVE  shelf[v][s] # Missing
  <2>1. \A u \in DOMAIN run.obs[s] : shelf[u][s] # Missing
    BY DEF RunInvariant, SoundWorld
  <2>2. CASE shelf[w][s] = Missing
    BY <1>3, <1>6, <1>8, <2>1, <2>2 DEF obs
  <2>3. CASE shelf[w][s] # Missing
    <3>1. obs[s] = With(run.obs[s], w, shelf[w][s].rec)
      BY <1>3, <2>3 DEF obs
    <3>2. v \in DOMAIN run.obs[s] \cup {w}
      BY <1>6, <1>8, <3>1 DEF With
    <3> QED BY <2>1, <2>3, <3>2
  <2> QED BY <2>2, <2>3
<1>9. SoundWorld'
  BY <1>8, WorldStays DEF RunInvariant, AnswerCatalogue, world, SoundWorld
<1> QED BY <1>5, <1>7, <1>9 DEF RunInvariant

LEMMA EventsStep ==
  ASSUME RunInvariant, NEW w \in Warehouse, NEW s \in Sku, AnswerEvents(w, s)
  PROVE  RunInvariant'
<1> DEFINE c == Called(run, "events", w, s, "ok")
           got == RecentEvents(shelf[w][s].hist, HistoryLimit)
           histories == [c.histories EXCEPT ![s] = With(c.histories[s], w, got)]
<1>1. /\ run.status = "investigating" /\ <<w, s>> \in run.waiting
      /\ run' = [c EXCEPT !.histories = histories]
  BY DEF AnswerEvents
<1>2. DOMAIN run = RunFields
  BY DEF RunInvariant, SoundRun
<1>3. /\ SoundRun(c) /\ c.status = "investigating" /\ c.obs = run.obs
      /\ c.asked = run.asked /\ DOMAIN c = RunFields
  BY <1>1, <1>2, CallChanges, CallIsSound DEF RunInvariant
<1>4. <<w, s>> \in c.asked
  BY <1>1, <1>3 DEF RunInvariant, SoundRun, Awaited
<1> HIDE DEF c, got
<1>5. SoundRun(run')
  BY <1>1, <1>3, <1>4, EventsAreSound
<1> HIDE DEF histories
<1>6. run'.status = "investigating" /\ run'.obs = run.obs
  BY <1>1, <1>3 DEF RunFields
<1>7. Catalogued(run')
  BY <1>6, CataloguedStays
<1>8. SoundWorld'
  BY <1>6, WorldStays DEF RunInvariant, AnswerEvents, world, SoundWorld
<1> QED BY <1>5, <1>7, <1>8 DEF RunInvariant

LEMMA VerificationStep ==
  ASSUME RunInvariant, NEW w \in Warehouse, NEW s \in Sku,
         AnswerVerification(w, s)
  PROVE  RunInvariant'
<1> DEFINE c == Called(run, "verification", w, s, "ok")
           got == shelf[w][s].rec
           checked == [c.checked EXCEPT ![s] = With(c.checked[s], w, got)]
<1>1. /\ run.status = "verifying" /\ <<w, s>> \in run.waiting
      /\ run' = [c EXCEPT !.checked = checked] /\ shelf[w][s] # Missing
  BY DEF AnswerVerification
<1>2. DOMAIN run = RunFields
  BY DEF RunInvariant, SoundRun
<1>3. /\ SoundRun(c) /\ c.status = "verifying" /\ c.obs = run.obs
      /\ c.plans = run.plans /\ DOMAIN c = RunFields
  BY <1>1, <1>2, CallChanges, CallIsSound DEF RunInvariant
<1>4. s \in DOMAIN run.plans /\ w \in DOMAIN run.obs[s]
  BY <1>1 DEF RunInvariant, SoundRun, Awaited, WhoseTurn, InHand
<1>5. got \in Record
  BY <1>1 DEF RunInvariant, SoundWorld, Entry
<1> HIDE DEF c, got
<1>6. SoundRun(run')
  BY <1>1, <1>3, <1>4, <1>5, VerificationIsSound
<1> HIDE DEF checked
<1>7. run'.status = "verifying" /\ run'.obs = run.obs
  BY <1>1, <1>3 DEF RunFields
<1>8. Catalogued(run')
  BY <1>7, CataloguedStays
<1>9. SoundWorld'
  BY <1>7, WorldStays DEF RunInvariant, AnswerVerification, world, SoundWorld
<1> QED BY <1>6, <1>8, <1>9 DEF RunInvariant

LEMMA LostReadStep ==
  ASSUME RunInvariant, NEW w \in Warehouse, NEW s \in Sku \cup {NoSku},
         LoseRead(w, s)
  PROVE  RunInvariant'
<1> DEFINE p == Purpose(run.status)
<1>1. /\ <<w, s>> \in run.waiting /\ run' = Called(run, p, w, s, "lost")
      /\ losses < MaxLosses /\ losses' = losses + 1
  BY DEF LoseRead
<1>2. DOMAIN run = RunFields
  BY DEF RunInvariant, SoundRun
<1> DEFINE call == [purpose |-> p, to |-> w, sku |-> s, answer |-> "lost"]
<1> HIDE DEF p
<1>3. /\ SoundRun(run') /\ run'.status = run.status /\ run'.obs = run.obs
      /\ run'.observed = run.observed
      /\ run'.waiting = run.waiting \ {<<w, s>>}
      /\ run'.calls = run.calls \cup {call}
  BY <1>1, <1>2, CallChanges, CallIsSound DEF RunInvariant
<1>4. Catalogued(run')
  <2>1. CASE run.status = "observing"
    <3>1. p = "catalogue" /\ s = NoSku
      BY <1>1, <2>1 DEF p, Purpose, RunInvariant, SoundRun, Awaited
    <3>2. call.purpose = "catalogue" /\ call.to = w /\ call.answer = "lost"
      BY <3>1
    <3>3. LostTo(run', w)
      <4> HIDE DEF call
      <4> QED BY <1>3, <3>2 DEF LostTo
    <3>4. \A v \in Warehouse : LostTo(run, v) => LostTo(run', v)
      <4> HIDE DEF call
      <4> QED BY <1>3 DEF LostTo
    <3> QED BY <1>3, <2>1, <3>1, <3>3, <3>4 DEF Catalogued, RunInvariant
  <2>2. CASE run.status # "observing"
    <3>1. run.status # "failed"
      BY <1>1, <2>2 DEF RunInvariant, SoundRun, Awaited
    <3> QED BY <1>3, <2>2, <3>1, CataloguedStays
  <2> QED BY <2>1, <2>2
<1>5. losses' \in 0..MaxLosses
  BY <1>1, AgentRunAssumption DEF RunInvariant, SoundWorld
<1>6. SoundWorld'
  BY <1>3, <1>5, WorldStays DEF RunInvariant, LoseRead, world, SoundWorld
<1> QED BY <1>3, <1>4, <1>6 DEF RunInvariant

(* A PUT goes to a warehouse that holds the SKU, with a request. *)
LEMMA MessageIsSound ==
  ASSUME RunInvariant, run.status = "executing"
  PROVE  LET m == Message(run, Min(run.todo)) IN
         /\ m.to \in Warehouse /\ m.sku \in Sku
         /\ m.request \in UpdateRequest
         /\ shelf[m.to][m.sku] # Missing
<1> DEFINE c == run.current
           w == Min(run.todo)
           m == Message(run, w)
           seen == run.obs[c][w]
           plan == run.plans[c]
<1>1. c \in DOMAIN run.plans /\ w \in DOMAIN run.obs[c]
  BY TurnOfExecution DEF RunInvariant
<1>2. c \in Sku /\ plan \in Plan /\ w \in Warehouse /\ run.obs[c] \in Partial(Record)
  BY <1>1, PlansOfSoundRuns DEF RunInvariant
<1>3. seen \in Record
  BY <1>1, <1>2, PartialFunctions
<1>4. /\ m.to = w /\ m.sku = c
      /\ m.request = [expected |-> seen.version, target |-> plan.version,
                      inventory |-> plan.inventory]
  BY DEF Message, Request
<1>5. /\ seen.version \in Nat
      /\ plan.version \in Nat /\ plan.inventory \in Inventory
  BY <1>2, <1>3 DEF Record, Plan
<1> HIDE DEF m, seen, plan
<1>6. m.request \in UpdateRequest
  BY <1>4, <1>5 DEF UpdateRequest
<1>7. shelf[w][c] # Missing
  BY <1>1, <1>2 DEF RunInvariant, SoundWorld
<1> QED BY <1>2, <1>4, <1>6, <1>7 DEF m

LEMMA ExecutionStep ==
  ASSUME RunInvariant, ExecuteUpdate
  PROVE  RunInvariant'
<1> DEFINE w == Min(run.todo)
           m == Message(run, w)
<1>1. run.status = "executing" /\ late' = late /\ losses' = losses
  BY DEF ExecuteUpdate
<1>2. PICK outcome \in Outcomes :
        /\ Handle(m, outcome)
        /\ run' = Sent(run, w, IF outcome \in {"unchanged", "updated"} THEN "ok"
                               ELSE "rejected")
  BY DEF ExecuteUpdate
<1> DEFINE answer == IF outcome \in {"unchanged", "updated"} THEN "ok"
                     ELSE "rejected"
<1>3. run' = Sent(run, w, answer)
  BY <1>2
<1>4. DOMAIN run = RunFields
  BY DEF RunInvariant, SoundRun
<1> HIDE DEF answer
<1>5. SoundRun(run')
  BY <1>1, <1>3, SentIsSound DEF RunInvariant
<1>6. FieldsAfterPut(run', run, w, answer)
  BY <1>3, <1>4, SentChanges
<1>7. run'.status \in {"executing", "verifying"} /\ run'.obs = run.obs
  BY <1>1, <1>6 DEF FieldsAfterPut
<1>8. Catalogued(run')
  BY <1>7, CataloguedStays
<1>9. /\ m.to \in Warehouse /\ m.sku \in Sku
      /\ m.request \in UpdateRequest /\ shelf[m.to][m.sku] # Missing
  BY <1>1, MessageIsSound
<1> HIDE DEF m
<1>10. /\ shelf' \in [Warehouse -> [Sku -> Entry \cup {Missing}]]
       /\ clock' \in [Sku -> Nat]
       /\ \A v \in Warehouse, s \in Sku :
            shelf[v][s] # Missing => shelf'[v][s] # Missing
  BY <1>2, <1>9, HandlingIsSound DEF RunInvariant, SoundWorld
<1>11. \A s \in Sku : DOMAIN run.obs[s] \subseteq Warehouse
  BY DEF RunInvariant, SoundRun, WhatWasRead
<1>12. SoundWorld'
  BY <1>1, <1>7, <1>10, <1>11 DEF RunInvariant, SoundWorld
<1> QED BY <1>5, <1>8, <1>12 DEF RunInvariant

LEMMA LostWriteStep ==
  ASSUME RunInvariant, LoseUpdate
  PROVE  RunInvariant'
<1> DEFINE w == Min(run.todo)
           m == Message(run, w)
<1>1. /\ run.status = "executing" /\ late' = late \cup {m}
      /\ losses < MaxLosses /\ losses' = losses + 1
      /\ shelf' = shelf /\ clock' = clock
      /\ run' = Sent(run, w, "lost")
  BY DEF LoseUpdate
<1>2. DOMAIN run = RunFields
  BY DEF RunInvariant, SoundRun
<1>3. SoundRun(run')
  BY <1>1, SentIsSound DEF RunInvariant
<1>4. FieldsAfterPut(run', run, w, "lost")
  BY <1>1, <1>2, SentChanges
<1>5. run'.status \in {"executing", "verifying"} /\ run'.obs = run.obs
  BY <1>1, <1>4 DEF FieldsAfterPut
<1>6. Catalogued(run')
  BY <1>5, CataloguedStays
<1>7. /\ m.to \in Warehouse /\ m.sku \in Sku
      /\ m.request \in UpdateRequest /\ shelf[m.to][m.sku] # Missing
  BY <1>1, MessageIsSound
<1>8. losses' \in 0..MaxLosses
  BY <1>1, AgentRunAssumption DEF RunInvariant, SoundWorld
<1> HIDE DEF m
<1>9. SoundWorld'
  BY <1>1, <1>5, <1>7, <1>8 DEF RunInvariant, SoundWorld
<1> QED BY <1>3, <1>6, <1>9 DEF RunInvariant

LEMMA LateWriteStep ==
  ASSUME RunInvariant, NEW m \in late, HandleLate(m)
  PROVE  RunInvariant'
<1>1. run' = run /\ late' = late \ {m} /\ losses' = losses
  BY DEF HandleLate
<1>2. PICK outcome \in Outcomes : Handle(m, outcome)
  BY DEF HandleLate
<1>3. /\ m.to \in Warehouse /\ m.sku \in Sku
      /\ m.request \in UpdateRequest /\ shelf[m.to][m.sku] # Missing
  BY DEF RunInvariant, SoundWorld
<1>4. /\ shelf' \in [Warehouse -> [Sku -> Entry \cup {Missing}]]
      /\ clock' \in [Sku -> Nat]
      /\ \A v \in Warehouse, s \in Sku :
           shelf[v][s] # Missing => shelf'[v][s] # Missing
  BY <1>2, <1>3, HandlingIsSound DEF RunInvariant, SoundWorld
<1>5. \A s \in Sku : DOMAIN run.obs[s] \subseteq Warehouse
  BY DEF RunInvariant, SoundRun, WhatWasRead
<1>6. SoundWorld'
  BY <1>1, <1>4, <1>5 DEF RunInvariant, SoundWorld
<1> QED BY <1>1, <1>6 DEF RunInvariant

LEMMA AnalysisStep ==
  ASSUME RunInvariant, Analyse
  PROVE  RunInvariant'
<1>1. /\ run.status = "observing" /\ run.waiting = {}
      /\ run' = Analysis(run, Decisions(run))
  BY DEF Analyse
<1>2. /\ run.observed = Warehouse => run'.status # "failed"
      /\ run.observed # Warehouse => run' = [run EXCEPT !.status = "failed"]
  BY <1>1, AnalysisIsSound DEF RunInvariant
<1>3. SoundRun(run')
  BY <1>1, AnalysisIsSound DEF RunInvariant
<1>4. DOMAIN run = RunFields /\ run.observed \subseteq Warehouse
  BY DEF RunInvariant, SoundRun, WhatWasRead
<1>5. run'.obs = run.obs /\ run'.status # "observing"
  BY <1>1, <1>4, AnalysisKeepsCatalogues
<1>6. Catalogued(run')
  <2>1. CASE run.observed = Warehouse
    BY <1>2, <1>5, <2>1, CataloguedStays
  <2>2. CASE run.observed # Warehouse
    <3>1. run'.status = "failed" /\ run'.calls = run.calls
      BY <1>2, <1>4, <2>2 DEF RunFields
    <3>2. PICK w \in Warehouse : w \notin run.observed
      BY <1>4, <2>2
    <3>3. LostTo(run, w)
      BY <1>1, <3>2 DEF RunInvariant, Catalogued
    <3> QED BY <3>1, <3>3 DEF Catalogued, LostTo
  <2> QED BY <2>1, <2>2
<1>7. SoundWorld'
  BY <1>5, WorldStays DEF RunInvariant, Analyse, world, SoundWorld
<1> QED BY <1>3, <1>6, <1>7 DEF RunInvariant

LEMMA ReassessmentStep ==
  ASSUME RunInvariant, Reassess
  PROVE  RunInvariant'
<1> DEFINE q == [run EXCEPT !.decisions = Reassessments(run)]
<1>1. /\ run.status = "investigating" /\ run.waiting = {}
      /\ run' = Decided(q)
  BY DEF Reassess
<1>2. SoundRun(run')
  BY <1>1, ReassessmentIsSound DEF RunInvariant
<1>3. DOMAIN q = RunFields /\ q.obs = run.obs
  BY DEF RunInvariant, SoundRun, RunFields
<1> HIDE DEF q
<1>4. run'.obs = run.obs /\ run'.status \notin {"observing", "failed"}
  BY <1>1, <1>3, DecidedGoesOn
<1>5. Catalogued(run')
  BY <1>4, CataloguedStays
<1>6. SoundWorld'
  BY <1>4, WorldStays DEF RunInvariant, Reassess, world, SoundWorld
<1> QED BY <1>2, <1>5, <1>6 DEF RunInvariant

LEMMA ResolutionStep ==
  ASSUME RunInvariant, Resolve
  PROVE  RunInvariant'
<1>1. /\ run.status = "verifying" /\ run.waiting = {}
      /\ run' = Resolution(run)
  BY DEF Resolve
<1>2. SoundRun(run')
  BY <1>1, ResolutionIsSound DEF RunInvariant
<1>3. DOMAIN run = RunFields
  BY DEF RunInvariant, SoundRun
<1>4. run'.obs = run.obs /\ run'.status \in {"executing", "completed"}
  BY <1>1, <1>3, ResolutionKeepsCatalogues
<1>5. Catalogued(run')
  BY <1>4, CataloguedStays
<1>6. SoundWorld'
  BY <1>4, WorldStays DEF RunInvariant, Resolve, world, SoundWorld
<1> QED BY <1>2, <1>5, <1>6 DEF RunInvariant

LEMMA RunInvariantHolds ==
  /\ Init => RunInvariant
  /\ RunInvariant /\ [Next]_vars => RunInvariant'
<1>1. ASSUME Init PROVE RunInvariant
  <2>1. PICK version \in AgentVersions : run = NewRun(version)
    BY <1>1 DEF Init
  <2>2. version \in 1..3
    BY AgentRunAssumption
  <2>3. SoundRun(run)
    BY <2>1, <2>2, NewRunIsSound
  <2>4. run.status = "starting" /\ run.obs = [s \in Sku |-> <<>>]
    BY <2>1 DEF NewRun
  <2>5. Catalogued(run)
    BY <2>4, CataloguedStays
  <2>6. DOMAIN <<>> = {}
    OBVIOUS
  <2>7. SoundWorld
    BY <1>1, <2>4, <2>6, AgentRunAssumption DEF Init, SoundWorld
  <2> QED BY <2>3, <2>5, <2>7 DEF RunInvariant
<1>2. ASSUME RunInvariant, [Next]_vars PROVE RunInvariant'
  <2>1. CASE Begin
    BY <1>2, <2>1, BeginIsSound
  <2>2. CASE Answered
    BY <1>2, <2>2, CatalogueStep, EventsStep, VerificationStep DEF Answered
  <2>3. CASE Analyse \/ Reassess \/ Resolve
    BY <1>2, <2>3, AnalysisStep, ReassessmentStep, ResolutionStep
  <2>4. CASE ExecuteUpdate \/ LoseUpdate
    BY <1>2, <2>4, ExecutionStep, LostWriteStep
  <2>5. CASE \E w \in Warehouse, s \in Sku \cup {NoSku} : LoseRead(w, s)
    BY <1>2, <2>5, LostReadStep
  <2>6. CASE \E m \in late : HandleLate(m)
    BY <1>2, <2>6, LateWriteStep
  <2>7. CASE Terminated \/ UNCHANGED vars
    BY <1>2, <2>7 DEF Terminated, vars, RunInvariant, SoundWorld
  <2> QED BY <1>2, <2>1, <2>2, <2>3, <2>4, <2>5, <2>6, <2>7
          DEF Next, RunStep, Fault
<1> QED BY <1>1, <1>2

LEMMA SoundRunsAreTyped ==
  ASSUME NEW r, SoundRun(r)
  PROVE  RunOK(r)
<1>1. r.version \in 1..3 /\ r.status \in Statuses
  BY DEF SoundRun, WhatWasRead, WhoseTurn
<1>2. r.asked \subseteq Warehouse \X Sku /\ r.observed \subseteq Warehouse
  BY DEF SoundRun, WhatWasRead
<1>3. \A s \in Sku : /\ IsPartial(r.obs[s], Record)
                     /\ DOMAIN r.obs[s] \subseteq r.observed
                     /\ DOMAIN r.histories[s] \subseteq AskedOf(r, s)
  BY PartialIsPartial DEF SoundRun, WhatWasRead
<1>4. /\ DOMAIN r.resolutions \subseteq DOMAIN r.decisions
      /\ DOMAIN r.plans = DOMAIN r.checked
      /\ DOMAIN r.plans \subseteq DOMAIN r.decisions
      /\ r.failed \cup r.verified \subseteq DOMAIN r.plans
  BY DEF SoundRun, WhatWasWritten
<1>5. DOMAIN r.decisions \subseteq Sku
  BY DEF SoundRun, WhatWasDecided, Conflicts
<1>6. \A s \in DOMAIN r.plans : /\ r.plans[s] \in Plan
                                /\ IsPartial(r.checked[s], Record)
  BY PlansOfSoundRuns, PartialIsPartial DEF SoundRun, WhatWasWritten
<1>7. /\ r.current \in DOMAIN r.plans \cup {NoSku}
      /\ r.todo # {} <=> r.status = "executing"
  BY DEF SoundRun, WhoseTurn
<1>8. r.todo \subseteq Warehouse
  <2>1. CASE r.status = "executing"
    BY <2>1, TurnOfExecution, PlansOfSoundRuns
  <2> QED BY <1>7, <2>1
<1>9. r.waiting \subseteq Warehouse \X (Sku \cup {NoSku})
  <2>1. r.waiting \subseteq Awaited(r)
    BY DEF SoundRun
  <2>2. CASE r.status = "observing"
    BY <2>1, <2>2 DEF Awaited
  <2>3. CASE r.status = "investigating"
    BY <1>2, <2>1, <2>3 DEF Awaited
  <2>4. CASE r.status = "verifying"
    <3>1. r.current \in DOMAIN r.plans
      BY <2>4 DEF SoundRun, WhoseTurn, InHand
    <3>2. r.current \in Sku /\ DOMAIN r.obs[r.current] \subseteq Warehouse
      BY <3>1, PlansOfSoundRuns
    <3>3. r.waiting \subseteq (DOMAIN r.obs[r.current]) \X {r.current}
      BY <2>1, <2>4 DEF Awaited
    <3> QED BY <3>2, <3>3
  <2>5. CASE r.status \notin {"observing", "investigating", "verifying"}
    BY <2>1, <2>5 DEF Awaited
  <2> QED BY <2>2, <2>3, <2>4, <2>5
<1> QED BY <1>1, <1>2, <1>3, <1>4, <1>5, <1>6, <1>7, <1>8, <1>9
        DEF RunOK, Statuses

(* The run and the warehouses keep their types: in particular a plan that  *)
(* is written is a plan for what was read, and a SKU has checked records   *)
(* and failures only with a plan (runner.py:214-276).                      *)
THEOREM RunTypeCorrect == Spec => []TypeOK
<1>1. RunInvariant => TypeOK
  <2> SUFFICES ASSUME RunInvariant PROVE TypeOK
    OBVIOUS
  <2>1. RunOK(run)
    BY SoundRunsAreTyped DEF RunInvariant
  <2> QED BY <2>1 DEF RunInvariant, SoundWorld, TypeOK
<1> QED BY <1>1, RunInvariantHolds, PTL DEF Spec

(* A run of version 3 that is COMPLETED has a resolution for each of its   *)
(* conflicts and for nothing else, and a run FAILED only if a catalogue    *)
(* got no answer (runner.py:185-189, 214-276).                              *)
THEOREM ConflictsAreAnswered == Spec => []EveryConflictIsAnswered
<1>1. RunInvariant => EveryConflictIsAnswered
  <2> SUFFICES ASSUME RunInvariant PROVE EveryConflictIsAnswered
    OBVIOUS
  <2>1. ASSUME run.status = "completed", run.version = 3
        PROVE  DOMAIN run.resolutions = Conflicts(run)
    <3>1. DOMAIN run.resolutions = DOMAIN run.decisions
      BY <2>1 DEF RunInvariant, SoundRun, WhoseTurn
    <3>2. DOMAIN run.decisions = Conflicts(run)
      BY <2>1 DEF RunInvariant, SoundRun, WhatWasDecided, Undecided
    <3> QED BY <3>1, <3>2
  <2>2. ASSUME run.status = "failed"
        PROVE  \E c \in run.calls : c.purpose = "catalogue"
                                    /\ c.answer = "lost"
    BY <2>2 DEF RunInvariant, Catalogued, LostTo
  <2> QED BY <2>1, <2>2 DEF EveryConflictIsAnswered
<1> QED BY <1>1, RunInvariantHolds, PTL DEF Spec

=============================================================================
