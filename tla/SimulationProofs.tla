--------------------------- MODULE SimulationProofs ---------------------------
(***************************************************************************)
(* Proofs about Simulation, for any warehouse contents, order of rounds    *)
(* and losses: outside the agent's run nothing is under way that could     *)
(* change a warehouse, so what the controller has seen in a clean check is *)
(* what it disturbs next, and the rounds are gated as GatedRounds says.    *)
(*                                                                         *)
(* The argument: a control call without an answer or refused ends the      *)
(* simulation in the same step, and a PUT without an answer is of a SKU    *)
(* that has failed (Quiet), of which the controller hears as a failed      *)
(* round or, for an escalation, as a write where none is allowed.          *)
(*                                                                         *)
(* The second half rests on what the calls do to a warehouse: the          *)
(* controller, the agent and the warehouses have their types at all times, *)
(* and the agent is started on a complete disturbance only.  A round       *)
(* begins with the baseline of every warehouse in hand and calls that ask  *)
(* each of them once (FirstCallsMove).  Until all are answered a warehouse *)
(* holds its baseline or, when its call has been answered, what Moves      *)
(* tells (Disturbing); nobody else can change it.  The types are part of   *)
(* the invariant: a call does this to an entry of a catalogue, not to a    *)
(* SKU that is missing.                                                    *)
(***************************************************************************)
EXTENDS Simulation, AgentRunProofs

SimFields ==
  {"at", "waiting", "round", "pending", "view", "baseline", "resetDone",
   "results", "resetFailures", "verdict", "control", "agentRuns", "cost"}

(* The controller's own book-keeping *)
Booked(c) ==
  /\ DOMAIN c = SimFields
  /\ c.verdict \in {"none", "PASS", "FAIL"}
  /\ c.at = "ended" <=> c.verdict # "none"
  /\ c.at \in {"running", "ended"} => c.waiting = {}
  /\ c.at = "checking" => c.waiting \subseteq Observations
  /\ c.round \in Rounds \cup {NoRound}
  /\ c.at \notin {"resetting", "checking", "ended"} => c.round \in Rounds

(* What the rounds still to come and the results say of each other *)
RoundsAdd(c) ==
  /\ c.pending \subseteq Rounds \ {c.round}
  /\ c.round = NoRound => c.pending = Rounds
  /\ DOMAIN c.results = Rounds \ (c.pending \cup {c.round})
  /\ \A k \in DOMAIN c.results : c.results[k].status = "PASS"

PassedOf(c) == {k \in DOMAIN c.results : c.results[k].status = "PASS"}

(* No call is under way that could change a warehouse unnoticed. *)
Still ==
  /\ late = {} /\ stray = {}
  /\ run.status \in {"starting", "completed", "failed"}

(* What has been seen so far when "calls" are still without an answer *)
SeenBut(calls) ==
  [s \in Sku |->
    [w \in {v \in Warehouse : /\ shelf[v][s] # Missing
                              /\ Call("observe", v, NoSku, NoBody) \notin calls}
       |-> shelf[w][s].rec]]

SimInv ==
  /\ Quiet
  /\ Booked(sim)
  /\ sim.verdict = "none" => RoundsAdd(sim) /\ stray = {}
  /\ sim.at \notin {"running", "ended"} \/ sim.verdict = "PASS" => Still
  /\ sim.at = "checking" => sim.view = SeenBut(sim.waiting)

LEMMA NoRoundIsNone == NoRound \notin Rounds
BY SimulationAssumption DEF Disturbances, NoRound

-----------------------------------------------------------------------------
(* The controller's record *)

LEMMA EndedIsBooked ==
  ASSUME NEW c, Booked(c), NEW verdict \in {"PASS", "FAIL"},
         NEW q, q = Ended(c, verdict)
  PROVE  /\ Booked(q) /\ q.verdict = verdict /\ q.at = "ended"
         /\ q.round = (IF verdict = "PASS" THEN NoRound ELSE c.round)
         /\ q.results = c.results
<1>1. /\ DOMAIN q = SimFields /\ q.verdict = verdict /\ q.at = "ended"
      /\ q.round = (IF verdict = "PASS" THEN NoRound ELSE c.round)
      /\ q.waiting = {} /\ q.results = c.results
  BY DEF Ended, Booked, SimFields
<1> QED BY <1>1 DEF Booked

LEMMA WaitsIsBooked ==
  ASSUME NEW c, Booked(c), c.verdict = "none",
         NEW at \in {"resetting", "checking", "disturbing", "shortening",
                     "inspecting", "running"},
         NEW calls, at = "running" => calls = {},
         at = "checking" => calls = Observations,
         at \notin {"resetting", "checking"} => c.round \in Rounds,
         NEW q, q = Waits(c, at, calls)
  PROVE  /\ Booked(q) /\ q.verdict = "none" /\ q.at = at
         /\ q.waiting = calls /\ q.round = c.round /\ q.results = c.results
         /\ q.pending = c.pending /\ q.baseline = c.baseline
         /\ at = "checking" => q.view = NoView
<1>1. /\ DOMAIN q = SimFields /\ q.verdict = "none" /\ q.at = at
      /\ q.waiting = calls /\ q.round = c.round /\ q.results = c.results
      /\ q.pending = c.pending /\ q.baseline = c.baseline
      /\ at = "checking" => q.view = NoView
  BY DEF Waits, Booked, SimFields
<1> QED BY <1>1 DEF Booked

(* A failure is a result that has not passed and the end. *)
LEMMA FailedIsBooked ==
  ASSUME NEW c, Booked(c), RoundsAdd(c), NEW r, NEW q, q = Failed(c, r)
  PROVE  /\ Booked(q) /\ q.verdict = "FAIL" /\ q.at = "ended"
         /\ q.round = c.round /\ PassedOf(q) = PassedOf(c)
<1>1. CASE c.round = NoRound
  <2> DEFINE d == [c EXCEPT !.resetFailures = 1]
  <2>1. /\ DOMAIN d = SimFields /\ d.verdict = c.verdict /\ d.at = c.at
        /\ d.waiting = c.waiting /\ d.round = c.round /\ d.results = c.results
    BY DEF Booked, SimFields
  <2>2. q = Ended(d, "FAIL")
    BY <1>1 DEF Failed
  <2> HIDE DEF d
  <2>3. Booked(d)
    BY <2>1 DEF Booked
  <2> QED BY <2>1, <2>2, <2>3, EndedIsBooked DEF PassedOf
<1>2. CASE c.round # NoRound
  <2>1. PICK ran, failures :
          q = Ended([c EXCEPT
                !.results = With(c.results, c.round, Result("FAIL", r, ran)),
                !.resetFailures = failures], "FAIL")
    BY <1>2 DEF Failed
  <2> DEFINE results == With(c.results, c.round, Result("FAIL", r, ran))
             d == [c EXCEPT !.results = results, !.resetFailures = failures]
  <2>2. /\ DOMAIN d = SimFields /\ d.verdict = c.verdict /\ d.at = c.at
        /\ d.waiting = c.waiting /\ d.round = c.round /\ d.results = results
    BY DEF Booked, SimFields
  <2>3. q = Ended(d, "FAIL")
    BY <2>1
  <2>4. Result("FAIL", r, ran).status = "FAIL"
    BY DEF Result
  <2>5. /\ DOMAIN results = DOMAIN c.results \cup {c.round}
        /\ results[c.round].status = "FAIL"
        /\ \A k \in DOMAIN c.results \ {c.round} : results[k] = c.results[k]
    BY <2>4 DEF With
  <2>6. c.round \notin DOMAIN c.results
    BY DEF RoundsAdd
  <2> HIDE DEF d, results
  <2>7. Booked(d)
    BY <2>2 DEF Booked
  <2>8. /\ Booked(q) /\ q.verdict = "FAIL" /\ q.at = "ended"
        /\ q.round = c.round /\ q.results = results
    BY <2>2, <2>3, <2>7, EndedIsBooked
  <2>9. PassedOf(q) = PassedOf(c)
    BY <2>5, <2>6, <2>8 DEF PassedOf
  <2> QED BY <2>8, <2>9
<1> QED BY <1>1, <1>2

(* An answered or lost call only changes who is waited for. *)
LEMMA CountedIsBooked ==
  ASSUME NEW c, Booked(c), NEW q, NEW failures,
         NEW d, d = Counted(c, q, failures)
  PROVE  /\ Booked(d) /\ d.at = c.at /\ d.verdict = c.verdict
         /\ d.waiting = c.waiting \ {q} /\ d.round = c.round
         /\ d.results = c.results /\ d.pending = c.pending
         /\ d.view = c.view /\ d.baseline = c.baseline
<1>1. /\ DOMAIN d = SimFields /\ d.at = c.at /\ d.verdict = c.verdict
      /\ d.waiting = c.waiting \ {q} /\ d.round = c.round
      /\ d.results = c.results /\ d.pending = c.pending
      /\ d.view = c.view /\ d.baseline = c.baseline
  BY DEF Counted, Booked, SimFields
<1> QED BY <1>1 DEF Booked

(* A round begins, or ends the simulation when its SKU has no baseline.    *)
LEMMA StartedIsBooked ==
  ASSUME NEW c, Booked(c), c.verdict = "none", NEW kind \in Rounds,
         NEW q, q = Started(c, kind)
  PROVE  /\ Booked(q) /\ q.round = kind /\ q.verdict \in {"none", "FAIL"}
         /\ q.at \in {"disturbing", "ended"} /\ q.baseline = c.baseline
         /\ q.verdict = "none" =>
              /\ q.results = c.results /\ q.pending = c.pending \ {kind}
         /\ q.verdict = "FAIL" =>
              \E result : /\ result.status = "FAIL"
                          /\ q.results = With(c.results, kind, result)
<1> DEFINE next == [c EXCEPT !.round = kind, !.pending = c.pending \ {kind},
                             !.resetDone = FALSE]
<1>1. /\ DOMAIN next = SimFields /\ next.at = c.at
      /\ next.verdict = c.verdict /\ next.waiting = c.waiting
      /\ next.round = kind /\ next.pending = c.pending \ {kind}
      /\ next.results = c.results /\ next.baseline = c.baseline
  BY DEF Booked, SimFields
<1>2. Booked(next)
  <2> HIDE DEF next
  <2> QED BY <1>1 DEF Booked
<1>3. kind # NoRound
  BY NoRoundIsNone
<1>4. CASE Requestable(kind, c.baseline)
  <2>1. q = Waits(next, "disturbing", FirstCalls(kind, c.baseline))
    BY <1>4 DEF Started
  <2> HIDE DEF next
  <2> QED BY <1>1, <1>2, <2>1, WaitsIsBooked
<1>5. CASE ~Requestable(kind, c.baseline)
  <2> DEFINE results == With(next.results, kind, Result("FAIL", <<>>, FALSE))
             d == [next EXCEPT !.results = results]
  <2>1. q = Ended(d, "FAIL")
    BY <1>5 DEF Started
  <2>2. /\ DOMAIN d = SimFields /\ d.at = c.at
        /\ d.verdict = c.verdict /\ d.waiting = c.waiting
        /\ d.round = kind /\ d.results = results /\ d.baseline = c.baseline
    <3> HIDE DEF next
    <3> QED BY <1>1 DEF SimFields
  <2>3. Result("FAIL", <<>>, FALSE).status = "FAIL"
    BY DEF Result
  <2>4. results = With(c.results, kind, Result("FAIL", <<>>, FALSE))
    BY <1>1
  <2>5. q.baseline = d.baseline
    <3> HIDE DEF d
    <3> QED BY <2>1, <2>2 DEF Ended, SimFields
  <2> HIDE DEF d, next, results
  <2>6. Booked(d)
    BY <1>1, <1>2, <2>2 DEF Booked
  <2>7. /\ Booked(q) /\ q.verdict = "FAIL" /\ q.at = "ended"
        /\ q.round = kind /\ q.results = results
    BY <2>1, <2>2, <2>6, EndedIsBooked
  <2>8. \E result : /\ result.status = "FAIL"
                    /\ q.results = With(c.results, kind, result)
    BY <2>3, <2>4, <2>7
  <2> QED BY <2>2, <2>5, <2>7, <2>8
<1> QED BY <1>4, <1>5

(* The rounds still add up when a kind is drawn from those to come. *)
LEMMA StartedAdds ==
  ASSUME NEW c, RoundsAdd(c), c.round = NoRound, NEW kind \in Rounds,
         NEW q, q.round = kind, q.results = c.results,
         q.pending = c.pending \ {kind}
  PROVE  RoundsAdd(q)
BY NoRoundIsNone DEF RoundsAdd

-----------------------------------------------------------------------------
(* What the controller sees *)

LEMMA NothingSeen == SeenBut(Observations) = NoView
<1>1. \A s \in Sku :
        {v \in Warehouse :
           /\ shelf[v][s] # Missing
           /\ Call("observe", v, NoSku, NoBody) \notin Observations} = {}
  BY DEF Observations
<1>2. \A s \in Sku : SeenBut(Observations)[s] = <<>>
  <2> SUFFICES ASSUME NEW s \in Sku PROVE SeenBut(Observations)[s] = <<>>
    OBVIOUS
  <2>1. SeenBut(Observations)[s] = [w \in {} |-> shelf[w][s].rec]
    BY <1>1 DEF SeenBut
  <2> QED BY <2>1
<1> QED BY <1>2 DEF SeenBut, NoView

LEMMA EverythingSeen == SeenBut({}) = ViewOf(shelf)
BY DEF SeenBut, ViewOf

LEMMA OneMoreSeen ==
  ASSUME NEW calls, NEW w \in Warehouse, NEW s \in Sku
  PROVE  SeenBut(calls \ {Call("observe", w, NoSku, NoBody)})[s] =
           IF shelf[w][s] = Missing THEN SeenBut(calls)[s]
           ELSE With(SeenBut(calls)[s], w, shelf[w][s].rec)
<1> DEFINE call == Call("observe", w, NoSku, NoBody)
           seen(cs) == {v \in Warehouse :
                          /\ shelf[v][s] # Missing
                          /\ Call("observe", v, NoSku, NoBody) \notin cs}
           read(S) == [v \in S |-> shelf[v][s].rec]
<1>1. \A cs : SeenBut(cs)[s] = read(seen(cs))
  BY DEF SeenBut
<1>2. \A v : Call("observe", v, NoSku, NoBody) = call => v = w
  BY DEF Call
<1>3. CASE shelf[w][s] = Missing
  <2>1. seen(calls \ {call}) = seen(calls)
    <3> HIDE DEF call
    <3> QED BY <1>2, <1>3
  <2> HIDE DEF read, seen
  <2> QED BY <1>1, <1>3, <2>1
<1>4. CASE shelf[w][s] # Missing
  <2>1. seen(calls \ {call}) = seen(calls) \cup {w}
    <3> HIDE DEF call
    <3>1. \A v \in Warehouse : Call("observe", v, NoSku, NoBody) \notin calls \ {call}
            <=> (Call("observe", v, NoSku, NoBody) \notin calls \/ v = w)
      BY <1>2 DEF call
    <3> QED BY <1>4, <3>1
  <2>2. With(read(seen(calls)), w, shelf[w][s].rec) = read(seen(calls) \cup {w})
    <3> HIDE DEF seen
    <3> QED BY DEF With
  <2> HIDE DEF read, seen
  <2> QED BY <1>1, <1>4, <2>1, <2>2
<1> QED BY <1>3, <1>4

(* After a clean check every warehouse holds what has been seen of it. *)
LEMMA CleanIsComplete ==
  ASSUME Clean(ViewOf(shelf)), NEW s \in Sku, NEW w \in Warehouse
  PROVE  shelf[w][s] # Missing /\ ViewOf(shelf)[s][w] = shelf[w][s].rec
<1> DEFINE there == {v \in Warehouse : shelf[v][s] # Missing}
<1>1. ViewOf(shelf)[s] = [v \in there |-> shelf[v][s].rec]
  BY DEF ViewOf
<1>2. DOMAIN ViewOf(shelf)[s] = Warehouse
  BY DEF Clean, ConflictingSkus, Conflict, MissingState
<1>3. there = Warehouse
  BY <1>1, <1>2
<1> QED BY <1>1, <1>3

-----------------------------------------------------------------------------
(* Steps that begin or end no round *)

SameRound ==
  /\ sim'.round = sim.round /\ sim'.verdict = sim.verdict
  /\ PassedOf(sim') = PassedOf(sim)
  /\ sim'.at = "disturbing" => sim.at = "disturbing"
  /\ sim.verdict = "PASS" => shelf' = shelf

Stopped ==
  /\ sim'.round = sim.round /\ sim.verdict = "none" /\ sim'.verdict = "FAIL"
  /\ PassedOf(sim') = PassedOf(sim)
  /\ shelf' = shelf

LEMMA QuietStays ==
  ASSUME Quiet, run' = run, late' = late
  PROVE  Quiet'
BY DEF Quiet

LEMMA StillStays ==
  ASSUME Still, run' = run, late' = late, stray' = stray
  PROVE  Still'
BY DEF Still

(* Somebody is waited for, so the simulation has not ended. *)
LEMMA WaitingGoesOn ==
  ASSUME SimInv, NEW q \in sim.waiting
  PROVE  /\ sim.verdict = "none" /\ RoundsAdd(sim) /\ stray = {} /\ Still
         /\ sim.at \notin {"running", "ended"}
         /\ sim.at = "checking" => q \in Observations
BY DEF SimInv, Booked

LEMMA StoppedIsSound ==
  ASSUME SimInv, sim.verdict = "none", NEW c, Booked(c), RoundsAdd(c),
         c.round = sim.round, c.results = sim.results, NEW r,
         sim' = Failed(c, r), shelf' = shelf, Quiet'
  PROVE  SimInv' /\ Stopped
<1>1. /\ Booked(sim') /\ sim'.verdict = "FAIL" /\ sim'.at = "ended"
      /\ sim'.round = c.round /\ PassedOf(sim') = PassedOf(c)
  BY FailedIsBooked
<1>2. PassedOf(c) = PassedOf(sim)
  BY DEF PassedOf
<1> QED BY <1>1, <1>2 DEF SimInv, Stopped

LEMMA ObservationIsSound ==
  ASSUME SimInv, NEW q \in sim.waiting, AnswerObservation(q)
  PROVE  SimInv' /\ SameRound
<1> DEFINE c == Counted(sim, q, 0)
<1>1. /\ sim.verdict = "none" /\ RoundsAdd(sim) /\ stray = {} /\ Still
      /\ sim.at = "checking" => q \in Observations
  BY WaitingGoesOn
<1>2. /\ Booked(c) /\ c.at = sim.at /\ c.verdict = sim.verdict
      /\ c.waiting = sim.waiting \ {q} /\ c.round = sim.round
      /\ c.results = sim.results /\ c.pending = sim.pending
      /\ c.view = sim.view
  BY CountedIsBooked DEF SimInv
<1> DEFINE view == [s \in Sku |-> IF shelf[q.to][s] = Missing THEN c.view[s]
                                  ELSE With(c.view[s], q.to, shelf[q.to][s].rec)]
<1>3. sim' = [c EXCEPT !.view = view]
  BY DEF AnswerObservation
<1> HIDE DEF c
<1>4. /\ DOMAIN sim' = SimFields /\ sim'.at = sim.at
      /\ sim'.verdict = sim.verdict /\ sim'.waiting = sim.waiting \ {q}
      /\ sim'.round = sim.round /\ sim'.results = sim.results
      /\ sim'.pending = sim.pending /\ sim'.view = view
  <2> HIDE DEF view
  <2> QED BY <1>2, <1>3 DEF Booked, SimFields
<1>5. Booked(sim') /\ RoundsAdd(sim')
  <2> HIDE DEF view
  <2> QED BY <1>1, <1>2, <1>4 DEF Booked, RoundsAdd
<1>6. UNCHANGED <<shelf, run, late, stray>>
  BY DEF AnswerObservation, vars
<1>7. sim.at = "checking" => sim'.view = SeenBut(sim.waiting)'
  <2> SUFFICES ASSUME sim.at = "checking"
               PROVE  sim'.view = SeenBut(sim.waiting)'
    OBVIOUS
  <2>1. PICK w \in Warehouse : q = Call("observe", w, NoSku, NoBody)
    BY <1>1 DEF Observations
  <2>2. q.to = w
    BY <2>1 DEF Call
  <2>3. c.view = SeenBut(sim.waiting)
    BY <1>2 DEF SimInv
  <2>4. \A s \in Sku : view[s] = SeenBut(sim.waiting \ {q})[s]
    <3> SUFFICES ASSUME NEW s \in Sku
                 PROVE  view[s] = SeenBut(sim.waiting \ {q})[s]
      OBVIOUS
    <3>1. view[s] = IF shelf[w][s] = Missing THEN SeenBut(sim.waiting)[s]
                    ELSE With(SeenBut(sim.waiting)[s], w, shelf[w][s].rec)
      BY <2>2, <2>3
    <3>2. SeenBut(sim.waiting \ {Call("observe", w, NoSku, NoBody)})[s] =
            IF shelf[w][s] = Missing THEN SeenBut(sim.waiting)[s]
            ELSE With(SeenBut(sim.waiting)[s], w, shelf[w][s].rec)
      BY OneMoreSeen
    <3> HIDE DEF view
    <3> QED BY <2>1, <3>1, <3>2
  <2>5. view = SeenBut(sim.waiting \ {q})
    BY <2>4 DEF SeenBut
  <2>6. SeenBut(sim.waiting \ {q}) = SeenBut(sim.waiting)'
    BY <1>4, <1>6 DEF SeenBut
  <2> HIDE DEF view
  <2> QED BY <1>4, <2>5, <2>6
<1> HIDE DEF view
<1>8. Quiet' /\ Still'
  BY <1>1, <1>6, QuietStays, StillStays DEF SimInv
<1> QED BY <1>1, <1>4, <1>5, <1>6, <1>7, <1>8 DEF SimInv, SameRound, PassedOf, Still

LEMMA ControlIsSound ==
  ASSUME SimInv, NEW q \in sim.waiting, AnswerControl(q)
  PROVE  SimInv' /\ SameRound
<1>1. /\ sim.verdict = "none" /\ RoundsAdd(sim) /\ stray = {} /\ Still
      /\ sim.at = "checking" => q \in Observations
  BY WaitingGoesOn
<1>2. /\ Booked(sim') /\ sim'.at = sim.at /\ sim'.verdict = sim.verdict
      /\ sim'.round = sim.round /\ sim'.results = sim.results
      /\ sim'.pending = sim.pending
  BY CountedIsBooked DEF SimInv, AnswerControl
<1>3. sim.at # "checking"
  BY <1>1 DEF AnswerControl, Observations, Call
<1>4. UNCHANGED <<run, late, stray>>
  BY DEF AnswerControl
<1>5. Quiet' /\ Still'
  BY <1>1, <1>4, QuietStays, StillStays DEF SimInv
<1>6. RoundsAdd(sim')
  BY <1>1, <1>2 DEF RoundsAdd
<1> QED BY <1>1, <1>2, <1>3, <1>5, <1>6 DEF SimInv, SameRound, PassedOf, Still

(* A refused or lost control call *)
LEMMA FailureIsSound ==
  ASSUME SimInv, NEW q \in sim.waiting, RejectControl(q) \/ LoseControl(q)
  PROVE  SimInv' /\ Stopped
<1> DEFINE c == Counted(sim, q, 1)
<1>1. /\ sim.verdict = "none" /\ RoundsAdd(sim)
  BY WaitingGoesOn
<1>2. /\ Booked(c) /\ c.round = sim.round /\ c.results = sim.results
      /\ c.pending = sim.pending
  BY CountedIsBooked DEF SimInv
<1>3. sim' = Failed(c, run) /\ UNCHANGED <<shelf, run, late>>
  BY DEF RejectControl, LoseControl, vars
<1> HIDE DEF c
<1>4. RoundsAdd(c)
  BY <1>1, <1>2 DEF RoundsAdd
<1>5. Quiet'
  BY <1>3, QuietStays DEF SimInv
<1> QED BY <1>1, <1>2, <1>3, <1>4, <1>5, StoppedIsSound

LEMMA StrayIsSound ==
  ASSUME SimInv, NEW q \in stray, HandleStray(q)
  PROVE  SimInv' /\ SameRound
<1>1. /\ sim.verdict # "none" /\ sim.verdict # "PASS" /\ sim.at = "ended"
  BY DEF SimInv, Still, Booked
<1>2. UNCHANGED <<sim, run, late>>
  BY DEF HandleStray
<1>3. Quiet'
  BY <1>2, QuietStays DEF SimInv
<1>4. Booked(sim')
  BY <1>2 DEF SimInv
<1> QED BY <1>1, <1>2, <1>3, <1>4 DEF SimInv, SameRound

(* Where nothing is under way the agent does nothing. *)
LEMMA StillAgent ==
  ASSUME SimInv, Still, AgentStep \/ AgentFault
  PROVE  Still' /\ shelf' = shelf
<1>1. sim' = sim /\ stray' = stray
  BY DEF AgentStep, AgentFault, simVars
<1>2. ~RunStep
  BY DEF Still, RunStep, Answered, AnswerCatalogue, AnswerEvents,
         AnswerVerification, Analyse, Reassess, ExecuteUpdate, Resolve
<1>3. PICK w \in Warehouse, s \in Sku \cup {NoSku} : LoseRead(w, s)
  BY <1>2 DEF AgentStep, AgentFault, Fault, LoseUpdate, Still
<1>4. late' = late /\ shelf' = shelf
      /\ run' = Called(run, Purpose(run.status), w, s, "lost")
  BY <1>3 DEF LoseRead, world
<1>5. run'.status = run.status
  BY <1>4, CallIsOrderly DEF SimInv, Quiet
<1> QED BY <1>1, <1>4, <1>5 DEF Still

(* A step of the agent is part of its round. *)
LEMMA AgentIsSound ==
  ASSUME SimInv, AgentStep \/ AgentFault
  PROVE  SimInv' /\ SameRound
<1>1. Quiet'
  BY StepsAreQuiet DEF SimInv, AgentStep, AgentFault, Next
<1>2. sim' = sim /\ stray' = stray
  BY DEF AgentStep, AgentFault, simVars
<1>3. Still => Still' /\ shelf' = shelf
  BY StillAgent
<1>4. sim.at = "checking" => SeenBut(sim.waiting)' = SeenBut(sim.waiting)
  BY <1>2, <1>3 DEF SimInv, SeenBut
<1>5. Booked(sim') /\ (sim'.verdict = "none" => RoundsAdd(sim'))
  BY <1>2 DEF SimInv
<1> QED BY <1>1, <1>2, <1>3, <1>4, <1>5 DEF SimInv, SameRound

-----------------------------------------------------------------------------
(* The controller's steps within a round *)

(* The next calls of a simulation that goes on *)
LEMMA WaitsIsSound ==
  ASSUME SimInv, sim.verdict = "none", NEW c, Booked(c), RoundsAdd(sim),
         c.verdict = "none", c.round = sim.round, c.results = sim.results,
         c.pending = sim.pending,
         NEW at \in {"resetting", "checking", "shortening", "inspecting"},
         NEW calls, at = "checking" => calls = Observations,
         at \notin {"resetting", "checking"} => c.round \in Rounds,
         sim' = Waits(c, at, calls), UNCHANGED vars, stray' = stray, Still
  PROVE  SimInv' /\ SameRound
<1>1. /\ Booked(sim') /\ sim'.verdict = "none" /\ sim'.at = at
      /\ sim'.waiting = calls /\ sim'.round = c.round
      /\ sim'.results = c.results /\ sim'.pending = c.pending
      /\ at = "checking" => sim'.view = NoView
  BY WaitsIsBooked
<1>2. UNCHANGED <<shelf, run, late, stray>>
  BY DEF vars
<1>3. Quiet' /\ Still'
  BY <1>2, QuietStays, StillStays DEF SimInv
<1>4. RoundsAdd(sim')
  BY <1>1 DEF RoundsAdd
<1>5. sim'.at = "checking" => sim'.view = SeenBut(sim.waiting)'
  <2>1. SeenBut(Observations)' = SeenBut(Observations)
    BY <1>2 DEF SeenBut, Observations
  <2> QED BY <1>1, <2>1, NothingSeen DEF SeenBut
<1> QED BY <1>1, <1>2, <1>3, <1>4, <1>5 DEF SimInv, SameRound, PassedOf, Still

LEMMA ResetIsSound ==
  ASSUME SimInv, ResetAll
  PROVE  SimInv' /\ SameRound
<1> DEFINE c == [sim EXCEPT !.resetDone = TRUE]
<1>1. /\ sim.at = "resetting" /\ sim' = Waits(c, "checking", Observations)
      /\ UNCHANGED vars /\ stray' = stray
  BY DEF ResetAll
<1>2. sim.verdict = "none" /\ RoundsAdd(sim) /\ Still
  BY <1>1 DEF SimInv, Booked
<1>3. /\ DOMAIN c = SimFields /\ c.at = sim.at /\ c.verdict = sim.verdict
      /\ c.waiting = sim.waiting /\ c.round = sim.round
      /\ c.results = sim.results /\ c.pending = sim.pending
  BY DEF SimInv, Booked, SimFields
<1> HIDE DEF c
<1>4. Booked(c)
  BY <1>3 DEF SimInv, Booked
<1> QED BY <1>1, <1>2, <1>3, <1>4, WaitsIsSound

LEMMA InjectIsSound ==
  ASSUME SimInv, Inject
  PROVE  SimInv' /\ SameRound
<1>1. /\ sim.at \in {"disturbing", "shortening"}
      /\ \/ sim' = Waits(sim, "shortening", SecondCalls(sim.baseline))
         \/ sim' = Waits(sim, "inspecting", Observations)
      /\ UNCHANGED vars /\ stray' = stray
  BY DEF Inject
<1>2. /\ sim.verdict = "none" /\ RoundsAdd(sim) /\ Still /\ Booked(sim)
      /\ sim.round \in Rounds
  BY <1>1 DEF SimInv, Booked
<1> QED BY <1>1, <1>2, WaitsIsSound

(* The agent starts with nothing under way. *)
LEMMA InspectIsSound ==
  ASSUME SimInv, Inspect
  PROVE  SimInv' /\ (SameRound \/ Stopped)
<1>1. sim.at = "inspecting" /\ UNCHANGED <<shelf, late, stray>>
  BY DEF Inspect
<1>2. /\ sim.verdict = "none" /\ RoundsAdd(sim) /\ Still /\ Booked(sim)
      /\ sim.round \in Rounds /\ stray = {}
  BY <1>1 DEF SimInv, Booked
<1>3. CASE sim' = Waits(sim, "running", {}) /\ run' = Observing(3)
  <2>1. /\ Booked(sim') /\ sim'.verdict = "none" /\ sim'.at = "running"
        /\ sim'.round = sim.round
        /\ sim'.results = sim.results /\ sim'.pending = sim.pending
    BY <1>2, <1>3, WaitsIsBooked
  <2>2. late' = {}
    BY <1>1, <1>2 DEF Still
  <2>3. Quiet'
    BY <1>3, <2>2, NewRunIsOrderly DEF Quiet
  <2>4. RoundsAdd(sim')
    BY <1>2, <2>1 DEF RoundsAdd
  <2> QED BY <1>1, <1>2, <2>1, <2>3, <2>4 DEF SimInv, SameRound, PassedOf
<1>4. CASE sim' = Failed(sim, run) /\ run' = run
  <2>1. Quiet'
    BY <1>1, <1>4, QuietStays DEF SimInv
  <2> QED BY <1>1, <1>2, <1>4, <2>1, StoppedIsSound
<1> QED BY <1>3, <1>4 DEF Inspect

(* A run whose outcome is the expected one has left no PUT behind. *)
LEMMA ExpectedIsStill ==
  ASSUME Quiet, Over(run), NEW kind \in Rounds,
         TerminalOutcome(run, DisturbanceSku[kind]) = Expected[kind],
         ~(ZeroWrites(kind) /\ Writes(run) > 0)
  PROVE  late = {}
<1> DEFINE s == DisturbanceSku[kind]
           writes == {c \in run.calls : c.purpose = "write"}
<1>1. Expected[kind] \in {"RESOLVED", "ESCALATED"}
  BY SimulationAssumption DEF Expected, Disturbances
<1>2. /\ DOMAIN run.resolutions = {s}
      /\ run.resolutions[s] = Expected[kind]
  BY <1>1 DEF TerminalOutcome
<1>3. run.failed \subseteq {s}
  BY <1>2 DEF Quiet, Orderly, InHand, Over
<1>4. CASE Expected[kind] = "RESOLVED"
  <2>1. s \notin run.failed
    BY <1>2, <1>4 DEF Quiet, Orderly
  <2> HIDE DEF s
  <2> QED BY <1>3, <2>1 DEF Quiet
<1>5. CASE Expected[kind] = "ESCALATED"
  <2>1. ~(Writes(run) > 0)
    BY <1>5 DEF ZeroWrites
  <2>2. IsFiniteSet(writes)
    BY FS_Subset DEF Quiet, Orderly
  <2>3. Cardinality(writes) \in Nat /\ (Cardinality(writes) = 0 <=> writes = {})
    <3> HIDE DEF writes
    <3> QED BY <2>2, FS_CardinalityType, FS_EmptySet
  <2>4. Writes(run) = Cardinality(writes)
    BY DEF Writes
  <2>5. writes = {}
    <3> HIDE DEF writes
    <3> QED BY <2>1, <2>3, <2>4
  <2>6. run.failed = {}
    BY <2>5 DEF Quiet, Orderly
  <2> QED BY <2>6 DEF Quiet
<1> QED BY <1>1, <1>4, <1>5

LEMMA JudgeIsSound ==
  ASSUME SimInv, Judge
  PROVE  SimInv' /\ (SameRound \/ Stopped)
<1>1. /\ sim.at = "running" /\ Over(run) /\ UNCHANGED vars /\ stray' = stray
  BY DEF Judge
<1>2. /\ sim.verdict = "none" /\ RoundsAdd(sim) /\ sim.round \in Rounds
      /\ stray = {}
  BY <1>1 DEF SimInv, Booked
<1>3. PICK runs, cost :
        LET c == [sim EXCEPT !.agentRuns = runs, !.cost = cost]
        IN  \/ sim' = Failed(c, run)
            \/ /\ TerminalOutcome(run, DisturbanceSku[sim.round])
                    = Expected[sim.round]
               /\ ~(ZeroWrites(sim.round) /\ Writes(run) > 0)
               /\ \/ sim' = Waits(c, "resetting", Resets)
                  \/ sim' = Waits(c, "checking", Observations)
  BY DEF Judge
<1> DEFINE c == [sim EXCEPT !.agentRuns = runs, !.cost = cost]
<1>4. /\ DOMAIN c = SimFields /\ c.at = sim.at /\ c.verdict = sim.verdict
      /\ c.waiting = sim.waiting /\ c.round = sim.round
      /\ c.results = sim.results /\ c.pending = sim.pending
  BY DEF SimInv, Booked, SimFields
<1>5. \/ sim' = Failed(c, run)
      \/ /\ TerminalOutcome(run, DisturbanceSku[sim.round])
              = Expected[sim.round]
         /\ ~(ZeroWrites(sim.round) /\ Writes(run) > 0)
         /\ \/ sim' = Waits(c, "resetting", Resets)
            \/ sim' = Waits(c, "checking", Observations)
  BY <1>3
<1> HIDE DEF c
<1>6. Booked(c) /\ RoundsAdd(c)
  BY <1>2, <1>4 DEF SimInv, Booked, RoundsAdd
<1>7. CASE sim' = Failed(c, run)
  <2>1. Quiet' /\ shelf' = shelf
    BY <1>1, QuietStays DEF SimInv, vars
  <2> QED BY <1>2, <1>4, <1>6, <1>7, <2>1, StoppedIsSound
<1>8. CASE sim' # Failed(c, run)
  <2>1. late = {}
    BY <1>1, <1>2, <1>5, <1>8, ExpectedIsStill DEF SimInv
  <2>2. Still
    BY <1>1, <1>2, <2>1 DEF Still, Over
  <2>3. \/ sim' = Waits(c, "resetting", Resets)
        \/ sim' = Waits(c, "checking", Observations)
    BY <1>5, <1>8
  <2> QED BY <1>1, <1>2, <1>4, <1>6, <2>2, <2>3, WaitsIsSound
<1> QED BY <1>7, <1>8

-----------------------------------------------------------------------------
(* The clean check: the end of a round and the beginning of the next *)

CleanNow == Clean(ViewOf(shelf))

Begun ==
  /\ sim.round = NoRound /\ sim.verdict = "none" /\ CleanNow
  /\ sim'.round \in Rounds /\ sim'.verdict \in {"none", "FAIL"}
  /\ PassedOf(sim') = PassedOf(sim)
  /\ sim'.baseline = ViewOf(shelf) /\ shelf' = shelf

MovedOn ==
  /\ sim.round # NoRound /\ sim.verdict = "none" /\ CleanNow
  /\ PassedOf(sim') = PassedOf(sim) \cup {sim.round}
  /\ sim'.round \in Rounds \ PassedOf(sim')
  /\ sim'.verdict \in {"none", "FAIL"}
  /\ sim'.baseline = ViewOf(shelf) /\ shelf' = shelf

AllPassed ==
  /\ sim.round # NoRound /\ sim.verdict = "none" /\ CleanNow
  /\ PassedOf(sim') = PassedOf(sim) \cup {sim.round}
  /\ PassedOf(sim') = Rounds /\ sim'.round = NoRound
  /\ sim'.verdict = "PASS" /\ shelf' = shelf

(* Beginning the round "kind" when "c" has the results of the rounds over  *)
LEMMA StartedIsSound ==
  ASSUME SimInv, sim.at = "checking", UNCHANGED <<vars, stray>>,
         NEW c, Booked(c), c.verdict = "none", c.at = "checking",
         c.pending \subseteq Rounds, NEW kind \in c.pending,
         DOMAIN c.results = Rounds \ c.pending,
         \A k \in DOMAIN c.results : c.results[k].status = "PASS",
         sim' = Started(c, kind)
  PROVE  /\ SimInv' /\ sim'.baseline = c.baseline
         /\ sim'.round = kind /\ sim'.verdict \in {"none", "FAIL"}
         /\ PassedOf(sim') = DOMAIN c.results
<1>1. /\ Booked(sim') /\ sim'.round = kind
      /\ sim'.verdict \in {"none", "FAIL"}
      /\ sim'.at \in {"disturbing", "ended"} /\ sim'.baseline = c.baseline
      /\ sim'.verdict = "none" =>
           sim'.results = c.results /\ sim'.pending = c.pending \ {kind}
      /\ sim'.verdict = "FAIL" =>
           \E result : /\ result.status = "FAIL"
                       /\ sim'.results = With(c.results, kind, result)
  BY StartedIsBooked
<1>2. sim.verdict = "none" /\ stray = {} /\ Still
  BY DEF SimInv, Booked
<1>3. UNCHANGED <<shelf, run, late, stray>>
  BY DEF vars
<1>4. Quiet' /\ Still'
  BY <1>2, <1>3, QuietStays, StillStays DEF SimInv
<1>5. sim'.verdict = "none" => RoundsAdd(sim')
  BY <1>1, NoRoundIsNone DEF RoundsAdd
<1>6. PassedOf(sim') = DOMAIN c.results
  <2>1. CASE sim'.verdict = "none"
    BY <1>1, <2>1 DEF PassedOf
  <2>2. CASE sim'.verdict = "FAIL"
    <3>1. PICK result : /\ result.status = "FAIL"
                        /\ sim'.results = With(c.results, kind, result)
      BY <1>1, <2>2
    <3>2. /\ DOMAIN sim'.results = DOMAIN c.results \cup {kind}
          /\ sim'.results[kind] = result
          /\ \A k \in DOMAIN c.results \ {kind} :
               sim'.results[k] = c.results[k]
      BY <3>1 DEF With
    <3> QED BY <3>1, <3>2 DEF PassedOf
  <2> QED BY <1>1, <2>1, <2>2
<1> QED BY <1>1, <1>2, <1>3, <1>4, <1>5, <1>6 DEF SimInv, Still

LEMMA CheckIsSound ==
  ASSUME SimInv, Check
  PROVE  SimInv' /\ (Stopped \/ Begun \/ MovedOn \/ AllPassed)
<1> DEFINE c == [sim EXCEPT !.baseline = sim.view]
           results == With(c.results, sim.round, Result("PASS", run, TRUE))
           d == [c EXCEPT !.results = results]
<1>1. /\ sim.at = "checking" /\ sim.waiting = {}
      /\ UNCHANGED <<vars, stray>>
  BY DEF Check
<1>2. /\ sim.verdict = "none" /\ RoundsAdd(sim) /\ stray = {} /\ Still
      /\ Booked(sim) /\ sim.view = ViewOf(shelf)
  BY <1>1, EverythingSeen DEF SimInv, Booked
<1>3. /\ DOMAIN c = SimFields /\ c.at = sim.at /\ c.verdict = sim.verdict
      /\ c.waiting = sim.waiting /\ c.round = sim.round
      /\ c.results = sim.results /\ c.pending = sim.pending
      /\ c.baseline = ViewOf(shelf)
  BY <1>2 DEF Booked, SimFields
<1>4. \/ sim' = Failed(c, run)
      \/ /\ sim.round = NoRound /\ Clean(sim.view)
         /\ \E kind \in Rounds : sim' = Started(c, kind)
      \/ /\ sim.round # NoRound /\ Clean(sim.view)
         /\ IF sim.pending = {} THEN sim' = Ended(d, "PASS")
            ELSE \E kind \in sim.pending : sim' = Started(d, kind)
  BY DEF Check, Passes
<1>5. /\ DOMAIN results = DOMAIN c.results \cup {sim.round}
      /\ \A k \in DOMAIN c.results : c.results[k].status = "PASS" =>
           results[k].status = "PASS"
      /\ results[sim.round].status = "PASS"
  BY DEF With, Result
<1> HIDE DEF c, results
<1>6. /\ DOMAIN d = SimFields /\ d.at = sim.at /\ d.verdict = sim.verdict
      /\ d.waiting = sim.waiting /\ d.round = sim.round
      /\ d.results = results /\ d.pending = sim.pending
      /\ d.baseline = ViewOf(shelf)
  BY <1>3 DEF SimFields
<1> HIDE DEF d
<1>7. Booked(c) /\ Booked(d) /\ RoundsAdd(c)
  BY <1>2, <1>3, <1>6 DEF Booked, RoundsAdd
<1>8. /\ Quiet' /\ shelf' = shelf /\ Still'
  BY <1>1, <1>2, QuietStays, StillStays DEF SimInv, vars
<1>9. /\ PassedOf(sim) = DOMAIN sim.results
      /\ DOMAIN sim.results = Rounds \ (sim.pending \cup {sim.round})
  BY <1>2 DEF RoundsAdd, PassedOf
<1>10. CASE sim' = Failed(c, run)
  BY <1>2, <1>3, <1>7, <1>8, <1>10, StoppedIsSound
<1>11. ASSUME sim.round = NoRound, Clean(sim.view),
              NEW kind \in Rounds, sim' = Started(c, kind)
       PROVE  SimInv' /\ Begun
  <2>1. sim.pending = Rounds /\ DOMAIN c.results = {}
    BY <1>2, <1>3, <1>11 DEF RoundsAdd
  <2>2. /\ SimInv' /\ sim'.baseline = c.baseline
        /\ sim'.round = kind /\ sim'.verdict \in {"none", "FAIL"}
        /\ PassedOf(sim') = DOMAIN c.results
    BY <1>1, <1>2, <1>3, <1>7, <1>11, <2>1, StartedIsSound
  <2> QED BY <1>2, <1>3, <1>8, <1>9, <1>11, <2>2 DEF Begun, CleanNow
<1>12. sim.round # NoRound =>
         /\ sim.round \in Rounds
         /\ DOMAIN d.results = Rounds \ sim.pending
         /\ DOMAIN d.results = PassedOf(sim) \cup {sim.round}
         /\ \A k \in DOMAIN d.results : d.results[k].status = "PASS"
  <2> SUFFICES ASSUME sim.round # NoRound
               PROVE  /\ sim.round \in Rounds
                      /\ DOMAIN d.results = Rounds \ sim.pending
                      /\ DOMAIN d.results = PassedOf(sim) \cup {sim.round}
                      /\ \A k \in DOMAIN d.results : d.results[k].status = "PASS"
    OBVIOUS
  <2>1. sim.round \in Rounds /\ sim.pending \subseteq Rounds \ {sim.round}
    BY <1>2 DEF RoundsAdd, Booked
  <2>2. DOMAIN d.results = DOMAIN sim.results \cup {sim.round}
    BY <1>3, <1>5, <1>6
  <2>3. \A k \in DOMAIN sim.results : d.results[k].status = "PASS"
    BY <1>2, <1>3, <1>5, <1>6 DEF RoundsAdd
  <2>4. d.results[sim.round].status = "PASS"
    BY <1>5, <1>6
  <2>5. DOMAIN d.results = Rounds \ sim.pending
    BY <1>9, <2>1, <2>2
  <2> QED BY <1>9, <2>1, <2>2, <2>3, <2>4, <2>5
<1>13. ASSUME sim.round # NoRound, Clean(sim.view),
              sim.pending = {}, sim' = Ended(d, "PASS")
       PROVE  SimInv' /\ AllPassed
  <2>1. /\ Booked(sim') /\ sim'.verdict = "PASS" /\ sim'.at = "ended"
        /\ sim'.round = NoRound /\ sim'.results = d.results
    BY <1>7, <1>13, EndedIsBooked
  <2>2. PassedOf(sim') = DOMAIN d.results
    BY <1>12, <1>13, <2>1 DEF PassedOf
  <2> QED BY <1>2, <1>8, <1>12, <1>13, <2>1, <2>2
          DEF SimInv, AllPassed, CleanNow
<1>14. ASSUME sim.round # NoRound, Clean(sim.view),
              NEW kind \in sim.pending, sim' = Started(d, kind)
       PROVE  SimInv' /\ MovedOn
  <2>1. sim.pending \subseteq Rounds
    BY <1>2 DEF RoundsAdd
  <2>2. /\ SimInv' /\ sim'.baseline = d.baseline
        /\ sim'.round = kind /\ sim'.verdict \in {"none", "FAIL"}
        /\ PassedOf(sim') = DOMAIN d.results
    BY <1>1, <1>2, <1>6, <1>7, <1>12, <1>14, <2>1, StartedIsSound
  <2> QED BY <1>2, <1>6, <1>8, <1>12, <1>14, <2>1, <2>2
          DEF MovedOn, CleanNow
<1> QED BY <1>4, <1>10, <1>11, <1>13, <1>14

-----------------------------------------------------------------------------
(* The invariant, and what it gives *)

LEMMA InitiallySound == SimInit => SimInv
<1> SUFFICES ASSUME SimInit PROVE SimInv
  OBVIOUS
<1>1. run = NewRun(run.version) /\ late = {} /\ stray = {} /\ sim = NewSim
  <2>1. PICK version \in AgentVersions : run = NewRun(version)
    BY DEF SimInit, Init
  <2>2. NewRun(version).version = version
    BY DEF NewRun
  <2> QED BY <2>1, <2>2 DEF SimInit, Init
<1>2. Quiet /\ run.status = "starting"
  BY <1>1, NewRunIsOrderly DEF Quiet
<1>3. Booked(sim) /\ RoundsAdd(sim) /\ sim.at = "resetting"
  <2>1. /\ DOMAIN sim = SimFields /\ sim.at = "resetting"
        /\ sim.verdict = "none" /\ sim.round = NoRound
        /\ sim.pending = Rounds /\ sim.results = <<>>
    BY <1>1 DEF NewSim, SimFields
  <2>2. DOMAIN sim.results = {}
    BY <2>1
  <2> QED BY <2>1, <2>2, NoRoundIsNone DEF Booked, RoundsAdd
<1> QED BY <1>1, <1>2, <1>3 DEF SimInv, Still



LEMMA StepsAreSound ==
  ASSUME SimInv, [SimNext]_allVars
  PROVE  SimInv' /\ (SameRound \/ Stopped \/ Begun \/ MovedOn \/ AllPassed)
<1>1. CASE SimStep
  <2>1. CASE \E q \in sim.waiting : \/ AnswerObservation(q)
                                    \/ AnswerControl(q)
                                    \/ RejectControl(q)
    BY <2>1, ObservationIsSound, ControlIsSound, FailureIsSound
  <2>2. CASE ResetAll \/ Inject
    BY <2>2, ResetIsSound, InjectIsSound
  <2>3. CASE Inspect \/ Judge
    BY <2>3, InspectIsSound, JudgeIsSound
  <2>4. CASE Check
    BY <2>4, CheckIsSound
  <2> QED BY <1>1, <2>1, <2>2, <2>3, <2>4 DEF SimStep
<1>2. CASE SimFault
  BY <1>2, FailureIsSound, StrayIsSound DEF SimFault
<1>3. CASE AgentStep \/ AgentFault
  BY <1>3, AgentIsSound
<1>4. CASE SimTerminated \/ UNCHANGED allVars
  <2>1. UNCHANGED <<shelf, clock, run, late, losses, sim, stray>>
    BY <1>4 DEF SimTerminated, allVars, vars, simVars
  <2>2. Quiet'
    BY <2>1, QuietStays DEF SimInv
  <2>3. Still => Still'
    BY <2>1, StillStays
  <2>4. SeenBut(sim.waiting)' = SeenBut(sim.waiting)
    BY <2>1 DEF SeenBut
  <2> QED BY <2>1, <2>2, <2>3, <2>4 DEF SimInv, SameRound
<1> QED BY <1>1, <1>2, <1>3, <1>4 DEF SimNext

LEMMA SimInvariant == SimSpec => []SimInv
BY InitiallySound, StepsAreSound, PTL DEF SimSpec

(* Outside the agent's run nothing is under way that could still change a  *)
(* warehouse: neither a PUT the agent gave up on nor a control call whose  *)
(* gather() failed (controller.py:138-185).                                *)
THEOREM NothingIsLeftBehind == SimSpec => []NothingLeftBehind
<1>1. SimInv => NothingLeftBehind
  BY DEF SimInv, Still, NothingLeftBehind
<1> QED BY <1>1, SimInvariant, PTL

(* What a disturbance is prepared from is what the warehouses hold         *)
(* (controller.py:121-124, disturbances.py:31).                            *)
THEOREM BaselineIsFresh == SimSpec => BaselineIsCurrent
<1>1. SimInv /\ [SimNext]_allVars =>
        [(sim'.at = "disturbing" /\ sim.at # "disturbing") =>
           \A s \in Sku, w \in Warehouse :
             shelf[w][s] # Missing /\ sim'.baseline[s][w] = shelf[w][s].rec
        ]_allVars
  <2> SUFFICES ASSUME SimInv, SimNext,
                      sim'.at = "disturbing", sim.at # "disturbing",
                      NEW s \in Sku, NEW w \in Warehouse
               PROVE  shelf[w][s] # Missing
                      /\ sim'.baseline[s][w] = shelf[w][s].rec
    OBVIOUS
  <2>1. Booked(sim')
    BY StepsAreSound DEF SimInv
  <2>2. Begun \/ MovedOn
    BY <2>1, StepsAreSound DEF SameRound, Stopped, AllPassed, Booked
  <2>3. CleanNow /\ sim'.baseline = ViewOf(shelf)
    BY <2>2 DEF Begun, MovedOn
  <2> QED BY <2>3, CleanIsComplete DEF CleanNow
<1> QED BY <1>1, SimInvariant, PTL DEF SimSpec, BaselineIsCurrent

(* The simulation implements GatedRounds: a round begins and passes only   *)
(* while the warehouses agree on everything, whoever has looked, and after *)
(* a failure none begins (controller.py:108-187).                          *)
THEOREM SimulationIsGated == SimSpec => RoundsAreGated
<1>1. SimInit => Gated!Init
  <2> SUFFICES ASSUME SimInit PROVE Gated!Init
    OBVIOUS
  <2>1. /\ sim.round = "none" /\ sim.verdict = "none"
        /\ sim.results = <<>>
    BY DEF SimInit, NewSim, NoRound
  <2>2. {k \in DOMAIN sim.results : sim.results[k].status = "PASS"} = {}
    BY <2>1
  <2>3. CleanNow \in BOOLEAN
    BY DEF CleanNow, Clean
  <2> QED BY <2>1, <2>2, <2>3 DEF Gated!Init, Gated!None, CleanNow
<1>2. SimInv /\ [SimNext]_allVars => [Gated!Next]_(Gated!vars)
  <2> SUFFICES ASSUME SimInv, [SimNext]_allVars
               PROVE  [Gated!Next]_(Gated!vars)
    OBVIOUS
  <2>1. SameRound \/ Stopped \/ Begun \/ MovedOn \/ AllPassed
    BY StepsAreSound
  <2>2. shelf' = shelf => CleanNow' = CleanNow
    BY DEF CleanNow, Clean, ViewOf, ConflictingSkus, Conflict
  <2>3. CleanNow \in BOOLEAN /\ CleanNow' \in BOOLEAN
    BY DEF CleanNow, Clean
  <2>4. CASE SameRound
    <3>1. CASE sim.verdict = "PASS"
      BY <2>2, <2>4, <3>1 DEF SameRound, PassedOf, CleanNow, Gated!vars
    <3>2. CASE sim.verdict # "PASS"
      BY <2>3, <2>4, <3>2 DEF SameRound, PassedOf, CleanNow, Gated!Next,
                              Gated!Work
    <3> QED BY <3>1, <3>2
  <2>5. CASE Stopped
    BY <2>2, <2>5 DEF Stopped, PassedOf, CleanNow, Gated!Next, Gated!Fail,
                      Gated!None
  <2>6. CASE Begun
    BY <2>2, <2>6 DEF Begun, PassedOf, CleanNow, Gated!Next, Gated!Begin,
                      Gated!None, NoRound
  <2>7. CASE MovedOn
    <3>1. PassedOf(sim') # Rounds
      BY <2>7 DEF MovedOn
    <3> QED BY <2>2, <2>7, <3>1 DEF MovedOn, PassedOf, CleanNow, Gated!Next,
                                    Gated!Pass, Gated!None, NoRound
  <2>8. CASE AllPassed
    BY <2>2, <2>8 DEF AllPassed, PassedOf, CleanNow, Gated!Next, Gated!Pass,
                      Gated!None, NoRound
  <2> QED BY <2>1, <2>4, <2>5, <2>6, <2>7, <2>8
<1> QED BY <1>1, <1>2, SimInvariant, PTL DEF SimSpec, RoundsAreGated, Gated!Spec

-----------------------------------------------------------------------------
(* The types of the controller's books *)

Stages == {"resetting", "checking", "disturbing", "shortening", "inspecting",
           "running", "ended"}

Books(c) ==
  /\ DOMAIN c = SimFields /\ c.at \in Stages
  /\ c.round \in Rounds \cup {NoRound}
  /\ c.pending \subseteq Rounds \ {c.round}
  /\ DOMAIN c.results \subseteq Rounds
  /\ DOMAIN c.view = Sku /\ DOMAIN c.baseline = Sku
  /\ \A s \in Sku : /\ c.view[s] \in Partial(Record)
                    /\ c.baseline[s] \in Partial(Record)
  /\ c.control \in [DOMAIN NoControlCost -> Nat]
  /\ c.cost \in [Purposes -> Nat]

LEMMA NothingInView ==
  /\ DOMAIN NoView = Sku
  /\ \A s \in Sku : NoView[s] \in Partial(Record)
BY EmptyIsPartial DEF NoView

LEMMA EndedKeepsBooks ==
  ASSUME NEW c, Books(c), NEW verdict \in {"PASS", "FAIL"},
         NEW q, q = Ended(c, verdict)
  PROVE  /\ Books(q) /\ q.at = "ended" /\ q.waiting = {}
         /\ q.agentRuns = c.agentRuns
         /\ q.baseline = c.baseline
         /\ q.round = (IF verdict = "PASS" THEN NoRound ELSE c.round)
<1>1. /\ DOMAIN q = SimFields /\ q.waiting = {} /\ q.at = "ended"
      /\ q.round = (IF verdict = "PASS" THEN NoRound ELSE c.round)
      /\ q.pending = c.pending /\ q.results = c.results /\ q.view = c.view
      /\ q.baseline = c.baseline /\ q.control = c.control
      /\ q.cost = c.cost /\ q.agentRuns = c.agentRuns
  BY DEF Ended, Books, SimFields
<1> QED BY <1>1, NoRoundIsNone DEF Books, Stages

LEMMA WaitsKeepsBooks ==
  ASSUME NEW c, Books(c), NEW at \in Stages, NEW calls,
         NEW q, q = Waits(c, at, calls)
  PROVE  /\ Books(q) /\ q.waiting = calls /\ q.agentRuns = c.agentRuns
         /\ q.baseline = c.baseline /\ q.round = c.round /\ q.at = at
         /\ q.pending = c.pending
<1> DEFINE view == IF calls = Observations THEN NoView ELSE c.view
<1>1. /\ DOMAIN q = SimFields /\ q.waiting = calls /\ q.round = c.round
      /\ q.pending = c.pending /\ q.results = c.results /\ q.view = view
      /\ q.baseline = c.baseline /\ q.control = c.control /\ q.at = at
      /\ q.cost = c.cost /\ q.agentRuns = c.agentRuns
  BY DEF Waits, Books, SimFields
<1>2. DOMAIN view = Sku /\ \A s \in Sku : view[s] \in Partial(Record)
  BY NothingInView DEF Books
<1> HIDE DEF view
<1> QED BY <1>1, <1>2 DEF Books

LEMMA FailedKeepsBooks ==
  ASSUME NEW c, Books(c), NEW r, NEW q, q = Failed(c, r)
  PROVE  /\ Books(q) /\ q.at = "ended" /\ q.waiting = {}
         /\ q.agentRuns = c.agentRuns
         /\ q.baseline = c.baseline /\ q.round = c.round
<1>1. PICK results, failures :
        /\ DOMAIN results \subseteq Rounds
        /\ q = Ended([c EXCEPT !.results = results,
                               !.resetFailures = failures], "FAIL")
  <2>1. CASE c.round = NoRound
    <3>1. q = Ended([c EXCEPT !.resetFailures = 1], "FAIL")
      BY <2>1 DEF Failed
    <3>2. [c EXCEPT !.resetFailures = 1]
            = [c EXCEPT !.results = c.results, !.resetFailures = 1]
      BY DEF Books, SimFields
    <3>3. DOMAIN c.results \subseteq Rounds
      BY DEF Books
    <3> QED BY <3>1, <3>2, <3>3
  <2>2. CASE c.round # NoRound
    <3>1. PICK ran, failures :
            q = Ended([c EXCEPT
                  !.results = With(c.results, c.round, Result("FAIL", r, ran)),
                  !.resetFailures = failures], "FAIL")
      BY <2>2 DEF Failed
    <3>2. DOMAIN With(c.results, c.round, Result("FAIL", r, ran))
            = DOMAIN c.results \cup {c.round}
      BY DEF With
    <3>3. DOMAIN c.results \cup {c.round} \subseteq Rounds
      BY <2>2 DEF Books
    <3> QED BY <3>1, <3>2, <3>3
  <2> QED BY <2>1, <2>2
<1> DEFINE d == [c EXCEPT !.results = results, !.resetFailures = failures]
<1>2. /\ DOMAIN d = SimFields /\ d.at = c.at
      /\ d.round = c.round /\ d.pending = c.pending
      /\ d.results = results /\ d.view = c.view /\ d.baseline = c.baseline
      /\ d.control = c.control /\ d.cost = c.cost
      /\ d.agentRuns = c.agentRuns
  BY DEF Books, SimFields
<1>3. q = Ended(d, "FAIL")
  BY <1>1
<1> HIDE DEF d
<1>4. Books(d)
  BY <1>1, <1>2 DEF Books
<1> QED BY <1>2, <1>3, <1>4, EndedKeepsBooks

LEMMA CountedKeepsBooks ==
  ASSUME NEW c, Books(c), NEW q, NEW failures \in Nat,
         NEW d, d = Counted(c, q, failures)
  PROVE  /\ Books(d) /\ d.waiting = c.waiting \ {q}
         /\ d.agentRuns = c.agentRuns /\ d.baseline = c.baseline
         /\ d.round = c.round /\ d.at = c.at /\ d.pending = c.pending
<1> DEFINE Counters == DOMAIN NoControlCost
           what == CASE q.call = "reset" -> "reset"
                     [] q.call = "observe" -> "observation"
                     [] OTHER -> "mutation"
<1>1. what \in Counters
  BY DEF NoControlCost
<1> DEFINE up == [c.control EXCEPT ![what] = @ + 1]
           control == [up EXCEPT !.failed = @ + failures]
<1>2. up \in [Counters -> Nat]
  <2>1. c.control \in [Counters -> Nat]
    BY DEF Books
  <2> HIDE DEF Counters, what
  <2> QED BY <1>1, <2>1
<1>3. control \in [Counters -> Nat]
  <2>1. "failed" \in Counters
    BY DEF NoControlCost
  <2> HIDE DEF up, Counters
  <2> QED BY <1>2, <2>1
<1>4. d.control = control
  BY DEF Counted, Books, SimFields
<1> HIDE DEF control
<1>5. /\ DOMAIN d = SimFields /\ d.waiting = c.waiting \ {q}
      /\ d.round = c.round /\ d.at = c.at /\ d.pending = c.pending
      /\ d.results = c.results /\ d.view = c.view /\ d.baseline = c.baseline
      /\ d.cost = c.cost /\ d.agentRuns = c.agentRuns
  BY DEF Counted, Books, SimFields
<1> QED BY <1>3, <1>4, <1>5 DEF Books

LEMMA StartedKeepsBooks ==
  ASSUME NEW c, Books(c), NEW kind \in Rounds, NEW q, q = Started(c, kind)
  PROVE  /\ Books(q) /\ q.agentRuns = c.agentRuns
         /\ q.baseline = c.baseline /\ q.round = kind
         /\ \/ /\ q.at = "disturbing" /\ q.pending = c.pending \ {kind}
               /\ q.waiting = FirstCalls(kind, c.baseline)
               /\ Requestable(kind, c.baseline)
            \/ q.at = "ended" /\ q.waiting = {}
<1> DEFINE next == [c EXCEPT !.round = kind, !.pending = c.pending \ {kind},
                             !.resetDone = FALSE]
<1>1. /\ DOMAIN next = SimFields /\ next.at = c.at /\ next.round = kind
      /\ next.pending = c.pending \ {kind} /\ next.results = c.results
      /\ next.view = c.view /\ next.baseline = c.baseline
      /\ next.control = c.control /\ next.cost = c.cost
      /\ next.agentRuns = c.agentRuns
  BY DEF Books, SimFields
<1>2. Books(next)
  <2> HIDE DEF next
  <2> QED BY <1>1 DEF Books
<1>3. CASE Requestable(kind, c.baseline)
  <2>1. q = Waits(next, "disturbing", FirstCalls(kind, c.baseline))
    BY <1>3 DEF Started
  <2> HIDE DEF next
  <2> QED BY <1>1, <1>2, <1>3, <2>1, WaitsKeepsBooks DEF Stages
<1>4. CASE ~Requestable(kind, c.baseline)
  <2> DEFINE results == With(next.results, kind, Result("FAIL", <<>>, FALSE))
             d == [next EXCEPT !.results = results]
  <2>1. q = Ended(d, "FAIL")
    BY <1>4 DEF Started
  <2> HIDE DEF next
  <2>2. DOMAIN results \subseteq Rounds
    BY <1>2 DEF With, Books
  <2> HIDE DEF results
  <2>3. /\ DOMAIN d = SimFields /\ d.at = next.at /\ d.round = kind
        /\ d.pending = next.pending /\ d.results = results
        /\ d.view = next.view /\ d.baseline = next.baseline
        /\ d.control = next.control /\ d.cost = next.cost
        /\ d.agentRuns = next.agentRuns
    BY <1>1 DEF SimFields
  <2>4. q.at = "ended"
    <3> HIDE DEF d
    <3> QED BY <2>1, <2>3 DEF Ended, SimFields
  <2> HIDE DEF d
  <2>5. Books(d)
    BY <1>1, <1>2, <2>2, <2>3 DEF Books
  <2> QED BY <1>1, <2>1, <2>3, <2>4, <2>5, EndedKeepsBooks
<1> QED BY <1>3, <1>4

-----------------------------------------------------------------------------
(* What the controller asks the warehouses, and what they make of it *)

SoundCall(q) ==
  /\ ControlCallOK(q)
  /\ q.call \notin {"reset", "observe"} => q.sku \in Sku

Stocked == \A w \in Warehouse, s \in Sku : shelf[w][s] # Missing

LEMMA DisturbedSkus ==
  ASSUME NEW kind \in Rounds
  PROVE  kind \in Disturbances /\ DisturbanceSku[kind] \in Sku
BY SimulationAssumption DEF Disturbances, DisturbanceSku

LEMMA EmptyCallsAreSound ==
  \A q \in Resets \cup Observations : SoundCall(q)
BY DEF Resets, Observations, SoundCall, ControlCallOK, Call

LEMMA PostIsSound ==
  ASSUME NEW call, NEW w \in Warehouse, NEW s \in Sku, NEW body,
         \/ call = "event" /\ body \in EventRequest
         \/ call = "corrupt" /\ body \in CorruptionRequest
         \/ call = "history" /\ body \in HistoryRequest,
         NEW q, q = Call(call, w, s, body)
  PROVE  /\ SoundCall(q) /\ q.call = call /\ q.to = w
         /\ q.sku = s /\ q.body = body
<1>1. q.call = call /\ q.to = w /\ q.sku = s /\ q.body = body
  BY DEF Call
<1> QED BY <1>1 DEF SoundCall, ControlCallOK

LEMMA EventCallIsSound ==
  ASSUME NEW w \in Warehouse, NEW s \in Sku, NEW base \in Record,
         NEW id \in Nat, NEW delta \in Int, delta # 0, NEW minute \in Nat,
         NEW q, q = EventCall(w, s, base, id, delta, minute)
  PROVE  /\ SoundCall(q) /\ q.call = "event" /\ q.to = w /\ q.sku = s
         /\ q.body.event \in Event
<1> DEFINE event == [id |-> id, delta |-> delta, opening |-> FALSE,
                     at |-> Noon + minute]
           body == [expected |-> base.version, event |-> event]
<1>1. q = Call("event", w, s, body)
  BY DEF EventCall
<1>2. event \in Event
  BY SimulationAssumption DEF Event
<1>3. base.version \in Nat
  BY DEF Record
<1>4. body \in EventRequest
  BY <1>2, <1>3 DEF EventRequest
<1>5. body.event = event
  OBVIOUS
<1> HIDE DEF body, event
<1>7. /\ SoundCall(q) /\ q.call = "event" /\ q.to = w
      /\ q.sku = s /\ q.body = body
  BY <1>1, <1>4, PostIsSound
<1> QED BY <1>2, <1>5, <1>7

LEMMA EventOfCall ==
  ASSUME NEW w, NEW s, NEW base, NEW id, NEW delta, NEW minute,
         NEW q, q = EventCall(w, s, base, id, delta, minute)
  PROVE  /\ q.call = "event" /\ q.to = w /\ q.sku = s
         /\ q.body.event.id = id /\ q.body.event.delta = delta
         /\ q.body.event.opening = FALSE
<1> DEFINE event == [id |-> id, delta |-> delta, opening |-> FALSE,
                     at |-> Noon + minute]
<1>1. q = Call("event", w, s, [expected |-> base.version, event |-> event])
  BY DEF EventCall
<1>2. event.id = id /\ event.delta = delta /\ event.opening = FALSE
  OBVIOUS
<1> HIDE DEF event
<1>3. /\ q.call = "event" /\ q.to = w /\ q.sku = s
      /\ q.body.event = event
  BY <1>1 DEF Call
<1> QED BY <1>2, <1>3

LEMMA FirstCallsAreSound ==
  ASSUME NEW kind \in Rounds, NEW view,
         view[DisturbanceSku[kind]] \in [Warehouse -> Record],
         Requestable(kind, view)
  PROVE  \A q \in FirstCalls(kind, view) : SoundCall(q)
<1> DEFINE s == DisturbanceSku[kind]
           base == view[s][1]
<1>1. s \in Sku /\ kind \in Disturbances
  BY DisturbedSkus
<1>2. Warehouse = 1..3 /\ base \in Record
  BY SimulationAssumption
<1>3. CASE kind = "corruption"
  <2> DEFINE body == [expected |-> base.version,
                      on_hand |-> base.inventory.on_hand - 5]
  <2>1. base.inventory.on_hand >= 5
    BY <1>3 DEF Requestable
  <2>2. base.inventory.on_hand \in Nat /\ base.version \in Nat
    BY <1>2 DEF Record, Inventory
  <2>3. body \in CorruptionRequest
    BY <2>1, <2>2 DEF CorruptionRequest
  <2>4. FirstCalls(kind, view) = {Call("corrupt", 3, s, body)}
    BY <1>3 DEF FirstCalls
  <2> HIDE DEF body, s
  <2> QED BY <1>1, <1>2, <2>3, <2>4, PostIsSound
<1>4. CASE kind # "corruption"
  <2>1. 1 \in Warehouse /\ 2 \in Warehouse /\ 3 \in Warehouse
    BY <1>2
  <2> HIDE DEF s, base
  <2>2. CASE kind = "stale"
    <3>1. FirstCalls(kind, view) =
            {EventCall(w, s, base, 1, 20, 1) : w \in {1, 3}}
      BY <2>2 DEF FirstCalls, s, base
    <3>2. \A w \in {1, 3} : SoundCall(EventCall(w, s, base, 1, 20, 1))
      BY <1>1, <1>2, <2>1, EventCallIsSound
    <3> QED BY <3>1, <3>2
  <2>3. CASE kind = "newer"
    <3>1. FirstCalls(kind, view) = {EventCall(3, s, base, 2, 15, 2)}
      BY <2>3 DEF FirstCalls, s, base
    <3>2. SoundCall(EventCall(3, s, base, 2, 15, 2))
      BY <1>1, <1>2, <2>1, EventCallIsSound
    <3> QED BY <3>1, <3>2
  <2>4. CASE kind = "incomplete"
    <3>1. FirstCalls(kind, view) = {EventCall(3, s, base, 4, 10, 4)}
      BY <2>4 DEF FirstCalls, s, base
    <3>2. SoundCall(EventCall(3, s, base, 4, 10, 4))
      BY <1>1, <1>2, <2>1, EventCallIsSound
    <3> QED BY <3>1, <3>2
  <2>5. CASE kind = "branches"
    <3>1. FirstCalls(kind, view) = {EventCall(2, s, base, 5, -10, 5),
                                    EventCall(3, s, base, 6, 10, 5)}
      BY <2>5 DEF FirstCalls, s, base
    <3>2. SoundCall(EventCall(3, s, base, 6, 10, 5))
      BY <1>1, <1>2, <2>1, EventCallIsSound
    <3>3. SoundCall(EventCall(2, s, base, 5, -10, 5))
      BY <1>1, <1>2, <2>1, EventCallIsSound
    <3> QED BY <3>1, <3>2, <3>3
  <2> QED BY <1>1, <1>4, <2>2, <2>3, <2>4, <2>5 DEF Disturbances
<1> QED BY <1>3, <1>4

LEMMA SecondCallsAreSound ==
  ASSUME NEW view, "incomplete" \in Rounds,
         view[DisturbanceSku["incomplete"]] \in [Warehouse -> Record]
  PROVE  \A q \in SecondCalls(view) :
           /\ SoundCall(q) /\ q.call = "history" /\ q.to = 3
           /\ q.sku = DisturbanceSku["incomplete"]
           /\ q.body.events[1].opening = FALSE
<1> DEFINE s == DisturbanceSku["incomplete"]
           base == view[s][1]
           event == EventCall(3, s, base, 4, 10, 4).body.event
           body == [expectedLast |-> event.id, events |-> <<event>>]
<1>1. s \in Sku
  BY DisturbedSkus
<1>2. Warehouse = 1..3 /\ base \in Record
  BY SimulationAssumption
<1>3. event \in Event /\ event.id = 4 /\ event.opening = FALSE
  <2>1. PICK q : q = EventCall(3, s, base, 4, 10, 4)
    OBVIOUS
  <2>2. /\ 3 \in Warehouse /\ 4 \in Nat /\ 10 \in Int /\ 10 # 0
        /\ base \in Record
    BY <1>2
  <2> HIDE DEF s, base
  <2>3. q.body.event \in Event
    BY <1>1, <2>1, <2>2, EventCallIsSound
  <2>4. q.body.event.id = 4 /\ q.body.event.opening = FALSE
    BY <2>1 DEF EventCall, Call
  <2> QED BY <2>1, <2>3, <2>4 DEF s, base
<1>4. SecondCalls(view) = {Call("history", 3, s, body)}
  BY DEF SecondCalls
<1> HIDE DEF event, s
<1>5. UniqueIds(<<event>>) /\ Chronological(<<event>>)
  BY DEF UniqueIds, Chronological
<1>6. body \in HistoryRequest
  BY <1>3, <1>5 DEF HistoryRequest
<1>7. body.events[1].opening = FALSE
  BY <1>3
<1> HIDE DEF body
<1>8. 3 \in Warehouse
  BY <1>2
<1> SUFFICES ASSUME NEW q \in SecondCalls(view)
             PROVE  /\ SoundCall(q) /\ q.call = "history" /\ q.to = 3
                    /\ q.sku = s /\ q.body.events[1].opening = FALSE
  BY DEF s
<1>9. q = Call("history", 3, s, body)
  BY <1>4
<1>10. /\ SoundCall(q) /\ q.call = "history" /\ q.to = 3
       /\ q.sku = s /\ q.body = body
  BY <1>1, <1>6, <1>8, <1>9, PostIsSound
<1> QED BY <1>7, <1>10

(* A call that is accepted leaves another entry on one shelf. *)
ChangesOne(q, after) ==
  /\ ShelfAfter(q) \in [Warehouse -> [Sku -> Entry \cup {Missing}]]
  /\ ShelfAfter(q)[q.to][q.sku] = after
  /\ \A w \in Warehouse, s \in Sku :
       w # q.to \/ s # q.sku => ShelfAfter(q)[w][s] = shelf[w][s]

LEMMA CallsChangeOne ==
  ASSUME shelf \in [Warehouse -> [Sku -> Entry \cup {Missing}]], Stocked,
         NEW q, SoundCall(q), q.call \notin {"reset", "observe"}, Accepted(q)
  PROVE  /\ q.to \in Warehouse /\ q.sku \in Sku
         /\ \E after \in Entry :
              /\ ChangesOne(q, after)
              /\ q.call = "event" =>
                   /\ after.rec.cursor = shelf[q.to][q.sku].rec.cursor + 1
                   /\ after.rec.inventory.on_hand =
                        shelf[q.to][q.sku].rec.inventory.on_hand
                          + q.body.event.delta
              /\ q.call = "corrupt" =>
                   /\ after.rec.cursor = shelf[q.to][q.sku].rec.cursor
                   /\ after.rec.inventory.on_hand = q.body.on_hand
              /\ q.call = "history" =>
                   /\ after.rec = shelf[q.to][q.sku].rec
                   /\ after.hist = q.body.events
<1> DEFINE entry == shelf[q.to][q.sku]
<1>1. q.to \in Warehouse /\ q.sku \in Sku
  BY DEF SoundCall, ControlCallOK
<1>2. entry \in Entry
  BY <1>1 DEF Stocked
<1>3. \A after \in Entry :
        ShelfAfter(q) = [shelf EXCEPT ![q.to][q.sku] = after]
          => ChangesOne(q, after)
  <2> SUFFICES ASSUME NEW after \in Entry,
                      ShelfAfter(q) = [shelf EXCEPT ![q.to][q.sku] = after]
               PROVE  ChangesOne(q, after)
    OBVIOUS
  <2> QED BY <1>1, ChangedShelf DEF ChangesOne
<1>4. CASE q.call = "event"
  <2> DEFINE after == AfterEvent(entry, q.body)
  <2>1. q.body \in EventRequest /\ EventAccepted(entry, q.body)
    BY <1>4 DEF SoundCall, ControlCallOK, Accepted
  <2>2. ShelfAfter(q) = [shelf EXCEPT ![q.to][q.sku] = after]
    BY <1>1, <1>4 DEF ShelfAfter
  <2>3. /\ after \in Entry /\ after.rec.cursor = entry.rec.cursor + 1
        /\ after.rec.inventory.on_hand
             = entry.rec.inventory.on_hand + q.body.event.delta
    <3> HIDE DEF entry
    <3> QED BY <1>2, <2>1, EventKeepsEntry
  <2>4. ChangesOne(q, after)
    <3> HIDE DEF after
    <3> QED BY <1>3, <2>2, <2>3
  <2> HIDE DEF after
  <2> QED BY <1>1, <1>4, <2>3, <2>4
<1>5. CASE q.call = "corrupt"
  <2> DEFINE after == AfterCorruption(entry, q.body)
  <2>1. q.body \in CorruptionRequest /\ CorruptionAccepted(entry, q.body)
    BY <1>5 DEF SoundCall, ControlCallOK, Accepted
  <2>2. ShelfAfter(q) = [shelf EXCEPT ![q.to][q.sku] = after]
    BY <1>1, <1>5 DEF ShelfAfter
  <2>3. /\ after \in Entry /\ after.rec.cursor = entry.rec.cursor
        /\ after.rec.inventory.on_hand = q.body.on_hand
    <3> HIDE DEF entry
    <3> QED BY <1>2, <2>1, CorruptionKeepsEntry
  <2>4. ChangesOne(q, after)
    <3> HIDE DEF after
    <3> QED BY <1>3, <2>2, <2>3
  <2> HIDE DEF after
  <2> QED BY <1>1, <1>5, <2>3, <2>4
<1>6. CASE q.call = "history"
  <2> DEFINE after == AfterHistory(entry, q.body)
  <2>1. q.body \in HistoryRequest
    BY <1>6 DEF SoundCall, ControlCallOK, Accepted
  <2>2. ShelfAfter(q) = [shelf EXCEPT ![q.to][q.sku] = after]
    BY <1>1, <1>6 DEF ShelfAfter
  <2>3. /\ after \in Entry /\ after.rec = entry.rec
        /\ after.hist = q.body.events
    <3> HIDE DEF entry
    <3> QED BY <1>2, <2>1, HistoryKeepsEntry
  <2>4. ChangesOne(q, after)
    <3> HIDE DEF after
    <3> QED BY <1>3, <2>2, <2>3
  <2> HIDE DEF after
  <2> QED BY <1>1, <1>6, <2>3, <2>4
<1> QED BY <1>4, <1>5, <1>6 DEF SoundCall, ControlCallOK

(* A call that is accepted replaces entries by entries. *)
LEMMA AcceptedIsSound ==
  ASSUME shelf \in [Warehouse -> [Sku -> Entry \cup {Missing}]],
         files \in [Sku -> Entry],
         NEW q, SoundCall(q), q.call # "observe", Accepted(q),
         q.call # "reset" => Stocked
  PROVE  /\ ShelfAfter(q) \in [Warehouse -> [Sku -> Entry \cup {Missing}]]
         /\ \A w \in Warehouse, s \in Sku :
              shelf[w][s] # Missing => ShelfAfter(q)[w][s] # Missing
<1>1. CASE q.call = "reset"
  <2>1. ShelfAfter(q) = [shelf EXCEPT ![q.to] = files]
    BY <1>1 DEF ShelfAfter
  <2>2. q.to \in Warehouse
    BY DEF SoundCall, ControlCallOK
  <2>3. \A s \in Sku : files[s] # Missing
    BY WarehouseAssumption
  <2> QED BY <2>1, <2>2, <2>3
<1>2. CASE q.call # "reset"
  <2>1. PICK after \in Entry : ChangesOne(q, after)
    BY <1>2, CallsChangeOne
  <2>2. after # Missing
    BY WarehouseAssumption
  <2> QED BY <2>1, <2>2 DEF ChangesOne
<1> QED BY <1>1, <1>2

(* A run of the agent never makes a warehouse forget a SKU. *)
LEMMA RunKeepsEntries ==
  ASSUME RunInvariant, [Next]_vars, NEW w \in Warehouse, NEW s \in Sku,
         shelf[w][s] # Missing
  PROVE  shelf'[w][s] # Missing
<1>1. CASE shelf' = shelf
  BY <1>1
<1>2. CASE shelf' # shelf
  <2>1. PICK m, outcome :
          /\ Handle(m, outcome)
          /\ m.to \in Warehouse /\ m.sku \in Sku /\ m.request \in UpdateRequest
          /\ shelf[m.to][m.sku] # Missing
    <3>1. CASE ExecuteUpdate
      <4>1. PICK outcome : Handle(Message(run, Min(run.todo)), outcome)
        BY <3>1 DEF ExecuteUpdate
      <4>2. run.status = "executing"
        BY <3>1 DEF ExecuteUpdate
      <4> QED BY <4>1, <4>2, MessageIsSound
    <3>2. CASE \E m \in late : HandleLate(m)
      <4>1. PICK m \in late : HandleLate(m)
        BY <3>2
      <4>2. PICK outcome : Handle(m, outcome)
        BY <4>1 DEF HandleLate
      <4> QED BY <4>2 DEF RunInvariant, SoundWorld
    <3>3. ExecuteUpdate \/ (\E m \in late : HandleLate(m))
      BY <1>2 DEF Next, RunStep, Fault, Begin, Answered, AnswerCatalogue,
                  AnswerEvents, AnswerVerification, Analyse, Reassess,
                  Resolve, LoseRead, LoseUpdate, Terminated, vars, world
    <3> QED BY <3>1, <3>2, <3>3
  <2> QED BY <2>1, HandlingIsSound DEF RunInvariant, SoundWorld
<1> QED BY <1>1, <1>2

-----------------------------------------------------------------------------
(* Each round is one run of the agent. *)

(* The round whose run of the agent is still to come or to be judged *)
ToJudge(c) ==
  IF c.at \in {"disturbing", "shortening", "inspecting", "running"}
  THEN {c.round} ELSE {}

RunsAdd(c) ==
  /\ c.agentRuns \in 0..5
  /\ c.verdict = "none" =>
       c.agentRuns = Cardinality(Rounds \ (c.pending \cup ToJudge(c)))

LEMMA FiveRounds ==
  ASSUME NEW S, S \subseteq Rounds
  PROVE  IsFiniteSet(S) /\ Cardinality(S) \in 0..5
<1> DEFINE A == {"stale"}
           B == A \cup {"newer"}
           C == B \cup {"corruption"}
           D == C \cup {"incomplete"}
           E == D \cup {"branches"}
<1>1. IsFiniteSet(A) /\ Cardinality(A) = 1
  BY FS_Singleton
<1>2. IsFiniteSet(B) /\ Cardinality(B) = 2
  BY <1>1, FS_AddElement
<1>3. IsFiniteSet(C) /\ Cardinality(C) = 3
  BY <1>2, FS_AddElement
<1>4. IsFiniteSet(D) /\ Cardinality(D) = 4
  BY <1>3, FS_AddElement
<1>5. IsFiniteSet(E) /\ Cardinality(E) = 5
  BY <1>4, FS_AddElement
<1>6. S \subseteq E
  BY SimulationAssumption DEF Disturbances
<1> HIDE DEF E
<1>7. IsFiniteSet(S) /\ Cardinality(S) <= Cardinality(E)
  BY <1>5, <1>6, FS_Subset
<1>8. Cardinality(S) \in Nat
  BY <1>7, FS_CardinalityType
<1> QED BY <1>5, <1>7, <1>8

(* The same rounds are over. *)
LEMMA RunsStayAdded ==
  ASSUME NEW c, RunsAdd(c), NEW q, q.agentRuns = c.agentRuns,
         q.verdict = "none" =>
           /\ c.verdict = "none"
           /\ q.pending \cup ToJudge(q) = c.pending \cup ToJudge(c)
  PROVE  RunsAdd(q)
BY DEF RunsAdd

(* One more is over. *)
LEMMA OneMoreRun ==
  ASSUME NEW c, RunsAdd(c), c.verdict = "none", c.at = "running",
         c.round \in Rounds, c.pending \subseteq Rounds \ {c.round},
         NEW q, q.agentRuns = c.agentRuns + 1,
         q.verdict = "none" => q.pending = c.pending /\ ToJudge(q) = {}
  PROVE  RunsAdd(q)
<1> DEFINE over == Rounds \ (c.pending \cup {c.round})
<1>1. c.agentRuns = Cardinality(over)
  BY DEF RunsAdd, ToJudge
<1>2. Rounds \ c.pending = over \cup {c.round} /\ c.round \notin over
  OBVIOUS
<1>3. IsFiniteSet(over)
  BY FiveRounds
<1>4. Cardinality(Rounds \ c.pending) \in 0..5
  BY FiveRounds
<1> HIDE DEF over
<1>5. Cardinality(over \cup {c.round}) = Cardinality(over) + 1
  BY <1>2, <1>3, FS_AddElement
<1>6. q.agentRuns = Cardinality(Rounds \ c.pending)
  BY <1>1, <1>2, <1>5
<1>7. q.verdict = "none" =>
        Rounds \ (q.pending \cup ToJudge(q)) = Rounds \ c.pending
  OBVIOUS
<1> QED BY <1>4, <1>6, <1>7 DEF RunsAdd

-----------------------------------------------------------------------------
(* The invariant behind the types *)

CallsAreSound ==
  /\ \A q \in sim.waiting \cup stray :
       SoundCall(q) /\ (q.call \in {"reset", "observe"} \/ Stocked)
  /\ \A q \in stray : q.call # "observe"

BaselineIsFull ==
  sim.round # NoRound =>
    /\ Stocked
    /\ \A s \in Sku : sim.baseline[s] \in [Warehouse -> Record]

SimTypes ==
  /\ SimInv /\ RunInvariant
  /\ Books(sim) /\ RunsAdd(sim)
  /\ files \in [Sku -> Entry]
  /\ CallsAreSound /\ BaselineIsFull

LEMMA SimTypesAreTypes == SimTypes => SimTypeOK
<1> SUFFICES ASSUME SimTypes PROVE SimTypeOK
  OBVIOUS
<1>1. TypeOK
  <2>1. RunOK(run)
    BY SoundRunsAreTyped DEF SimTypes, RunInvariant
  <2> QED BY <2>1 DEF SimTypes, RunInvariant, SoundWorld, TypeOK
<1>2. \A q \in sim.waiting \cup stray : ControlCallOK(q)
  BY DEF SimTypes, CallsAreSound, SoundCall
<1>3. \A s \in Sku : IsPartial(sim.view[s], Record)
  BY PartialIsPartial DEF SimTypes, Books
<1> QED BY <1>1, <1>2, <1>3 DEF SimTypes, Books, RunsAdd, SimTypeOK, Stages

(* Control calls change the shelves and nothing else of the agent's world. *)
LEMMA ShelvesMove ==
  ASSUME RunInvariant, UNCHANGED <<clock, run, late, losses>>,
         shelf' \in [Warehouse -> [Sku -> Entry \cup {Missing}]],
         \A w \in Warehouse, s \in Sku :
           shelf[w][s] # Missing => shelf'[w][s] # Missing
  PROVE  RunInvariant' /\ (Stocked => Stocked')
<1>1. Stocked => Stocked'
  BY DEF Stocked
<1>2. \A s \in Sku : DOMAIN run.obs[s] \subseteq Warehouse
  BY PartialFunctions DEF RunInvariant, SoundRun, WhatWasRead
<1>3. \A s \in Sku : \A w \in DOMAIN run'.obs[s] : shelf'[w][s] # Missing
  BY <1>2 DEF RunInvariant, SoundWorld
<1>4. \A m \in late' : /\ m.to \in Warehouse /\ m.sku \in Sku
                       /\ m.request \in UpdateRequest
                       /\ shelf'[m.to][m.sku] # Missing
  BY DEF RunInvariant, SoundWorld
<1>5. SoundWorld'
  BY <1>3, <1>4 DEF RunInvariant, SoundWorld
<1> QED BY <1>1, <1>5 DEF RunInvariant

(* Nothing the agent knows of changes. *)
LEMMA AgentStands ==
  ASSUME RunInvariant, UNCHANGED <<shelf, clock, run, late>>,
         losses' \in 0..MaxLosses
  PROVE  RunInvariant' /\ Stocked' = Stocked
<1>1. SoundWorld'
  BY WorldStays DEF RunInvariant, SoundWorld
<1> QED BY <1>1 DEF RunInvariant, Stocked

-----------------------------------------------------------------------------
(* The answers *)

LEMMA ObservationKeepsTypes ==
  ASSUME SimTypes, NEW q \in sim.waiting, AnswerObservation(q),
         files' = files
  PROVE  SimTypes'
<1> DEFINE c == Counted(sim, q, 0)
           view == [s \in Sku |-> IF shelf[q.to][s] = Missing THEN c.view[s]
                                  ELSE With(c.view[s], q.to, shelf[q.to][s].rec)]
<1>1. SimInv' /\ SameRound
  BY ObservationIsSound DEF SimTypes
<1>2. /\ Books(c) /\ c.waiting = sim.waiting \ {q}
      /\ c.agentRuns = sim.agentRuns /\ c.baseline = sim.baseline
      /\ c.round = sim.round /\ c.at = sim.at /\ c.pending = sim.pending
  BY CountedKeepsBooks DEF SimTypes
<1>3. sim' = [c EXCEPT !.view = view]
  BY DEF AnswerObservation
<1> HIDE DEF c
<1>4. q.to \in Warehouse
  BY DEF SimTypes, CallsAreSound, SoundCall, ControlCallOK
<1>5. \A s \in Sku : view[s] \in Partial(Record)
  <2> SUFFICES ASSUME NEW s \in Sku PROVE view[s] \in Partial(Record)
    OBVIOUS
  <2>1. c.view[s] \in Partial(Record)
    BY <1>2 DEF Books
  <2>2. CASE shelf[q.to][s] = Missing
    BY <2>1, <2>2
  <2>3. CASE shelf[q.to][s] # Missing
    <3>1. shelf[q.to][s].rec \in Record
      BY <1>4, <2>3 DEF SimTypes, RunInvariant, SoundWorld, Entry
    <3>2. With(c.view[s], q.to, shelf[q.to][s].rec) \in Partial(Record)
      BY <1>4, <2>1, <3>1, WithType
    <3> QED BY <2>3, <3>2
  <2> QED BY <2>2, <2>3
<1>6. DOMAIN view = Sku
  OBVIOUS
<1> HIDE DEF view
<1>7. /\ DOMAIN sim' = SimFields /\ sim'.at = c.at /\ sim'.round = c.round
      /\ sim'.pending = c.pending /\ sim'.results = c.results
      /\ sim'.view = view /\ sim'.baseline = c.baseline
      /\ sim'.control = c.control /\ sim'.cost = c.cost
      /\ sim'.agentRuns = c.agentRuns /\ sim'.waiting = c.waiting
  BY <1>2, <1>3 DEF Books, SimFields
<1>8. Books(sim')
  BY <1>2, <1>5, <1>6, <1>7 DEF Books
<1>9. UNCHANGED <<shelf, clock, run, late, losses, stray>>
  BY DEF AnswerObservation, vars
<1>10. RunInvariant' /\ Stocked' = Stocked
  BY <1>9, AgentStands DEF SimTypes, RunInvariant, SoundWorld
<1>11. RunsAdd(sim')
  <2>1. ToJudge(sim') = ToJudge(sim) /\ sim'.verdict = sim.verdict
    BY <1>1, <1>2, <1>7 DEF ToJudge, SameRound
  <2> QED BY <1>2, <1>7, <2>1, RunsStayAdded DEF SimTypes
<1>12. CallsAreSound' /\ BaselineIsFull'
  BY <1>2, <1>7, <1>9, <1>10 DEF SimTypes, CallsAreSound, BaselineIsFull
<1> QED BY <1>1, <1>8, <1>10, <1>11, <1>12 DEF SimTypes

LEMMA ControlKeepsTypes ==
  ASSUME SimTypes, NEW q \in sim.waiting, AnswerControl(q), files' = files
  PROVE  SimTypes'
<1>1. SimInv' /\ SameRound
  BY ControlIsSound DEF SimTypes
<1>2. sim' = Counted(sim, q, 0) /\ shelf' = ShelfAfter(q)
      /\ UNCHANGED <<clock, run, late, losses, stray>>
      /\ q.call # "observe" /\ Accepted(q)
  BY DEF AnswerControl
<1>3. /\ Books(sim') /\ sim'.waiting = sim.waiting \ {q}
      /\ sim'.agentRuns = sim.agentRuns /\ sim'.baseline = sim.baseline
      /\ sim'.round = sim.round /\ sim'.at = sim.at
      /\ sim'.pending = sim.pending
  BY <1>2, CountedKeepsBooks DEF SimTypes
<1>4. RunInvariant' /\ (Stocked => Stocked')
  <2>1. SoundCall(q) /\ (q.call # "reset" => Stocked)
    BY <1>2 DEF SimTypes, CallsAreSound
  <2>2. /\ ShelfAfter(q) \in [Warehouse -> [Sku -> Entry \cup {Missing}]]
        /\ \A w \in Warehouse, s \in Sku :
             shelf[w][s] # Missing => ShelfAfter(q)[w][s] # Missing
    BY <1>2, <2>1, AcceptedIsSound DEF SimTypes, RunInvariant, SoundWorld
  <2> QED BY <1>2, <2>2, ShelvesMove DEF SimTypes
<1>5. RunsAdd(sim')
  <2>1. ToJudge(sim') = ToJudge(sim) /\ sim'.verdict = sim.verdict
    BY <1>1, <1>3 DEF ToJudge, SameRound
  <2> QED BY <1>3, <2>1, RunsStayAdded DEF SimTypes
<1>6. CallsAreSound' /\ BaselineIsFull'
  BY <1>2, <1>3, <1>4 DEF SimTypes, CallsAreSound, BaselineIsFull
<1> QED BY <1>1, <1>3, <1>4, <1>5, <1>6 DEF SimTypes

(* The end of a simulation that fails keeps the types. *)
LEMMA FailureKeepsTypes ==
  ASSUME SimTypes, SimInv', RunInvariant', Stocked' = Stocked,
         NEW c, Books(c), c.round = sim.round, c.baseline = sim.baseline,
         c.agentRuns \in 0..5, NEW r, sim' = Failed(c, r), files' = files,
         stray' \subseteq stray \cup LeftBehind(sim.waiting)
  PROVE  SimTypes' /\ sim'.at = "ended"
<1>1. /\ Books(sim') /\ sim'.at = "ended" /\ sim'.waiting = {}
      /\ sim'.agentRuns = c.agentRuns /\ sim'.baseline = c.baseline
      /\ sim'.round = c.round
  BY FailedKeepsBooks
<1>2. RunsAdd(sim')
  <2>1. sim'.verdict # "none"
    BY <1>1 DEF SimInv, Booked
  <2> QED BY <1>1, <2>1 DEF RunsAdd
<1>3. CallsAreSound' /\ BaselineIsFull'
  BY <1>1 DEF SimTypes, CallsAreSound, BaselineIsFull, LeftBehind
<1> QED BY <1>1, <1>2, <1>3 DEF SimTypes

LEMMA LostControlKeepsTypes ==
  ASSUME SimTypes, NEW q \in sim.waiting, RejectControl(q) \/ LoseControl(q),
         files' = files
  PROVE  SimTypes'
<1> DEFINE c == Counted(sim, q, 1)
<1>1. SimInv'
  BY FailureIsSound DEF SimTypes
<1>2. /\ Books(c) /\ c.agentRuns = sim.agentRuns
      /\ c.baseline = sim.baseline /\ c.round = sim.round
  BY CountedKeepsBooks DEF SimTypes
<1>3. sim' = Failed(c, run) /\ UNCHANGED <<shelf, clock, run, late>>
      /\ losses' \in 0..MaxLosses
      /\ stray' \subseteq stray \cup LeftBehind(sim.waiting)
  <2>1. losses \in 0..MaxLosses /\ MaxLosses \in Nat
    BY AgentRunAssumption DEF SimTypes, RunInvariant, SoundWorld
  <2> QED BY <2>1 DEF RejectControl, LoseControl, LeftBehind, vars
<1> HIDE DEF c
<1>4. RunInvariant' /\ Stocked' = Stocked
  BY <1>3, AgentStands DEF SimTypes
<1>5. c.agentRuns \in 0..5
  BY <1>2 DEF SimTypes, RunsAdd
<1> QED BY <1>1, <1>2, <1>3, <1>4, <1>5, FailureKeepsTypes

LEMMA StrayKeepsTypes ==
  ASSUME SimTypes, NEW q \in stray, HandleStray(q), files' = files
  PROVE  SimTypes'
<1>1. SimInv'
  BY StrayIsSound DEF SimTypes
<1>2. UNCHANGED <<clock, run, late, losses, sim>> /\ stray' = stray \ {q}
      /\ shelf' = IF Accepted(q) THEN ShelfAfter(q) ELSE shelf
  BY DEF HandleStray
<1>3. RunInvariant' /\ (Stocked => Stocked')
  <2>1. CASE Accepted(q)
    <3>1. SoundCall(q) /\ (q.call # "reset" /\ q.call # "observe" => Stocked)
      BY DEF SimTypes, CallsAreSound
    <3>2. q.call # "observe"
      BY DEF SimTypes, CallsAreSound
    <3>3. /\ ShelfAfter(q) \in [Warehouse -> [Sku -> Entry \cup {Missing}]]
          /\ \A w \in Warehouse, s \in Sku :
               shelf[w][s] # Missing => ShelfAfter(q)[w][s] # Missing
      BY <2>1, <3>1, <3>2, AcceptedIsSound DEF SimTypes, RunInvariant, SoundWorld
    <3> QED BY <1>2, <2>1, <3>3, ShelvesMove DEF SimTypes
  <2>2. CASE ~Accepted(q)
    BY <1>2, <2>2, AgentStands DEF SimTypes, RunInvariant, SoundWorld
  <2> QED BY <2>1, <2>2
<1>4. CallsAreSound' /\ BaselineIsFull'
  BY <1>2, <1>3 DEF SimTypes, CallsAreSound, BaselineIsFull
<1> QED BY <1>1, <1>2, <1>3, <1>4 DEF SimTypes

-----------------------------------------------------------------------------
(* The agent, and the controller between the answers *)

LEMMA AgentKeepsTypes ==
  ASSUME SimTypes, AgentStep \/ AgentFault, files' = files
  PROVE  SimTypes'
<1>1. SimInv'
  BY AgentIsSound DEF SimTypes
<1>2. sim' = sim /\ stray' = stray /\ [Next]_vars
  BY DEF AgentStep, AgentFault, simVars, Next
<1>3. RunInvariant'
  BY <1>2, RunInvariantHolds DEF SimTypes
<1>4. Stocked => Stocked'
  BY <1>2, RunKeepsEntries DEF SimTypes, Stocked
<1>5. CallsAreSound' /\ BaselineIsFull'
  BY <1>2, <1>4 DEF SimTypes, CallsAreSound, BaselineIsFull
<1> QED BY <1>1, <1>2, <1>3, <1>5 DEF SimTypes

(* Waiting for other calls keeps the types if these are sound. *)
LEMMA WaitsKeepsTypes ==
  ASSUME SimTypes, SimInv', RunInvariant', Stocked' = Stocked,
         NEW c, Books(c), c.round = sim.round, c.baseline = sim.baseline,
         NEW at \in Stages, NEW calls, sim' = Waits(c, at, calls),
         RunsAdd(sim'), files' = files, stray' = stray,
         \A q \in calls :
           SoundCall(q) /\ (q.call \in {"reset", "observe"} \/ Stocked)
  PROVE  SimTypes'
<1>1. /\ Books(sim') /\ sim'.waiting = calls
      /\ sim'.baseline = c.baseline /\ sim'.round = c.round
  BY WaitsKeepsBooks
<1>2. CallsAreSound' /\ BaselineIsFull'
  BY <1>1 DEF SimTypes, CallsAreSound, BaselineIsFull
<1> QED BY <1>1, <1>2 DEF SimTypes

LEMMA EmptyCalls ==
  \A q \in Resets \cup Observations :
    SoundCall(q) /\ (q.call \in {"reset", "observe"} \/ Stocked)
BY EmptyCallsAreSound DEF Resets, Observations, Call

LEMMA ResetKeepsTypes ==
  ASSUME SimTypes, ResetAll, files' = files
  PROVE  SimTypes'
<1> DEFINE c == [sim EXCEPT !.resetDone = TRUE]
<1>1. sim.at = "resetting" /\ sim' = Waits(c, "checking", Observations)
      /\ UNCHANGED <<shelf, clock, run, late, losses, stray>>
  BY DEF ResetAll, vars
<1>2. SimInv' /\ SameRound
  BY ResetIsSound DEF SimTypes
<1>3. /\ DOMAIN c = SimFields /\ c.at = sim.at /\ c.round = sim.round
      /\ c.pending = sim.pending /\ c.results = sim.results
      /\ c.view = sim.view /\ c.baseline = sim.baseline
      /\ c.control = sim.control /\ c.cost = sim.cost
      /\ c.agentRuns = sim.agentRuns
  BY DEF SimTypes, Books, SimFields
<1> HIDE DEF c
<1>4. Books(c)
  BY <1>3 DEF SimTypes, Books
<1>5. /\ sim'.agentRuns = c.agentRuns /\ sim'.pending = c.pending
      /\ sim'.at = "checking"
  BY <1>1, <1>4, WaitsKeepsBooks DEF Stages
<1>6. RunsAdd(sim')
  <2>1. ToJudge(sim') = ToJudge(sim) /\ sim'.verdict = sim.verdict
    BY <1>1, <1>2, <1>5 DEF ToJudge, SameRound
  <2> QED BY <1>3, <1>5, <2>1, RunsStayAdded DEF SimTypes
<1>7. RunInvariant' /\ Stocked' = Stocked
  BY <1>1, AgentStands DEF SimTypes, RunInvariant, SoundWorld
<1> QED BY <1>1, <1>2, <1>3, <1>4, <1>6, <1>7, EmptyCalls, WaitsKeepsTypes
        DEF Stages

LEMMA InjectKeepsTypes ==
  ASSUME SimTypes, Inject, files' = files
  PROVE  SimTypes'
<1>1. /\ sim.at \in {"disturbing", "shortening"}
      /\ UNCHANGED <<shelf, clock, run, late, losses, stray>>
      /\ \/ /\ sim.round = "incomplete"
            /\ sim' = Waits(sim, "shortening", SecondCalls(sim.baseline))
         \/ sim' = Waits(sim, "inspecting", Observations)
  BY DEF Inject, vars
<1>2. SimInv' /\ SameRound
  BY InjectIsSound DEF SimTypes
<1>3. sim.round \in Rounds /\ Stocked
      /\ \A s \in Sku : sim.baseline[s] \in [Warehouse -> Record]
  <2>1. sim.round \in Rounds
    BY <1>1 DEF SimTypes, SimInv, Booked
  <2> QED BY <2>1, NoRoundIsNone DEF SimTypes, BaselineIsFull
<1>4. PICK at, calls :
        /\ at \in {"shortening", "inspecting"}
        /\ sim' = Waits(sim, at, calls)
        /\ \A q \in calls :
             SoundCall(q) /\ (q.call \in {"reset", "observe"} \/ Stocked)
  <2>1. CASE sim' = Waits(sim, "inspecting", Observations)
    BY <2>1, EmptyCalls
  <2>2. CASE /\ sim.round = "incomplete"
             /\ sim' = Waits(sim, "shortening", SecondCalls(sim.baseline))
    <3>1. DisturbanceSku["incomplete"] \in Sku /\ "incomplete" \in Rounds
      BY <1>3, <2>2, DisturbedSkus
    <3>2. sim.baseline[DisturbanceSku["incomplete"]] \in [Warehouse -> Record]
      BY <1>3, <3>1
    <3>3. \A q \in SecondCalls(sim.baseline) : SoundCall(q)
      BY <3>1, <3>2, SecondCallsAreSound
    <3> QED BY <1>3, <2>2, <3>3
  <2> QED BY <1>1, <2>1, <2>2
<1>5. /\ sim'.agentRuns = sim.agentRuns /\ sim'.pending = sim.pending
      /\ sim'.at = at /\ sim'.round = sim.round
  BY <1>4, WaitsKeepsBooks DEF SimTypes, Stages
<1>6. RunsAdd(sim')
  <2>1. ToJudge(sim') = ToJudge(sim) /\ sim'.verdict = sim.verdict
    BY <1>1, <1>2, <1>4, <1>5 DEF ToJudge, SameRound
  <2> QED BY <1>5, <2>1, RunsStayAdded DEF SimTypes
<1>7. RunInvariant' /\ Stocked' = Stocked
  BY <1>1, AgentStands DEF SimTypes, RunInvariant, SoundWorld
<1>8. at \in Stages /\ Books(sim)
  BY <1>4 DEF Stages, SimTypes
<1> QED BY <1>1, <1>2, <1>4, <1>6, <1>7, <1>8, WaitsKeepsTypes

(* The agent of a round begins with nothing read. *)
LEMMA AgentBegins ==
  ASSUME RunInvariant, UNCHANGED <<shelf, clock, late, losses>>,
         run' = Observing(3)
  PROVE  RunInvariant' /\ Stocked' = Stocked
<1>1. SoundRun(run')
  BY NewRunIsSound
<1>2. run'.obs = [s \in Sku |-> <<>>] /\ run'.status = "observing"
      /\ run'.waiting = Warehouse \X {NoSku}
  BY DEF Observing, NewRun
<1>3. Catalogued(run')
  BY <1>2 DEF Catalogued
<1>4. DOMAIN <<>> = {}
  OBVIOUS
<1>5. SoundWorld'
  BY <1>2, <1>4, WorldStays DEF RunInvariant, SoundWorld
<1> QED BY <1>1, <1>3, <1>5 DEF RunInvariant, Stocked

LEMMA InspectKeepsTypes ==
  ASSUME SimTypes, Inspect, files' = files
  PROVE  SimTypes'
<1>1. sim.at = "inspecting" /\ UNCHANGED <<shelf, clock, late, losses, stray>>
  BY DEF Inspect
<1>2. SimInv' /\ (SameRound \/ Stopped)
  BY InspectIsSound DEF SimTypes
<1>3. CASE sim' = Waits(sim, "running", {}) /\ run' = Observing(3)
  <2>1. RunInvariant' /\ Stocked' = Stocked
    BY <1>1, <1>3, AgentBegins DEF SimTypes
  <2>2. /\ sim'.agentRuns = sim.agentRuns /\ sim'.pending = sim.pending
        /\ sim'.at = "running" /\ sim'.round = sim.round
    BY <1>3, WaitsKeepsBooks DEF SimTypes, Stages
  <2>3. RunsAdd(sim')
    <3>1. ToJudge(sim') = ToJudge(sim)
      BY <1>1, <2>2 DEF ToJudge
    <3>2. sim'.verdict = "none" => sim.verdict = "none"
      BY <1>2 DEF SameRound, Stopped
    <3> QED BY <2>2, <3>1, <3>2, RunsStayAdded DEF SimTypes
  <2>4. "running" \in Stages /\ Books(sim)
    BY DEF Stages, SimTypes
  <2> QED BY <1>1, <1>2, <1>3, <2>1, <2>3, <2>4, WaitsKeepsTypes
<1>4. CASE sim' = Failed(sim, run) /\ run' = run
  <2>1. RunInvariant' /\ Stocked' = Stocked
    BY <1>1, <1>4, AgentStands DEF SimTypes, RunInvariant, SoundWorld
  <2>2. Books(sim) /\ sim.agentRuns \in 0..5
    BY DEF SimTypes, RunsAdd
  <2> QED BY <1>1, <1>2, <1>4, <2>1, <2>2, FailureKeepsTypes
<1> QED BY <1>3, <1>4 DEF Inspect

LEMMA JudgeKeepsTypes ==
  ASSUME SimTypes, Judge, files' = files
  PROVE  SimTypes' /\ sim'.at \in {"ended", "resetting", "checking"}
<1> DEFINE cost == [p \in Purposes |->
                      sim.cost[p] + Cardinality({c \in run.calls : c.purpose = p})]
           d == [sim EXCEPT !.agentRuns = sim.agentRuns + 1, !.cost = cost]
<1>1. /\ sim.at = "running"
      /\ UNCHANGED <<shelf, clock, run, late, losses, stray>>
      /\ \/ sim' = Failed(d, run)
         \/ sim' = Waits(d, "resetting", Resets)
         \/ sim' = Waits(d, "checking", Observations)
  BY DEF Judge, vars
<1>2. SimInv' /\ (SameRound \/ Stopped)
  BY JudgeIsSound DEF SimTypes
<1>3. cost \in [Purposes -> Nat]
  <2>1. \A p \in Purposes : Cardinality({c \in run.calls : c.purpose = p}) \in Nat
    <3> SUFFICES ASSUME NEW p \in Purposes
                 PROVE  Cardinality({c \in run.calls : c.purpose = p}) \in Nat
      OBVIOUS
    <3>1. IsFiniteSet(run.calls)
      BY DEF SimTypes, SimInv, Quiet, Orderly
    <3>2. IsFiniteSet({c \in run.calls : c.purpose = p})
      BY <3>1, FS_Subset
    <3> QED BY <3>2, FS_CardinalityType
  <2>2. sim.cost \in [Purposes -> Nat]
    BY DEF SimTypes, Books
  <2> HIDE DEF SimTypes
  <2> QED BY <2>1, <2>2
<1> HIDE DEF cost
<1>4. /\ DOMAIN d = SimFields /\ d.at = sim.at /\ d.round = sim.round
      /\ d.pending = sim.pending /\ d.results = sim.results
      /\ d.view = sim.view /\ d.baseline = sim.baseline
      /\ d.control = sim.control /\ d.cost = cost
      /\ d.agentRuns = sim.agentRuns + 1
  BY DEF SimTypes, Books, SimFields
<1> HIDE DEF d
<1>5. Books(d)
  BY <1>3, <1>4 DEF SimTypes, Books
<1>6. /\ sim.verdict = "none" /\ sim.round \in Rounds
      /\ sim.pending \subseteq Rounds \ {sim.round}
  BY <1>1 DEF SimTypes, SimInv, Booked, Books
<1>7. RunsAdd([sim EXCEPT !.verdict = "FAIL", !.agentRuns = sim.agentRuns + 1])
  <2> DEFINE e == [sim EXCEPT !.verdict = "FAIL",
                              !.agentRuns = sim.agentRuns + 1]
  <2>1. e.verdict = "FAIL" /\ e.agentRuns = sim.agentRuns + 1
    BY DEF SimTypes, Books, SimFields
  <2> HIDE DEF e
  <2>2. RunsAdd(e)
    BY <1>1, <1>6, <2>1, OneMoreRun DEF SimTypes
  <2> QED BY <2>2 DEF e
<1>8. d.agentRuns \in 0..5
  <2>1. [sim EXCEPT !.verdict = "FAIL",
                    !.agentRuns = sim.agentRuns + 1].agentRuns = sim.agentRuns + 1
    BY DEF SimTypes, Books, SimFields
  <2> QED BY <1>4, <1>7, <2>1 DEF RunsAdd
<1>9. RunInvariant' /\ Stocked' = Stocked
  BY <1>1, AgentStands DEF SimTypes, RunInvariant, SoundWorld
<1>10. CASE sim' = Failed(d, run)
  BY <1>1, <1>2, <1>4, <1>5, <1>8, <1>9, <1>10, FailureKeepsTypes
<1>11. ASSUME NEW at \in {"resetting", "checking"},
              NEW calls \in {Resets, Observations},
              sim' = Waits(d, at, calls)
       PROVE  SimTypes' /\ sim'.at = at
  <2>1. /\ sim'.agentRuns = sim.agentRuns + 1 /\ sim'.pending = sim.pending
        /\ sim'.at = at
    BY <1>4, <1>5, <1>11, WaitsKeepsBooks DEF Stages
  <2>2. ToJudge(sim') = {}
    BY <2>1 DEF ToJudge
  <2>3. RunsAdd(sim')
    BY <1>1, <1>6, <2>1, <2>2, OneMoreRun DEF SimTypes
  <2>4. at \in Stages
    BY DEF Stages
  <2>5. \A q \in calls :
          SoundCall(q) /\ (q.call \in {"reset", "observe"} \/ Stocked)
    BY EmptyCalls
  <2> QED BY <1>1, <1>2, <1>4, <1>5, <1>9, <1>11, <2>1, <2>3, <2>4, <2>5,
             WaitsKeepsTypes
<1> QED BY <1>1, <1>10, <1>11

-----------------------------------------------------------------------------
(* The clean check *)

(* Where no SKU is missing everything is seen. *)
LEMMA StockedIsSeen ==
  ASSUME SimTypes, Stocked, NEW s \in Sku
  PROVE  ViewOf(shelf)[s] \in [Warehouse -> Record]
<1>1. \A w \in Warehouse : shelf[w][s].rec \in Record
  BY DEF Stocked, SimTypes, RunInvariant, SoundWorld, Entry
<1>2. {v \in Warehouse : shelf[v][s] # Missing} = Warehouse
  BY DEF Stocked
<1>3. ViewOf(shelf)[s] = [w \in Warehouse |-> shelf[w][s].rec]
  BY <1>2 DEF ViewOf
<1> QED BY <1>1, <1>3

LEMMA CleanIsFull ==
  ASSUME SimTypes, Clean(ViewOf(shelf))
  PROVE  /\ Stocked
         /\ \A s \in Sku : ViewOf(shelf)[s] \in [Warehouse -> Record]
<1>1. Stocked
  BY CleanIsComplete DEF Stocked
<1> QED BY <1>1, StockedIsSeen

(* A round begins with a request for each of its calls. *)
RoundBegins ==
  sim'.at # "ended" =>
    /\ sim'.at = "disturbing"
    /\ Clean(ViewOf(shelf)) /\ sim'.baseline = ViewOf(shelf)
    /\ sim'.waiting = FirstCalls(sim'.round, sim'.baseline)
    /\ Requestable(sim'.round, sim'.baseline)

(* Beginning the round "kind" when "c" has the results of the rounds over  *)
LEMMA StartKeepsTypes ==
  ASSUME SimTypes, SimInv', UNCHANGED <<shelf, clock, run, late, losses, stray>>,
         files' = files, sim.at = "checking", Clean(ViewOf(shelf)),
         NEW c, Books(c), c.baseline = ViewOf(shelf),
         c.pending = sim.pending, c.agentRuns = sim.agentRuns,
         NEW kind \in sim.pending, kind \in Rounds, sim' = Started(c, kind)
  PROVE  SimTypes' /\ RoundBegins
<1>1. /\ Books(sim') /\ sim'.agentRuns = c.agentRuns
      /\ sim'.baseline = c.baseline /\ sim'.round = kind
      /\ \/ /\ sim'.at = "disturbing" /\ sim'.pending = c.pending \ {kind}
            /\ sim'.waiting = FirstCalls(kind, c.baseline)
            /\ Requestable(kind, c.baseline)
         \/ sim'.at = "ended" /\ sim'.waiting = {}
  BY StartedKeepsBooks
<1>2. RunInvariant' /\ Stocked' = Stocked
  BY AgentStands DEF SimTypes, RunInvariant, SoundWorld
<1>3. Stocked /\ \A s \in Sku : c.baseline[s] \in [Warehouse -> Record]
  BY CleanIsFull
<1>4. BaselineIsFull'
  BY <1>1, <1>2, <1>3 DEF BaselineIsFull
<1>5. \A q \in sim'.waiting : SoundCall(q)
  <2>1. DisturbanceSku[kind] \in Sku
    BY DisturbedSkus
  <2>2. c.baseline[DisturbanceSku[kind]] \in [Warehouse -> Record]
    BY <1>3, <2>1
  <2> QED BY <1>1, <2>2, FirstCallsAreSound
<1>6. CallsAreSound'
  BY <1>2, <1>3, <1>5 DEF SimTypes, CallsAreSound
<1>7. RunsAdd(sim')
  <2>1. ASSUME sim'.verdict = "none"
        PROVE  /\ sim.verdict = "none"
               /\ sim'.pending \cup ToJudge(sim') = sim.pending \cup ToJudge(sim)
    <3>1. sim'.at = "disturbing"
      BY <1>1, <2>1 DEF SimInv, Booked
    <3>2. ToJudge(sim') = {kind} /\ ToJudge(sim) = {}
      BY <1>1, <3>1 DEF ToJudge
    <3>3. sim.verdict = "none"
      BY DEF SimTypes, SimInv, Booked
    <3> QED BY <1>1, <3>1, <3>2, <3>3
  <2> QED BY <1>1, <2>1, RunsStayAdded DEF SimTypes
<1>8. RoundBegins
  BY <1>1 DEF RoundBegins
<1> QED BY <1>1, <1>2, <1>4, <1>6, <1>7, <1>8 DEF SimTypes

LEMMA CheckKeepsTypes ==
  ASSUME SimTypes, Check, files' = files
  PROVE  SimTypes' /\ RoundBegins
<1> DEFINE c == [sim EXCEPT !.baseline = sim.view]
           results == With(c.results, sim.round, Result("PASS", run, TRUE))
           d == [c EXCEPT !.results = results]
<1>1. /\ sim.at = "checking" /\ sim.waiting = {}
      /\ UNCHANGED <<shelf, clock, run, late, losses, stray>>
  BY DEF Check, vars
<1>2. SimInv'
  BY CheckIsSound DEF SimTypes
<1>3. /\ sim.verdict = "none" /\ RoundsAdd(sim) /\ sim.view = ViewOf(shelf)
  BY <1>1, EverythingSeen DEF SimTypes, SimInv, Booked
<1>4. \/ sim' = Failed(c, run)
      \/ /\ sim.round = NoRound /\ Clean(sim.view)
         /\ \E kind \in Rounds : sim' = Started(c, kind)
      \/ /\ sim.round # NoRound /\ Clean(sim.view)
         /\ IF sim.pending = {} THEN sim' = Ended(d, "PASS")
            ELSE \E kind \in sim.pending : sim' = Started(d, kind)
  BY DEF Check, Passes
<1>5. /\ DOMAIN c = SimFields /\ c.at = sim.at /\ c.round = sim.round
      /\ c.pending = sim.pending /\ c.results = sim.results
      /\ c.view = sim.view /\ c.baseline = sim.view
      /\ c.control = sim.control /\ c.cost = sim.cost
      /\ c.agentRuns = sim.agentRuns
  BY DEF SimTypes, Books, SimFields
<1>6. DOMAIN results = DOMAIN c.results \cup {sim.round}
  BY DEF With
<1> HIDE DEF c, results
<1>7. /\ DOMAIN d = SimFields /\ d.at = sim.at /\ d.round = sim.round
      /\ d.pending = sim.pending /\ d.results = results
      /\ d.view = sim.view /\ d.baseline = sim.view
      /\ d.control = sim.control /\ d.cost = sim.cost
      /\ d.agentRuns = sim.agentRuns
  BY <1>5 DEF SimFields
<1> HIDE DEF d
<1>8. Books(c)
  BY <1>5 DEF SimTypes, Books
<1>9. sim.round # NoRound => Books(d)
  BY <1>5, <1>6, <1>7 DEF SimTypes, Books
<1>10. CASE sim' = Failed(c, run)
  <2>1. /\ Books(sim') /\ sim'.at = "ended" /\ sim'.waiting = {}
        /\ sim'.agentRuns = c.agentRuns /\ sim'.baseline = c.baseline
        /\ sim'.round = c.round
    BY <1>8, <1>10, FailedKeepsBooks
  <2>2. RunInvariant' /\ Stocked' = Stocked
    BY <1>1, AgentStands DEF SimTypes, RunInvariant, SoundWorld
  <2>3. RunsAdd(sim')
    <3>1. sim'.verdict # "none"
      BY <1>2, <2>1 DEF SimInv, Booked
    <3> QED BY <1>5, <2>1, <3>1 DEF SimTypes, RunsAdd
  <2>4. CallsAreSound'
    BY <1>1, <2>1, <2>2 DEF SimTypes, CallsAreSound
  <2>5. BaselineIsFull'
    <3> SUFFICES ASSUME sim.round # NoRound PROVE BaselineIsFull'
      BY <1>5, <2>1 DEF BaselineIsFull
    <3>1. Stocked
      BY DEF SimTypes, BaselineIsFull
    <3>2. \A s \in Sku : sim.view[s] \in [Warehouse -> Record]
      BY <1>3, <3>1, StockedIsSeen
    <3> QED BY <1>5, <2>1, <2>2, <3>1, <3>2 DEF BaselineIsFull
  <2> QED BY <1>2, <2>1, <2>2, <2>3, <2>4, <2>5 DEF SimTypes, RoundBegins
<1>11. ASSUME sim.round = NoRound, Clean(sim.view),
              NEW kind \in Rounds, sim' = Started(c, kind)
       PROVE  SimTypes' /\ RoundBegins
  <2>1. sim.pending = Rounds
    BY <1>3, <1>11 DEF RoundsAdd
  <2> QED BY <1>1, <1>2, <1>3, <1>5, <1>8, <1>11, <2>1, StartKeepsTypes
<1>12. ASSUME sim.round # NoRound, Clean(sim.view),
              NEW kind \in sim.pending, sim' = Started(d, kind)
       PROVE  SimTypes' /\ RoundBegins
  <2>1. kind \in Rounds
    BY <1>3 DEF RoundsAdd
  <2> QED BY <1>1, <1>2, <1>3, <1>7, <1>9, <1>12, <2>1, StartKeepsTypes
<1>13. ASSUME sim.round # NoRound, sim' = Ended(d, "PASS")
       PROVE  SimTypes' /\ RoundBegins
  <2>1. /\ Books(sim') /\ sim'.at = "ended" /\ sim'.waiting = {}
        /\ sim'.agentRuns = sim.agentRuns /\ sim'.round = NoRound
    BY <1>7, <1>9, <1>13, EndedKeepsBooks
  <2>2. RunInvariant' /\ Stocked' = Stocked
    BY <1>1, AgentStands DEF SimTypes, RunInvariant, SoundWorld
  <2>3. RunsAdd(sim')
    <3>1. sim'.verdict # "none"
      BY <1>2, <2>1 DEF SimInv, Booked
    <3> QED BY <2>1, <3>1 DEF SimTypes, RunsAdd
  <2>4. CallsAreSound' /\ BaselineIsFull'
    BY <1>1, <2>1, <2>2 DEF SimTypes, CallsAreSound, BaselineIsFull
  <2> QED BY <1>2, <2>1, <2>2, <2>3, <2>4 DEF SimTypes, RoundBegins
<1> QED BY <1>4, <1>10, <1>11, <1>12, <1>13

-----------------------------------------------------------------------------
LEMMA InitiallyTyped == SimInit => SimTypes
<1> SUFFICES ASSUME SimInit PROVE SimTypes
  OBVIOUS
<1>1. SimInv /\ RunInvariant
  BY InitiallySound, RunInvariantHolds DEF SimInit
<1>2. sim = NewSim /\ stray = {} /\ files \in [Sku -> Entry]
  BY SimulationAssumption DEF SimInit
<1>3. /\ DOMAIN sim = SimFields /\ sim.at = "resetting"
      /\ sim.waiting = Resets /\ sim.round = NoRound
      /\ sim.pending = Rounds /\ sim.view = NoView
      /\ sim.baseline = NoView /\ sim.results = <<>>
      /\ sim.control = NoControlCost /\ sim.agentRuns = 0
      /\ sim.cost = [p \in Purposes |-> 0]
  BY <1>2 DEF NewSim, SimFields
<1>4. NoControlCost \in [DOMAIN NoControlCost -> Nat]
  BY DEF NoControlCost
<1>5. DOMAIN sim.results = {}
  BY <1>3
<1>6. Books(sim)
  BY <1>3, <1>4, <1>5, NothingInView, NoRoundIsNone DEF Books, Stages
<1>7. RunsAdd(sim)
  <2>1. Rounds \ (sim.pending \cup ToJudge(sim)) = {}
    BY <1>3
  <2>2. Cardinality({}) = 0
    BY FS_EmptySet
  <2>3. sim.agentRuns = 0
    BY <1>3
  <2>4. Cardinality(Rounds \ (sim.pending \cup ToJudge(sim))) = 0
    BY <2>1, <2>2
  <2> QED BY <2>3, <2>4 DEF RunsAdd
<1>8. CallsAreSound /\ BaselineIsFull
  BY <1>2, <1>3, EmptyCalls DEF CallsAreSound, BaselineIsFull
<1> QED BY <1>1, <1>2, <1>6, <1>7, <1>8 DEF SimTypes

LEMMA TypesAreKept ==
  ASSUME SimTypes, [SimNext]_allVars
  PROVE  SimTypes'
<1>1. CASE SimStep
  <2>1. CASE \E q \in sim.waiting : \/ AnswerObservation(q)
                                    \/ AnswerControl(q)
                                    \/ RejectControl(q)
    BY <1>1, <2>1, ObservationKeepsTypes, ControlKeepsTypes,
       LostControlKeepsTypes DEF SimStep
  <2>2. CASE ResetAll \/ Inject
    BY <1>1, <2>2, ResetKeepsTypes, InjectKeepsTypes DEF SimStep
  <2>3. CASE Inspect \/ Judge
    BY <1>1, <2>3, InspectKeepsTypes, JudgeKeepsTypes DEF SimStep
  <2>4. CASE Check
    BY <1>1, <2>4, CheckKeepsTypes DEF SimStep
  <2> QED BY <1>1, <2>1, <2>2, <2>3, <2>4 DEF SimStep
<1>2. CASE SimFault
  BY <1>2, LostControlKeepsTypes, StrayKeepsTypes DEF SimFault
<1>3. CASE AgentStep \/ AgentFault
  <2>1. files' = files
    BY <1>3 DEF AgentStep, AgentFault, simVars
  <2> QED BY <1>3, <2>1, AgentKeepsTypes
<1>4. CASE SimTerminated \/ UNCHANGED allVars
  <2>1. UNCHANGED <<shelf, clock, run, late, losses, sim, stray, files>>
    BY <1>4 DEF SimTerminated, allVars, vars, simVars
  <2>2. SimInv'
    BY StepsAreSound DEF SimTypes
  <2>3. RunInvariant' /\ Stocked' = Stocked
    BY <2>1, AgentStands DEF SimTypes, RunInvariant, SoundWorld
  <2>4. CallsAreSound' /\ BaselineIsFull'
    BY <2>1, <2>3 DEF SimTypes, CallsAreSound, BaselineIsFull
  <2> QED BY <2>1, <2>2, <2>3, <2>4 DEF SimTypes
<1> QED BY <1>1, <1>2, <1>3, <1>4 DEF SimNext

LEMMA SimTypesHold == SimSpec => []SimTypes
BY InitiallyTyped, TypesAreKept, PTL DEF SimSpec

(* The controller, the agent, the warehouses and every call under way have *)
(* their types at all times: in particular every request the controller    *)
(* makes is one its warehouse accepts as well formed (models.py, client.py,*)
(* disturbances.py:31-120).                                                *)
THEOREM SimulationTypeCorrect == SimSpec => []SimTypeOK
BY SimTypesHold, SimTypesAreTypes, PTL

-----------------------------------------------------------------------------
(* What the calls of a disturbance do *)

MovedEvents(kind, w) == Moves[kind][w][1]
MovedStock(kind, w) == Moves[kind][w][2]

LEMMA MovesOf ==
  /\ \A w \in {1, 3} : MovedEvents("stale", w) = 1 /\ MovedStock("stale", w) = 20
  /\ MovedEvents("newer", 3) = 1 /\ MovedStock("newer", 3) = 15
  /\ MovedEvents("corruption", 3) = 0 /\ MovedStock("corruption", 3) = -5
  /\ MovedEvents("incomplete", 3) = 1 /\ MovedStock("incomplete", 3) = 10
  /\ MovedEvents("branches", 2) = 1 /\ MovedStock("branches", 2) = -10
  /\ MovedEvents("branches", 3) = 1 /\ MovedStock("branches", 3) = 10
BY DEF Moves, MovedEvents, MovedStock

LEMMA NoMovesOf ==
  /\ MovedEvents("stale", 2) = 0 /\ MovedStock("stale", 2) = 0
  /\ \A kind \in {"newer", "corruption", "incomplete"}, w \in {1, 2} :
       MovedEvents(kind, w) = 0 /\ MovedStock(kind, w) = 0
  /\ MovedEvents("branches", 1) = 0 /\ MovedStock("branches", 1) = 0
BY DEF Moves, MovedEvents, MovedStock

(* A call of the first gather() moves what Moves says of its warehouse. *)
MovesAsTold(kind, view, q) ==
  LET s == DisturbanceSku[kind]
  IN  /\ q.sku = s
      /\ \/ /\ q.call = "event" /\ MovedEvents(kind, q.to) = 1
            /\ q.body.event.delta = MovedStock(kind, q.to)
         \/ /\ q.call = "corrupt" /\ MovedEvents(kind, q.to) = 0
            /\ q.body.on_hand =
                 view[s][1].inventory.on_hand + MovedStock(kind, q.to)

LEMMA EventCallMoves ==
  ASSUME NEW kind, NEW view, NEW w, NEW base, NEW id, NEW delta, NEW minute,
         MovedEvents(kind, w) = 1, MovedStock(kind, w) = delta,
         NEW q, q = EventCall(w, DisturbanceSku[kind], base, id, delta, minute)
  PROVE  MovesAsTold(kind, view, q) /\ q.to = w
<1>1. q.call = "event" /\ q.to = w /\ q.sku = DisturbanceSku[kind]
      /\ q.body.event.delta = delta
  BY DEF EventCall, Call
<1> QED BY <1>1 DEF MovesAsTold

(* Each warehouse is asked once or, if it is to move nothing, not at all.  *)
LEMMA FirstCallsMove ==
  ASSUME NEW kind \in Rounds, NEW view,
         view[DisturbanceSku[kind]] \in [Warehouse -> Record]
  PROVE  /\ \A q \in FirstCalls(kind, view) : MovesAsTold(kind, view, q)
         /\ \A p, q \in FirstCalls(kind, view) : p.to = q.to => p = q
         /\ \A w \in Warehouse :
              (\A q \in FirstCalls(kind, view) : q.to # w) =>
                MovedEvents(kind, w) = 0 /\ MovedStock(kind, w) = 0
<1> DEFINE s == DisturbanceSku[kind]
           base == view[s][1]
           calls == FirstCalls(kind, view)
<1>1. Warehouse = 1..3 /\ kind \in Disturbances
  BY SimulationAssumption, DisturbedSkus
<1> SUFFICES /\ \A q \in calls : MovesAsTold(kind, view, q)
             /\ \A p, q \in calls : p.to = q.to => p = q
             /\ \A w \in 1..3 :
                  (\A q \in calls : q.to # w) =>
                    MovedEvents(kind, w) = 0 /\ MovedStock(kind, w) = 0
  BY <1>1
<1>2. CASE kind = "stale"
  <2> DEFINE a == EventCall(1, s, base, 1, 20, 1)
             b == EventCall(3, s, base, 1, 20, 1)
  <2>1. calls = {a, b}
    BY <1>2 DEF FirstCalls
  <2>2. MovesAsTold(kind, view, a) /\ a.to = 1
    <3>1. MovedEvents(kind, 1) = 1 /\ MovedStock(kind, 1) = 20
      BY <1>2, MovesOf
    <3> HIDE DEF base
    <3> QED BY <3>1, EventCallMoves
  <2>3. MovesAsTold(kind, view, b) /\ b.to = 3
    <3>1. MovedEvents(kind, 3) = 1 /\ MovedStock(kind, 3) = 20
      BY <1>2, MovesOf
    <3> HIDE DEF base
    <3> QED BY <3>1, EventCallMoves
  <2> HIDE DEF a, b, calls
  <2> QED BY <1>2, <2>1, <2>2, <2>3, NoMovesOf
<1>3. CASE kind \in {"newer", "incomplete"}
  <2> DEFINE a == IF kind = "newer" THEN EventCall(3, s, base, 2, 15, 2)
                  ELSE EventCall(3, s, base, 4, 10, 4)
  <2>1. calls = {a}
    BY <1>3 DEF FirstCalls
  <2>2. MovesAsTold(kind, view, a) /\ a.to = 3
    <3> HIDE DEF base
    <3>1. CASE kind = "newer"
      <4>1. a = EventCall(3, s, base, 2, 15, 2)
        BY <3>1
      <4> HIDE DEF a
      <4> QED BY <3>1, <4>1, MovesOf, EventCallMoves
    <3>2. CASE kind = "incomplete"
      <4>1. a = EventCall(3, s, base, 4, 10, 4)
        BY <3>2
      <4> HIDE DEF a
      <4> QED BY <3>2, <4>1, MovesOf, EventCallMoves
    <3> QED BY <1>3, <3>1, <3>2
  <2> HIDE DEF a, calls
  <2> QED BY <1>3, <2>1, <2>2, NoMovesOf
<1>4. CASE kind = "corruption"
  <2> DEFINE a == Call("corrupt", 3, s, [expected |-> base.version,
                                         on_hand |-> base.inventory.on_hand - 5])
  <2>1. calls = {a}
    BY <1>4 DEF FirstCalls
  <2>2. a.to = 3 /\ a.call = "corrupt" /\ a.sku = s
        /\ a.body.on_hand = base.inventory.on_hand - 5
    BY DEF Call
  <2>3. base.inventory.on_hand \in Int
    BY <1>1 DEF Record, Inventory
  <2>4. MovesAsTold(kind, view, a)
    <3>1. MovedEvents(kind, 3) = 0 /\ MovedStock(kind, 3) = -5
      BY <1>4, MovesOf
    <3>2. a.body.on_hand = base.inventory.on_hand + MovedStock(kind, 3)
      <4> HIDE DEF a, base
      <4> QED BY <2>2, <2>3, <3>1
    <3> HIDE DEF a
    <3> QED BY <2>2, <3>1, <3>2 DEF MovesAsTold
  <2> HIDE DEF a, calls
  <2> QED BY <1>4, <2>1, <2>2, <2>4, NoMovesOf
<1>5. CASE kind = "branches"
  <2> DEFINE a == EventCall(2, s, base, 5, -10, 5)
             b == EventCall(3, s, base, 6, 10, 5)
  <2>1. calls = {a, b}
    BY <1>5 DEF FirstCalls
  <2>2. MovesAsTold(kind, view, a) /\ a.to = 2
    <3>1. MovedEvents(kind, 2) = 1 /\ MovedStock(kind, 2) = -10
      BY <1>5, MovesOf
    <3> HIDE DEF base
    <3> QED BY <3>1, EventCallMoves
  <2>3. MovesAsTold(kind, view, b) /\ b.to = 3
    <3>1. MovedEvents(kind, 3) = 1 /\ MovedStock(kind, 3) = 10
      BY <1>5, MovesOf
    <3> HIDE DEF base
    <3> QED BY <3>1, EventCallMoves
  <2> HIDE DEF a, b, calls
  <2> QED BY <1>5, <2>1, <2>2, <2>3, NoMovesOf
<1> QED BY <1>1, <1>2, <1>3, <1>4, <1>5 DEF Disturbances

-----------------------------------------------------------------------------
(* How far a disturbance has come *)

ToDisturb == DisturbanceSku[sim.round]

(* The warehouse has what the disturbance is to make of its baseline. *)
Moved(w) ==
  LET now == shelf[w][ToDisturb].rec
      base == sim.baseline[ToDisturb][w]
  IN  /\ now.cursor = base.cursor + MovedEvents(sim.round, w)
      /\ now.inventory.on_hand =
           base.inventory.on_hand + MovedStock(sim.round, w)

Shortened == ~shelf[3][DisturbanceSku["incomplete"]].hist[1].opening

Disturbing ==
  /\ Requestable(sim.round, sim.baseline)
  /\ sim.waiting \subseteq FirstCalls(sim.round, sim.baseline)
  /\ \A w \in Warehouse :
       IF \E q \in sim.waiting : q.to = w
       THEN shelf[w][ToDisturb].rec = sim.baseline[ToDisturb][w]
       ELSE Moved(w)

Shortening ==
  /\ sim.round = "incomplete" /\ sim.waiting \subseteq SecondCalls(sim.baseline)
  /\ sim.waiting = {} => Shortened
  /\ \A w \in Warehouse : Moved(w)

Inspecting ==
  /\ sim.waiting \subseteq Observations
  /\ sim.round = "incomplete" => Shortened
  /\ \A w \in Warehouse : Moved(w)

Disturbed ==
  /\ sim.at = "disturbing" => Disturbing
  /\ sim.at = "shortening" => Shortening
  /\ sim.at = "inspecting" => Inspecting

LEMMA FirstCallsAreWrites ==
  ASSUME NEW kind \in Rounds, NEW view,
         view[DisturbanceSku[kind]] \in [Warehouse -> Record],
         NEW q \in FirstCalls(kind, view)
  PROVE  q.call \in {"event", "corrupt"}
BY FirstCallsMove DEF MovesAsTold

LEMMA SecondCallsAreWrites ==
  ASSUME NEW view, NEW q \in SecondCalls(view)
  PROVE  q.call = "history" /\ q.to = 3
BY DEF SecondCalls, Call

(* A round in preparation has a full baseline. *)
LEMMA PreparedRounds ==
  ASSUME SimTypes, sim.at \in {"disturbing", "shortening", "inspecting"}
  PROVE  /\ sim.round \in Rounds /\ ToDisturb \in Sku /\ Stocked
         /\ \A s \in Sku : sim.baseline[s] \in [Warehouse -> Record]
<1>1. sim.round \in Rounds
  BY DEF SimTypes, SimInv, Booked
<1> QED BY <1>1, NoRoundIsNone, DisturbedSkus DEF SimTypes, BaselineIsFull, ToDisturb

(* Nothing moves. *)
LEMMA DisturbedStays ==
  ASSUME Disturbed, shelf' = shelf, sim'.at = sim.at, sim'.round = sim.round,
         sim'.baseline = sim.baseline, sim'.waiting = sim.waiting
  PROVE  Disturbed'
BY DEF Disturbed, Disturbing, Shortening, Inspecting, Shortened, Moved, ToDisturb

LEMMA StoppedIsDisturbed ==
  ASSUME sim'.at \notin {"disturbing", "shortening", "inspecting"}
  PROVE  Disturbed'
BY DEF Disturbed

-----------------------------------------------------------------------------
(* Every step leaves a disturbance as far as it says. *)

(* One call of the first gather() does its part. *)
LEMMA FirstCallMoves ==
  ASSUME SimTypes, sim.at = "disturbing", Disturbing,
         NEW q \in sim.waiting, AnswerControl(q),
         sim'.round = sim.round, sim'.baseline = sim.baseline,
         sim'.waiting = sim.waiting \ {q}
  PROVE  Disturbing'
<1> DEFINE calls == FirstCalls(sim.round, sim.baseline)
           base == sim.baseline[ToDisturb]
<1>1. /\ sim.round \in Rounds /\ ToDisturb \in Sku /\ Stocked
      /\ base \in [Warehouse -> Record]
  BY PreparedRounds
<1>2. /\ \A p \in calls : MovesAsTold(sim.round, sim.baseline, p)
      /\ \A p, r \in calls : p.to = r.to => p = r
  BY <1>1, FirstCallsMove DEF ToDisturb
<1>3. sim.waiting \subseteq calls /\ Requestable(sim.round, sim.baseline)
  BY DEF Disturbing
<1> HIDE DEF calls
<1>4. MovesAsTold(sim.round, sim.baseline, q) /\ SoundCall(q)
  BY <1>2, <1>3 DEF SimTypes, CallsAreSound
<1>5. q.sku = ToDisturb /\ q.call \in {"event", "corrupt"}
  BY <1>4 DEF MovesAsTold, ToDisturb
<1>6. shelf' = ShelfAfter(q) /\ Accepted(q)
  BY DEF AnswerControl
<1>7. q.to \in Warehouse
  BY <1>4 DEF SoundCall, ControlCallOK
<1>8. PICK after \in Entry :
        /\ ChangesOne(q, after)
        /\ q.call = "event" =>
             /\ after.rec.cursor = shelf[q.to][q.sku].rec.cursor + 1
             /\ after.rec.inventory.on_hand =
                  shelf[q.to][q.sku].rec.inventory.on_hand + q.body.event.delta
        /\ q.call = "corrupt" =>
             /\ after.rec.cursor = shelf[q.to][q.sku].rec.cursor
             /\ after.rec.inventory.on_hand = q.body.on_hand
  BY <1>1, <1>4, <1>5, <1>6, CallsChangeOne DEF SimTypes, RunInvariant, SoundWorld
<1>9. shelf[q.to][ToDisturb].rec = base[q.to]
  BY <1>7 DEF Disturbing
<1>10. /\ base[q.to].cursor \in Int /\ base[q.to].inventory.on_hand \in Int
       /\ base[1].inventory = base[q.to].inventory
  <2>1. 1 \in Warehouse
    BY SimulationAssumption
  <2>2. base[1].inventory = base[q.to].inventory
    BY <1>3, <1>7, <2>1 DEF Requestable, Shared, ToDisturb
  <2>3. base[q.to] \in Record
    BY <1>1, <1>7
  <2> HIDE DEF base
  <2> QED BY <2>2, <2>3 DEF Record, Inventory
<1>11. /\ after.rec.cursor = base[q.to].cursor + MovedEvents(sim.round, q.to)
       /\ after.rec.inventory.on_hand =
            base[q.to].inventory.on_hand + MovedStock(sim.round, q.to)
  <2>1. CASE q.call = "event"
    <3>1. /\ MovedEvents(sim.round, q.to) = 1
          /\ q.body.event.delta = MovedStock(sim.round, q.to)
      BY <1>4, <2>1 DEF MovesAsTold
    <3> HIDE DEF base
    <3> QED BY <1>5, <1>8, <1>9, <2>1, <3>1
  <2>2. CASE q.call = "corrupt"
    <3>1. /\ MovedEvents(sim.round, q.to) = 0
          /\ q.body.on_hand = base[1].inventory.on_hand + MovedStock(sim.round, q.to)
      BY <1>4, <2>2 DEF MovesAsTold, ToDisturb
    <3> HIDE DEF base
    <3> QED BY <1>5, <1>8, <1>9, <1>10, <2>2, <3>1
  <2> QED BY <1>5, <2>1, <2>2
<1>12. ToDisturb' = ToDisturb
  BY DEF ToDisturb
<1>13. Moved(q.to)'
  <2>1. shelf'[q.to][ToDisturb] = after
    BY <1>5, <1>6, <1>8 DEF ChangesOne
  <2> QED BY <1>11, <1>12, <2>1 DEF Moved
<1>14. \A w \in Warehouse \ {q.to} :
         /\ shelf'[w][ToDisturb] = shelf[w][ToDisturb]
         /\ (\E p \in sim'.waiting : p.to = w) <=> (\E p \in sim.waiting : p.to = w)
  BY <1>1, <1>6, <1>8 DEF ChangesOne
<1>15. ~ \E p \in sim'.waiting : p.to = q.to
  BY <1>2, <1>3
<1>16. \A w \in Warehouse :
         IF \E p \in sim'.waiting : p.to = w
         THEN shelf'[w][ToDisturb].rec = sim'.baseline[ToDisturb][w]
         ELSE Moved(w)'
  <2> SUFFICES ASSUME NEW w \in Warehouse
               PROVE  IF \E p \in sim'.waiting : p.to = w
                      THEN shelf'[w][ToDisturb].rec = sim'.baseline[ToDisturb][w]
                      ELSE Moved(w)'
    OBVIOUS
  <2>1. CASE w = q.to
    BY <1>13, <1>15, <2>1
  <2>2. CASE w # q.to
    <3>1. IF \E p \in sim.waiting : p.to = w
          THEN shelf[w][ToDisturb].rec = sim.baseline[ToDisturb][w]
          ELSE Moved(w)
      BY DEF Disturbing
    <3>2. Moved(w)' <=> Moved(w)
      BY <1>12, <1>14, <2>2 DEF Moved
    <3> QED BY <1>14, <2>2, <3>1, <3>2
  <2> QED BY <2>1, <2>2
<1>17. sim'.waiting \subseteq FirstCalls(sim'.round, sim'.baseline)
       /\ Requestable(sim'.round, sim'.baseline)
  BY <1>3 DEF calls
<1> QED BY <1>12, <1>16, <1>17 DEF Disturbing

(* The second call shortens the history and moves nothing. *)
LEMMA SecondCallShortens ==
  ASSUME SimTypes, sim.at = "shortening", Shortening,
         NEW q \in sim.waiting, AnswerControl(q),
         sim'.round = sim.round, sim'.baseline = sim.baseline,
         sim'.waiting = sim.waiting \ {q}
  PROVE  Shortening'
<1>1. /\ sim.round \in Rounds /\ ToDisturb \in Sku /\ Stocked
      /\ \A s \in Sku : sim.baseline[s] \in [Warehouse -> Record]
  BY PreparedRounds
<1>2. sim.round = "incomplete" /\ q \in SecondCalls(sim.baseline)
  BY DEF Shortening
<1>3. /\ SoundCall(q) /\ q.call = "history" /\ q.to = 3
      /\ q.sku = ToDisturb /\ q.body.events[1].opening = FALSE
  <2>1. sim.baseline[DisturbanceSku["incomplete"]] \in [Warehouse -> Record]
    BY <1>1, <1>2 DEF ToDisturb
  <2> QED BY <1>1, <1>2, <2>1, SecondCallsAreSound DEF ToDisturb
<1>4. shelf' = ShelfAfter(q) /\ Accepted(q)
  BY DEF AnswerControl
<1>5. PICK after \in Entry :
        /\ ChangesOne(q, after)
        /\ after.rec = shelf[q.to][q.sku].rec
        /\ after.hist = q.body.events
  BY <1>1, <1>3, <1>4, CallsChangeOne DEF SimTypes, RunInvariant, SoundWorld
<1>6. 3 \in Warehouse
  BY SimulationAssumption
<1>7. Shortened'
  <2>1. shelf'[3][ToDisturb] = after
    BY <1>3, <1>4, <1>5 DEF ChangesOne
  <2> QED BY <1>2, <1>3, <1>5, <2>1 DEF Shortened, ToDisturb
<1>8. \A w \in Warehouse : Moved(w)'
  <2> SUFFICES ASSUME NEW w \in Warehouse PROVE Moved(w)'
    OBVIOUS
  <2>1. shelf'[w][ToDisturb].rec = shelf[w][ToDisturb].rec
    BY <1>1, <1>3, <1>4, <1>5 DEF ChangesOne
  <2>2. Moved(w)
    BY DEF Shortening
  <2> QED BY <2>1, <2>2 DEF Moved, ToDisturb
<1> QED BY <1>7, <1>8 DEF Shortening

LEMMA ControlDisturbs ==
  ASSUME SimTypes, Disturbed, NEW q \in sim.waiting, AnswerControl(q)
  PROVE  Disturbed'
<1>1. sim' = Counted(sim, q, 0) /\ q.call # "observe"
  BY DEF AnswerControl
<1>2. /\ sim'.waiting = sim.waiting \ {q} /\ sim'.baseline = sim.baseline
      /\ sim'.round = sim.round /\ sim'.at = sim.at
  BY <1>1, CountedKeepsBooks DEF SimTypes
<1>3. CASE sim.at = "disturbing"
  BY <1>2, <1>3, FirstCallMoves DEF Disturbed
<1>4. CASE sim.at = "shortening"
  BY <1>2, <1>4, SecondCallShortens DEF Disturbed
<1>5. sim.at # "inspecting"
  BY <1>1 DEF Disturbed, Inspecting, Observations, Call
<1> QED BY <1>2, <1>3, <1>4, <1>5 DEF Disturbed

LEMMA ObservationDisturbs ==
  ASSUME SimTypes, Disturbed, NEW q \in sim.waiting, AnswerObservation(q)
  PROVE  Disturbed'
<1> DEFINE c == Counted(sim, q, 0)
<1>1. PICK view : sim' = [c EXCEPT !.view = view]
  BY DEF AnswerObservation
<1>2. shelf' = shelf /\ q.call = "observe"
  BY DEF AnswerObservation, vars
<1>3. /\ Books(c) /\ c.waiting = sim.waiting \ {q}
      /\ c.baseline = sim.baseline /\ c.round = sim.round /\ c.at = sim.at
  BY CountedKeepsBooks DEF SimTypes
<1> HIDE DEF c
<1>4. /\ sim'.waiting = sim.waiting \ {q} /\ sim'.baseline = sim.baseline
      /\ sim'.round = sim.round /\ sim'.at = sim.at
  BY <1>1, <1>3 DEF Books, SimFields
<1>5. sim.at # "disturbing"
  <2> SUFFICES ASSUME sim.at = "disturbing" PROVE FALSE
    OBVIOUS
  <2>1. q \in FirstCalls(sim.round, sim.baseline)
    BY DEF Disturbed, Disturbing
  <2>2. /\ sim.round \in Rounds
        /\ sim.baseline[DisturbanceSku[sim.round]] \in [Warehouse -> Record]
    BY PreparedRounds DEF ToDisturb
  <2> QED BY <1>2, <2>1, <2>2, FirstCallsAreWrites
<1>6. sim.at # "shortening"
  BY <1>2, SecondCallsAreWrites DEF Disturbed, Shortening
<1>7. CASE sim.at = "inspecting"
  BY <1>2, <1>4, <1>7 DEF Disturbed, Inspecting, Shortened, Moved, ToDisturb
<1> QED BY <1>4, <1>5, <1>6, <1>7 DEF Disturbed

-----------------------------------------------------------------------------
(* Nothing is done yet: what moves nothing has moved. *)
LEMMA CheckDisturbs ==
  ASSUME SimTypes, Check, files' = files
  PROVE  Disturbed'
<1>1. SimTypes' /\ RoundBegins
  BY CheckKeepsTypes
<1>2. shelf' = shelf
  BY DEF Check, vars
<1>3. sim'.at \in {"disturbing", "ended"}
  BY <1>1 DEF RoundBegins
<1>4. ASSUME sim'.at = "disturbing" PROVE Disturbing'
  <2> DEFINE s == DisturbanceSku[sim'.round]
  <2>1. /\ Clean(ViewOf(shelf)) /\ sim'.baseline = ViewOf(shelf)
        /\ sim'.waiting = FirstCalls(sim'.round, sim'.baseline)
        /\ Requestable(sim'.round, sim'.baseline)
    BY <1>1, <1>4 DEF RoundBegins
  <2>2. sim'.round \in Rounds
    BY <1>1, <1>4 DEF SimTypes, SimInv, Booked
  <2>3. s \in Sku
    BY <2>2, DisturbedSkus
  <2>4. \A w \in Warehouse : shelf'[w][s].rec = sim'.baseline[s][w]
    BY <1>2, <2>1, <2>3, CleanIsComplete
  <2>5. sim'.baseline[s] \in [Warehouse -> Record]
    BY <2>1, <2>3, CleanIsFull
  <2>6. \A w \in Warehouse :
          (\A q \in sim'.waiting : q.to # w) =>
            MovedEvents(sim'.round, w) = 0 /\ MovedStock(sim'.round, w) = 0
    BY <2>1, <2>2, <2>5, FirstCallsMove
  <2>7. ToDisturb' = s
    BY DEF ToDisturb
  <2> HIDE DEF s
  <2>8. ASSUME NEW w \in Warehouse, \A q \in sim'.waiting : q.to # w
        PROVE  Moved(w)'
    <3> DEFINE base == sim'.baseline[s][w]
    <3>1. base \in Record /\ shelf'[w][s].rec = base
      BY <2>4, <2>5
    <3>2. MovedEvents(sim'.round, w) = 0 /\ MovedStock(sim'.round, w) = 0
      BY <2>6, <2>8
    <3>3. base.cursor \in Int /\ base.inventory.on_hand \in Int
      <4> HIDE DEF base
      <4> QED BY <3>1 DEF Record, Inventory
    <3>4. /\ base.cursor = base.cursor + MovedEvents(sim'.round, w)
          /\ base.inventory.on_hand =
               base.inventory.on_hand + MovedStock(sim'.round, w)
      <4> HIDE DEF base
      <4> QED BY <3>2, <3>3
    <3> QED BY <2>7, <3>1, <3>4 DEF Moved
  <2> QED BY <2>1, <2>4, <2>7, <2>8 DEF Disturbing
<1> QED BY <1>3, <1>4 DEF Disturbed

(* All calls of a gather() are answered. *)
LEMMA InjectDisturbs ==
  ASSUME SimTypes, Disturbed, Inject
  PROVE  Disturbed'
<1>1. /\ sim.at \in {"disturbing", "shortening"} /\ sim.waiting = {}
      /\ shelf' = shelf
      /\ \/ /\ sim.at = "disturbing" /\ sim.round = "incomplete"
            /\ sim' = Waits(sim, "shortening", SecondCalls(sim.baseline))
         \/ /\ sim.at = "shortening" \/ sim.round # "incomplete"
            /\ sim' = Waits(sim, "inspecting", Observations)
  BY DEF Inject, vars
<1>2. \A w \in Warehouse : Moved(w)
  BY <1>1 DEF Disturbed, Disturbing, Shortening
<1>3. sim.at = "shortening" => Shortened
  BY <1>1 DEF Disturbed, Shortening
<1>4. CASE /\ sim.round = "incomplete"
           /\ sim' = Waits(sim, "shortening", SecondCalls(sim.baseline))
  <2>1. /\ sim'.waiting = SecondCalls(sim.baseline)
        /\ sim'.baseline = sim.baseline /\ sim'.round = sim.round
        /\ sim'.at = "shortening"
    BY <1>4, WaitsKeepsBooks DEF SimTypes, Stages
  <2>2. sim'.waiting # {}
    BY <2>1 DEF SecondCalls
  <2>3. \A w \in Warehouse : Moved(w)'
    BY <1>1, <1>2, <2>1 DEF Moved, ToDisturb
  <2> QED BY <1>4, <2>1, <2>2, <2>3 DEF Disturbed, Shortening
<1>5. CASE /\ sim.at = "shortening" \/ sim.round # "incomplete"
           /\ sim' = Waits(sim, "inspecting", Observations)
  <2>1. /\ sim'.waiting = Observations /\ sim'.round = sim.round
        /\ sim'.baseline = sim.baseline /\ sim'.at = "inspecting"
    BY <1>5, WaitsKeepsBooks DEF SimTypes, Stages
  <2>2. \A w \in Warehouse : Moved(w)'
    BY <1>1, <1>2, <2>1 DEF Moved, ToDisturb
  <2>3. sim'.round = "incomplete" => Shortened'
    BY <1>1, <1>3, <1>5, <2>1 DEF Shortened
  <2> QED BY <2>1, <2>2, <2>3 DEF Disturbed, Inspecting
<1> QED BY <1>1, <1>4, <1>5

(* The other steps prepare no round. *)
LEMMA OthersDisturbNothing ==
  ASSUME SimTypes, files' = files,
         \/ ResetAll \/ Inspect \/ Judge
         \/ \E q \in sim.waiting : RejectControl(q) \/ LoseControl(q)
  PROVE  Disturbed'
<1>1. CASE ResetAll
  <2> DEFINE c == [sim EXCEPT !.resetDone = TRUE]
  <2>1. sim' = Waits(c, "checking", Observations)
    BY <1>1 DEF ResetAll
  <2>2. "at" \in DOMAIN c
    BY DEF SimTypes, Books, SimFields
  <2> HIDE DEF c
  <2>3. sim'.at = "checking"
    BY <2>1, <2>2 DEF Waits
  <2> QED BY <2>3, StoppedIsDisturbed
<1>2. CASE Inspect
  <2>1. \/ sim' = Waits(sim, "running", {})
        \/ sim' = Failed(sim, run)
    BY <1>2 DEF Inspect
  <2>2. sim'.at \in {"running", "ended"}
    BY <2>1, WaitsKeepsBooks, FailedKeepsBooks DEF SimTypes, Stages
  <2> QED BY <2>2, StoppedIsDisturbed
<1>3. CASE Judge
  BY <1>3, JudgeKeepsTypes, StoppedIsDisturbed
<1>4. CASE \E q \in sim.waiting : RejectControl(q) \/ LoseControl(q)
  <2>1. PICK q \in sim.waiting : RejectControl(q) \/ LoseControl(q)
    BY <1>4
  <2>2. SimInv' /\ Stopped
    BY <2>1, FailureIsSound DEF SimTypes
  <2>3. sim'.at = "ended"
    BY <2>2 DEF SimInv, Stopped, Booked
  <2> QED BY <2>3, StoppedIsDisturbed
<1> QED BY <1>1, <1>2, <1>3, <1>4
-----------------------------------------------------------------------------
LEMMA DisturbanceGoesOn ==
  ASSUME SimTypes, Disturbed, [SimNext]_allVars
  PROVE  Disturbed'
<1>1. CASE SimStep
  <2>1. CASE \E q \in sim.waiting : AnswerObservation(q) \/ AnswerControl(q)
    BY <2>1, ObservationDisturbs, ControlDisturbs
  <2>2. CASE \/ ResetAll \/ Inspect \/ Judge
             \/ \E q \in sim.waiting : RejectControl(q)
    BY <1>1, <2>2, OthersDisturbNothing DEF SimStep
  <2>3. CASE Check \/ Inject
    BY <1>1, <2>3, CheckDisturbs, InjectDisturbs DEF SimStep
  <2> QED BY <1>1, <2>1, <2>2, <2>3 DEF SimStep
<1>2. CASE SimFault
  <2>1. CASE \E q \in sim.waiting : LoseControl(q)
    BY <1>2, <2>1, OthersDisturbNothing DEF SimFault
  <2>2. CASE \E q \in stray : HandleStray(q)
    <3>1. sim' = sim /\ stray # {}
      BY <2>2 DEF HandleStray
    <3>2. sim'.at \in {"running", "ended"}
      BY <3>1 DEF SimTypes, SimInv, Still
    <3> QED BY <3>2, StoppedIsDisturbed
  <2> QED BY <1>2, <2>1, <2>2 DEF SimFault
<1>3. CASE AgentStep \/ AgentFault
  <2>1. sim' = sim
    BY <1>3 DEF AgentStep, AgentFault, simVars
  <2>2. CASE sim.at \in {"running", "ended"}
    BY <2>1, <2>2, StoppedIsDisturbed
  <2>3. CASE sim.at \notin {"running", "ended"}
    <3>1. shelf' = shelf
      BY <1>3, <2>3, StillAgent DEF SimTypes, SimInv
    <3> QED BY <2>1, <3>1, DisturbedStays
  <2> QED BY <2>2, <2>3
<1>4. CASE SimTerminated \/ UNCHANGED allVars
  <2>1. shelf' = shelf /\ sim' = sim
    BY <1>4 DEF SimTerminated, allVars, vars, simVars
  <2> QED BY <2>1, DisturbedStays
<1> QED BY <1>1, <1>2, <1>3, <1>4 DEF SimNext

LEMMA DisturbedHolds == SimSpec => []Disturbed
<1>1. SimInit => Disturbed
  BY DEF SimInit, NewSim, Disturbed
<1> QED BY <1>1, SimTypesHold, DisturbanceGoesOn, PTL DEF SimSpec

(* The agent is started only on a complete disturbance: whatever order the *)
(* calls are answered in, each warehouse has got the events and the stock  *)
(* that are meant for it and no others, and the history is shortened if    *)
(* that is the disturbance (disturbances.py:31-120, controller.py:121-137).*)
THEOREM DisturbancesAreComplete == SimSpec => DisturbanceIsComplete
<1>1. SimTypes /\ Disturbed /\ [SimNext]_allVars =>
        [(sim.at = "inspecting" /\ sim'.at = "running") =>
           LET s == DisturbanceSku[sim.round]
           IN  /\ \A w \in Warehouse :
                    LET now == shelf[w][s].rec
                        base == sim.baseline[s][w]
                    IN  /\ now.cursor = base.cursor + Moves[sim.round][w][1]
                        /\ now.inventory.on_hand =
                             base.inventory.on_hand + Moves[sim.round][w][2]
               /\ sim.round = "incomplete" => ~shelf[3][s].hist[1].opening
        ]_allVars
  <2> SUFFICES ASSUME Disturbed, sim.at = "inspecting"
               PROVE  LET s == DisturbanceSku[sim.round]
                      IN  /\ \A w \in Warehouse :
                               LET now == shelf[w][s].rec
                                   base == sim.baseline[s][w]
                               IN  /\ now.cursor = base.cursor
                                        + Moves[sim.round][w][1]
                                   /\ now.inventory.on_hand =
                                        base.inventory.on_hand
                                          + Moves[sim.round][w][2]
                          /\ sim.round = "incomplete" =>
                               ~shelf[3][s].hist[1].opening
    OBVIOUS
  <2>1. Inspecting
    BY DEF Disturbed
  <2>2. \A w \in Warehouse : Moved(w)
    BY <2>1 DEF Inspecting
  <2>3. sim.round = "incomplete" => Shortened
    BY <2>1 DEF Inspecting
  <2> QED BY <2>2, <2>3 DEF Moved, Shortened, ToDisturb, MovedEvents, MovedStock
<1> QED BY <1>1, SimTypesHold, DisturbedHolds, PTL
        DEF SimSpec, DisturbanceIsComplete

=============================================================================
