---------------------------- MODULE PromiseProofs ----------------------------
(***************************************************************************)
(* Proofs about AgentRun: whatever calls for other SKUs get no answer, a   *)
(* conflict of a kind that the agent resolves ends RESOLVED unless one of  *)
(* its own calls is lost.                                                  *)
(*                                                                         *)
(* The invariant names the shelves sh that the run began with.  What a run *)
(* knows of a SKU none of whose calls was lost comes from sh alone, so its *)
(* decisions are what the policy makes of sh; and what the warehouses hold *)
(* of it is sh until its plan is written, and then what the plan has       *)
(* written so far.  A PUT whose sender has given up is of another SKU.     *)
(*                                                                         *)
(* The second part counts the calls of a run in which none is lost: those  *)
(* that what it read, wrote and checked took, and so as many as the kinds  *)
(* of its conflicts cost one by one.                                       *)
(***************************************************************************)
EXTENDS AgentRunProofs

-----------------------------------------------------------------------------
(* The invariant *)

(* A call of SKU s, or the reading of a catalogue, got no answer.          *)
HurtIn(r, s) ==
  \E c \in r.calls : c.answer = "lost" /\ c.sku \in {s, NoSku}

(* What was read of a SKU is what sh holds of it.                          *)
ReadFrom(r, sh, s) ==
  /\ \A w \in Warehouse :
       w \in DOMAIN r.obs[s] <=> w \in r.observed /\ sh[w][s] # Missing
  /\ \A w \in DOMAIN r.obs[s] : r.obs[s][w] = sh[w][s].rec
  /\ \A w \in DOMAIN r.histories[s] :
       r.histories[s][w] = RecentEvents(sh[w][s].hist, HistoryLimit)
  /\ r.status \in {"starting", "observing"} => r.histories[s] = <<>>

(* A history that was asked for is read, waited for or lost.               *)
HistoryIn(r, s) ==
  \A w \in AskedOf(r, s) :
    \/ HurtIn(r, s)
    \/ w \in DOMAIN r.histories[s]
    \/ r.status = "investigating" /\ <<w, s>> \in r.waiting

Early(r) == r.status \in {"starting", "observing", "investigating"}

(* The decision before a history is read, and what became of it            *)
First(r, s) == [obs |-> r.obs[s], histories |-> <<>>]

Choice(r, s) ==
  LET d == Decide(First(r, s))
  IN  IF r.status = "investigating" \/ d.outcome # "INVESTIGATE" THEN d
      ELSE Reassessed(AskedOf(r, s), EvidenceOf(r, s))

ChosenFor(r, s) ==
  /\ AskedOf(r, s) = InvestigationPlan(Decide(First(r, s)), First(r, s))
  /\ r.decisions[s] = Choice(r, s)

(* The targets that are not written yet *)
Left(r, s) == IF r.status = "executing" /\ s = r.current THEN r.todo ELSE {}

(* The plan of a SKU does what it is to do, if all its writes are taken.   *)
Sure(r, s) ==
  /\ s \in DOMAIN r.plans
  /\ Levels(r.plans[s], r.obs[s])
  /\ ~IdentityMismatch(r.obs[s])

Moved(before, after, plan) ==
  /\ after.inventory = plan.inventory /\ after.version = plan.version
  /\ after.cursor = before.cursor + 1 /\ after.product = before.product

(* Such a plan is written but for "left", and nothing else has happened.   *)
AsPlanned(r, now, s, left) ==
  /\ s \notin r.failed
  /\ \A w \in DOMAIN r.obs[s] :
       IF w \in r.plans[s].targets \ left
       THEN Moved(r.obs[s][w], now[w][s].rec, r.plans[s])
       ELSE now[w][s].rec = r.obs[s][w]
  /\ \A w \in DOMAIN r.checked[s] : r.checked[s][w] = now[w][s].rec
  /\ s \in DOMAIN r.resolutions => /\ r.resolutions[s] = "RESOLVED"
                                   /\ DOMAIN r.checked[s] = DOMAIN r.obs[s]

Untouched(sh, now, s) == \A w \in Warehouse : now[w][s] = sh[w][s]

WrittenFor(r, sh, now, s) ==
  ~HurtIn(r, s) =>
    /\ s \notin DOMAIN r.plans => Untouched(sh, now, s)
    /\ Sure(r, s) => AsPlanned(r, now, s, Left(r, s))

(* The verification of the SKU in hand reads every warehouse that knows it *)
(* once it is written.                                                     *)
CheckedIn(r, s) ==
  /\ r.status = "executing" /\ s = r.current => DOMAIN r.checked[s] = {}
  /\ r.status = "verifying" /\ s = r.current =>
       \A w \in DOMAIN r.obs[s] : \/ HurtIn(r, s)
                                  \/ w \in DOMAIN r.checked[s]
                                  \/ <<w, s>> \in r.waiting

(* What the run knows and does comes from sh.                              *)
Faithful(r, sh, now) ==
  /\ \A s \in Sku : /\ ReadFrom(r, sh, s)
                    /\ HistoryIn(r, s)
                    /\ WrittenFor(r, sh, now, s)
                    /\ CheckedIn(r, s)
  /\ ~Undecided(r) => \A s \in DOMAIN r.decisions : ChosenFor(r, s)

(* Nothing is written before the decisions, and later on no entry is lost  *)
(* or loses its first event.                                               *)
Grown(sh, now) ==
  \A w \in Warehouse, s \in Sku :
    /\ now[w][s] # Missing <=> sh[w][s] # Missing
    /\ now[w][s] # Missing => now[w][s].hist[1] = sh[w][s].hist[1]

(* A PUT whose sender has given up is of a SKU with a lost call.           *)
Kept(r, sh, now, out) ==
  /\ Faithful(r, sh, now)
  /\ Grown(sh, now)
  /\ Early(r) => now = sh /\ out = {}
  /\ \A m \in out : HurtIn(r, m.sku)

Promise == RunInvariant /\ \E sh \in Shelves : Kept(run, sh, shelf, late)

-----------------------------------------------------------------------------
(* What depends on which fields *)

LEMMA HurtStays ==
  ASSUME NEW r, NEW q, r.calls \subseteq q.calls, NEW s
  PROVE  HurtIn(r, s) => HurtIn(q, s)
BY DEF HurtIn

(* A lost call hurts its SKU, and every SKU if it reads a catalogue.       *)
LEMMA LostCallHurts ==
  ASSUME NEW r, DOMAIN r = RunFields, NEW p, NEW w, NEW s, NEW t \in {s, NoSku}
  PROVE  HurtIn(Called(r, p, w, t, "lost"), s)
<1> DEFINE call == [purpose |-> p, to |-> w, sku |-> t, answer |-> "lost"]
           q == Called(r, p, w, t, "lost")
<1>1. q.calls = r.calls \cup {call}
  BY CallChanges
<1>2. call.answer = "lost" /\ call.sku = t
  OBVIOUS
<1> HIDE DEF call, q
<1> QED BY <1>1, <1>2 DEF HurtIn, q

LEMMA ReadStays ==
  ASSUME NEW r, NEW sh, NEW s, ReadFrom(r, sh, s), NEW q,
         q.obs = r.obs, q.observed = r.observed, q.histories = r.histories,
         q.status \in {"starting", "observing"} =>
           r.status \in {"starting", "observing"}
  PROVE  ReadFrom(q, sh, s)
BY DEF ReadFrom

LEMMA HistoryStays ==
  ASSUME NEW r, NEW s, HistoryIn(r, s), NEW q, r.calls \subseteq q.calls,
         q.asked = r.asked, q.histories = r.histories,
         \A w \in AskedOf(r, s) :
           r.status = "investigating" /\ <<w, s>> \in r.waiting =>
             \/ q.status = "investigating" /\ <<w, s>> \in q.waiting
             \/ HurtIn(q, s)
  PROVE  HistoryIn(q, s)
<1>1. AskedOf(q, s) = AskedOf(r, s)
  BY DEF AskedOf
<1>2. HurtIn(r, s) => HurtIn(q, s)
  BY HurtStays
<1> QED BY <1>1, <1>2 DEF HistoryIn

LEMMA ChoiceStays ==
  ASSUME NEW r, NEW s, ChosenFor(r, s), NEW q, q.obs = r.obs,
         q.asked = r.asked, q.histories = r.histories,
         q.decisions = r.decisions,
         q.status = "investigating" <=> r.status = "investigating"
  PROVE  ChosenFor(q, s)
<1>1. AskedOf(q, s) = AskedOf(r, s)
  BY DEF AskedOf
<1>2. First(q, s) = First(r, s) /\ EvidenceOf(q, s) = EvidenceOf(r, s)
  BY DEF First, EvidenceOf
<1> QED BY <1>1, <1>2 DEF ChosenFor, Choice

LEMMA SureStays ==
  ASSUME NEW r, NEW q, NEW s \in DOMAIN r.plans, q.obs[s] = r.obs[s],
         q.plans[s] = r.plans[s]
  PROVE  Sure(q, s) => Sure(r, s)
BY DEF Sure

(* What was written of a SKU stays if none of its fields changes.          *)
LEMMA AsPlannedStays ==
  ASSUME NEW r, NEW now, NEW s, NEW left, AsPlanned(r, now, s, left),
         NEW q, NEW then, q.obs[s] = r.obs[s], q.plans[s] = r.plans[s],
         q.checked[s] = r.checked[s], s \in q.failed => s \in r.failed,
         s \in DOMAIN q.resolutions =>
           s \in DOMAIN r.resolutions /\ q.resolutions[s] = r.resolutions[s],
         \A w \in DOMAIN r.obs[s] : then[w][s] = now[w][s],
         DOMAIN r.checked[s] \subseteq DOMAIN r.obs[s]
  PROVE  AsPlanned(q, then, s, left)
BY DEF AsPlanned

LEMMA WritingStays ==
  ASSUME NEW r, SoundRun(r), NEW sh, NEW now, NEW s \in Sku,
         WrittenFor(r, sh, now, s),
         NEW q, NEW then, r.calls \subseteq q.calls, q.obs[s] = r.obs[s],
         s \in DOMAIN q.plans <=> s \in DOMAIN r.plans,
         s \in DOMAIN r.plans => /\ q.plans[s] = r.plans[s]
                                 /\ q.checked[s] = r.checked[s],
         s \in q.failed => s \in r.failed,
         s \in DOMAIN q.resolutions /\ s \in DOMAIN r.plans =>
           s \in DOMAIN r.resolutions /\ q.resolutions[s] = r.resolutions[s],
         ~HurtIn(q, s) => \A w \in Warehouse : then[w][s] = now[w][s],
         ~HurtIn(q, s) => Left(q, s) = Left(r, s)
  PROVE  WrittenFor(q, sh, then, s)
<1>1. SUFFICES ASSUME ~HurtIn(q, s)
               PROVE  /\ s \notin DOMAIN q.plans => Untouched(sh, then, s)
                      /\ Sure(q, s) => AsPlanned(q, then, s, Left(q, s))
  BY DEF WrittenFor
<1>2. ~HurtIn(r, s)
  BY <1>1, HurtStays
<1>3. \A w \in Warehouse : then[w][s] = now[w][s]
  BY <1>1
<1>4. s \notin DOMAIN q.plans => Untouched(sh, then, s)
  BY <1>2, <1>3 DEF WrittenFor, Untouched
<1>5. ASSUME Sure(q, s) PROVE AsPlanned(q, then, s, Left(q, s))
  <2>1. s \in DOMAIN r.plans
    BY <1>5 DEF Sure
  <2>2. Sure(r, s)
    BY <1>5, <2>1, SureStays
  <2>3. AsPlanned(r, now, s, Left(r, s))
    BY <1>2, <2>2 DEF WrittenFor
  <2>4. DOMAIN r.obs[s] \subseteq Warehouse
    BY <2>1, PlansOfSoundRuns
  <2>5. DOMAIN r.checked[s] \subseteq DOMAIN r.obs[s]
    BY <2>1 DEF SoundRun, WhatWasWritten
  <2>6. Left(q, s) = Left(r, s)
    BY <1>1
  <2>7. \A w \in DOMAIN r.obs[s] : then[w][s] = now[w][s]
    BY <1>3, <2>4
  <2> QED BY <2>1, <2>3, <2>5, <2>6, <2>7, AsPlannedStays
<1> QED BY <1>4, <1>5

-----------------------------------------------------------------------------
(* The start and the catalogues *)

LEMMA FreshRunIsFaithful ==
  ASSUME NEW r, NEW sh, NEW now, now = sh,
         r.status \in {"starting", "observing"}, r.observed = {}, r.asked = {},
         r.obs = [s \in Sku |-> <<>>], r.histories = [s \in Sku |-> <<>>],
         DOMAIN r.plans = {}
  PROVE  Faithful(r, sh, now)
<1>1. Undecided(r)
  BY DEF Undecided
<1>2. ASSUME NEW s \in Sku
      PROVE  /\ ReadFrom(r, sh, s) /\ HistoryIn(r, s)
             /\ WrittenFor(r, sh, now, s) /\ CheckedIn(r, s)
  <2>1. r.obs[s] = <<>> /\ r.histories[s] = <<>> /\ AskedOf(r, s) = {}
    BY DEF AskedOf
  <2>2. DOMAIN <<>> = {}
    OBVIOUS
  <2>3. ReadFrom(r, sh, s)
    BY <2>1, <2>2 DEF ReadFrom
  <2>4. HistoryIn(r, s) /\ CheckedIn(r, s)
    BY <2>1 DEF HistoryIn, CheckedIn
  <2>5. WrittenFor(r, sh, now, s)
    BY DEF WrittenFor, Untouched, Sure
  <2> QED BY <2>3, <2>4, <2>5
<1> QED BY <1>1, <1>2 DEF Faithful

LEMMA NothingGrown ==
  ASSUME NEW sh
  PROVE  Grown(sh, sh)
BY DEF Grown

LEMMA PromiseAtFirst ==
  ASSUME Init, RunInvariant
  PROVE  Promise
<1>1. PICK version \in AgentVersions : run = NewRun(version)
  BY DEF Init
<1>2. /\ run.status = "starting" /\ run.observed = {} /\ run.asked = {}
      /\ run.obs = [s \in Sku |-> <<>>] /\ run.histories = [s \in Sku |-> <<>>]
      /\ run.plans = <<>>
  BY <1>1 DEF NewRun
<1>3. DOMAIN <<>> = {}
  OBVIOUS
<1>4. Faithful(run, shelf, shelf)
  BY <1>2, <1>3, FreshRunIsFaithful
<1>5. Kept(run, shelf, shelf, late)
  BY <1>4, NothingGrown DEF Kept, Init
<1> QED BY <1>5 DEF Promise, Init

LEMMA BeginIsKept ==
  ASSUME RunInvariant, NEW sh, Kept(run, sh, shelf, late), Begin
  PROVE  Kept(run', sh, shelf', late')
<1>1. /\ run' = Observing(run.version) /\ run.status = "starting"
      /\ shelf' = shelf /\ late' = late
  BY DEF Begin, world
<1>2. shelf = sh /\ late = {}
  BY <1>1 DEF Kept, Early
<1>3. /\ run'.status = "observing" /\ run'.observed = {} /\ run'.asked = {}
      /\ run'.obs = [s \in Sku |-> <<>>]
      /\ run'.histories = [s \in Sku |-> <<>>]
      /\ run'.plans = <<>>
  BY <1>1 DEF Observing, NewRun
<1>4. DOMAIN <<>> = {}
  OBVIOUS
<1>5. Faithful(run', sh, sh)
  BY <1>3, <1>4, FreshRunIsFaithful
<1> QED BY <1>1, <1>2, <1>5, NothingGrown DEF Kept

LEMMA CatalogueIsKept ==
  ASSUME RunInvariant, NEW sh, Kept(run, sh, shelf, late),
         NEW w \in Warehouse, AnswerCatalogue(w)
  PROVE  Kept(run', sh, shelf', late')
<1> DEFINE c == Called(run, "catalogue", w, NoSku, "ok")
           obs == [s \in Sku |-> IF shelf[w][s] = Missing THEN c.obs[s]
                                 ELSE With(c.obs[s], w, shelf[w][s].rec)]
<1>1. /\ run.status = "observing"
      /\ run' = [c EXCEPT !.observed = c.observed \cup {w}, !.obs = obs]
      /\ shelf' = shelf /\ late' = late
  BY DEF AnswerCatalogue, world
<1>2. DOMAIN run = RunFields /\ SoundRun(run)
  BY DEF RunInvariant, SoundRun
<1>3. /\ DOMAIN c = RunFields /\ c.status = "observing"
      /\ c.obs = run.obs /\ c.observed = run.observed
      /\ c.histories = run.histories /\ c.asked = run.asked
      /\ c.plans = run.plans /\ run.calls \subseteq c.calls
  BY <1>1, <1>2, CallChanges
<1>4. shelf = sh /\ late = {}
  BY <1>1 DEF Kept, Early
<1>5. /\ DOMAIN run.plans = {} /\ \A s : AskedOf(run, s) = {}
      /\ run.asked = {}
  BY <1>1, <1>2, ObservingDecidesNothing DEF Undecided
<1> HIDE DEF c
<1>6. \A s \in Sku : obs[s] = IF sh[w][s] = Missing THEN run.obs[s]
                              ELSE With(run.obs[s], w, sh[w][s].rec)
  BY <1>3, <1>4
<1> HIDE DEF obs
<1>7. /\ run'.status = "observing" /\ run'.observed = run.observed \cup {w}
      /\ run'.obs = obs /\ run'.histories = run.histories
      /\ run'.asked = {} /\ run'.plans = run.plans
  BY <1>1, <1>3, <1>5 DEF RunFields
<1>8. Undecided(run')
  BY <1>7 DEF Undecided
<1>9. ASSUME NEW s \in Sku
      PROVE  /\ ReadFrom(run', sh, s) /\ HistoryIn(run', s)
             /\ WrittenFor(run', sh, sh, s) /\ CheckedIn(run', s)
  <2>1. ReadFrom(run, sh, s)
    BY DEF Kept, Faithful
  <2>2. CASE sh[w][s] = Missing
    <3>1. obs[s] = run.obs[s]
      BY <1>6, <2>2
    <3>2. ReadFrom(run', sh, s)
      BY <1>1, <1>7, <2>1, <2>2, <3>1 DEF ReadFrom
    <3> QED BY <1>5, <1>7, <3>2
            DEF HistoryIn, AskedOf, WrittenFor, Untouched, Sure, CheckedIn
  <2>3. CASE sh[w][s] # Missing
    <3> DEFINE f == run.obs[s]
               x == sh[w][s].rec
               g == obs[s]
    <3>1. g = With(f, w, x)
      BY <1>6, <2>3
    <3> HIDE DEF f, x, g
    <3>2. /\ DOMAIN g = DOMAIN f \cup {w}
          /\ \A v \in DOMAIN g : g[v] = IF v = w THEN x ELSE f[v]
      BY <3>1 DEF With
    <3>3. /\ DOMAIN run'.obs[s] = DOMAIN run.obs[s] \cup {w}
          /\ \A v \in DOMAIN run'.obs[s] :
               run'.obs[s][v] = IF v = w THEN sh[w][s].rec ELSE run.obs[s][v]
      BY <1>7, <3>2 DEF f, x, g
    <3>4. ReadFrom(run', sh, s)
      BY <1>1, <1>7, <2>1, <2>3, <3>3 DEF ReadFrom
    <3> QED BY <1>5, <1>7, <3>4
            DEF HistoryIn, AskedOf, WrittenFor, Untouched, Sure, CheckedIn
  <2> QED BY <2>2, <2>3
<1>10. Faithful(run', sh, shelf')
  BY <1>1, <1>4, <1>8, <1>9 DEF Faithful
<1> QED BY <1>1, <1>4, <1>10, NothingGrown DEF Kept

-----------------------------------------------------------------------------
(* Answers and lost reads *)

LEMMA EventsAreKept ==
  ASSUME RunInvariant, NEW sh, Kept(run, sh, shelf, late),
         NEW w \in Warehouse, NEW s \in Sku, AnswerEvents(w, s)
  PROVE  Kept(run', sh, shelf', late')
<1> DEFINE c == Called(run, "events", w, s, "ok")
           got == RecentEvents(shelf[w][s].hist, HistoryLimit)
           histories == [c.histories EXCEPT ![s] = With(c.histories[s], w, got)]
<1>1. /\ run.status = "investigating" /\ <<w, s>> \in run.waiting
      /\ run' = [c EXCEPT !.histories = histories]
      /\ shelf' = shelf /\ late' = late
  BY DEF AnswerEvents, world
<1>2. DOMAIN run = RunFields /\ SoundRun(run)
  BY DEF RunInvariant, SoundRun
<1>3. /\ DOMAIN c = RunFields /\ c.status = "investigating"
      /\ c.version = run.version
      /\ c.obs = run.obs /\ c.observed = run.observed
      /\ c.histories = run.histories /\ c.asked = run.asked
      /\ c.decisions = run.decisions
      /\ c.plans = run.plans /\ run.calls \subseteq c.calls
      /\ c.waiting = run.waiting \ {<<w, s>>}
  BY <1>1, <1>2, CallChanges
<1>4. shelf = sh /\ late = {}
  BY <1>1 DEF Kept, Early
<1>5. DOMAIN run.plans = {} /\ DOMAIN run.histories = Sku /\ ~Undecided(run)
  BY <1>1, <1>2 DEF SoundRun, WhatWasWritten, WhatWasRead, WhatWasDecided,
                    Undecided
<1> HIDE DEF c, got
<1>6. /\ histories[s] = With(run.histories[s], w, got)
      /\ \A t \in Sku \ {s} : histories[t] = run.histories[t]
  BY <1>3, <1>5, ChangedValue
<1> HIDE DEF histories
<1>7. /\ run'.status = "investigating" /\ run'.observed = run.observed
      /\ run'.obs = run.obs /\ run'.histories = histories
      /\ run'.version = run.version
      /\ run'.asked = run.asked /\ run'.plans = run.plans
      /\ run'.decisions = run.decisions /\ run.calls \subseteq run'.calls
      /\ run'.waiting = run.waiting \ {<<w, s>>}
  BY <1>1, <1>3 DEF RunFields
<1>8. /\ DOMAIN histories[s] = DOMAIN run.histories[s] \cup {w}
      /\ \A v \in DOMAIN histories[s] :
           histories[s][v] = IF v = w THEN got ELSE run.histories[s][v]
  <2> DEFINE f == run.histories[s]
             g == histories[s]
  <2>1. g = With(f, w, got)
    BY <1>6
  <2> HIDE DEF f, g
  <2>2. /\ DOMAIN g = DOMAIN f \cup {w}
        /\ \A v \in DOMAIN g : g[v] = IF v = w THEN got ELSE f[v]
    BY <2>1 DEF With
  <2> QED BY <2>2 DEF f, g
<1>9. got = RecentEvents(sh[w][s].hist, HistoryLimit)
  BY <1>4 DEF got
<1>10. ASSUME NEW t \in Sku
       PROVE  /\ ReadFrom(run', sh, t) /\ HistoryIn(run', t)
              /\ WrittenFor(run', sh, sh, t) /\ CheckedIn(run', t)
  <2>1. ReadFrom(run, sh, t) /\ HistoryIn(run, t)
    BY DEF Kept, Faithful
  <2>2. WrittenFor(run', sh, sh, t) /\ CheckedIn(run', t)
    BY <1>5, <1>7 DEF WrittenFor, Untouched, Sure, CheckedIn
  <2>3. AskedOf(run', t) = AskedOf(run, t) /\ (HurtIn(run, t) => HurtIn(run', t))
    BY <1>7, HurtStays DEF AskedOf
  <2>4. CASE t = s
    <3>1. ReadFrom(run', sh, s)
      BY <1>7, <1>8, <1>9, <2>1, <2>4 DEF ReadFrom
    <3>2. HistoryIn(run', s)
      BY <1>1, <1>7, <1>8, <2>1, <2>3, <2>4 DEF HistoryIn
    <3> QED BY <2>2, <2>4, <3>1, <3>2
  <2>5. CASE t # s
    <3>1. histories[t] = run.histories[t]
      BY <1>6, <2>5
    <3>2. ReadFrom(run', sh, t)
      BY <1>7, <2>1, <3>1 DEF ReadFrom
    <3>3. HistoryIn(run', t)
      BY <1>1, <1>7, <2>1, <2>3, <2>5, <3>1 DEF HistoryIn
    <3> QED BY <2>2, <3>2, <3>3
  <2> QED BY <2>4, <2>5
<1>11. ASSUME NEW t \in DOMAIN run'.decisions PROVE ChosenFor(run', t)
  <2>1. ChosenFor(run, t)
    BY <1>5, <1>7, <1>11 DEF Kept, Faithful
  <2>2. AskedOf(run', t) = AskedOf(run, t) /\ First(run', t) = First(run, t)
    BY <1>7 DEF AskedOf, First
  <2> QED BY <1>1, <1>7, <2>1, <2>2 DEF ChosenFor, Choice
<1>12. Faithful(run', sh, shelf')
  BY <1>1, <1>4, <1>10, <1>11 DEF Faithful
<1> QED BY <1>1, <1>4, <1>12, NothingGrown DEF Kept

(* What was read and decided stays when neither changes any more. *)
LEMMA ReadingOver ==
  ASSUME NEW r, NEW q, q.version = r.version, q.obs = r.obs,
         q.observed = r.observed, q.histories = r.histories,
         q.asked = r.asked, q.decisions = r.decisions,
         r.calls \subseteq q.calls,
         ~Early(r), ~Early(q), r.status # "failed", NEW sh, NEW now,
         Faithful(r, sh, now)
  PROVE  /\ \A s \in Sku : ReadFrom(q, sh, s) /\ HistoryIn(q, s)
         /\ ~Undecided(q) => \A s \in DOMAIN q.decisions : ChosenFor(q, s)
<1>1. ASSUME NEW s \in Sku PROVE ReadFrom(q, sh, s) /\ HistoryIn(q, s)
  <2>1. ReadFrom(r, sh, s) /\ HistoryIn(r, s)
    BY DEF Faithful
  <2>2. ReadFrom(q, sh, s)
    BY <2>1, ReadStays DEF Early
  <2>3. HistoryIn(q, s)
    BY <2>1, HistoryStays DEF Early
  <2> QED BY <2>2, <2>3
<1>2. ASSUME ~Undecided(q), NEW s \in DOMAIN q.decisions PROVE ChosenFor(q, s)
  <2>1. ~Undecided(r)
    BY <1>2 DEF Undecided, Early
  <2>2. ChosenFor(r, s)
    BY <1>2, <2>1 DEF Faithful
  <2> QED BY <2>2, ChoiceStays DEF Early
<1> QED BY <1>1, <1>2

LEMMA VerificationIsKept ==
  ASSUME RunInvariant, NEW sh, Kept(run, sh, shelf, late),
         NEW w \in Warehouse, NEW s \in Sku, AnswerVerification(w, s)
  PROVE  Kept(run', sh, shelf', late')
<1> DEFINE c == Called(run, "verification", w, s, "ok")
           got == shelf[w][s].rec
           checked == [c.checked EXCEPT ![s] = With(c.checked[s], w, got)]
<1>1. /\ run.status = "verifying" /\ <<w, s>> \in run.waiting
      /\ run' = [c EXCEPT !.checked = checked]
      /\ shelf' = shelf /\ late' = late
  BY DEF AnswerVerification, world
<1>2. DOMAIN run = RunFields /\ SoundRun(run)
  BY DEF RunInvariant, SoundRun
<1>3. /\ DOMAIN c = RunFields /\ c.status = "verifying"
      /\ c.version = run.version /\ c.current = run.current
      /\ c.obs = run.obs /\ c.observed = run.observed
      /\ c.histories = run.histories /\ c.asked = run.asked
      /\ c.decisions = run.decisions /\ c.failed = run.failed
      /\ c.resolutions = run.resolutions /\ c.checked = run.checked
      /\ c.plans = run.plans /\ run.calls \subseteq c.calls
      /\ c.waiting = run.waiting \ {<<w, s>>}
  BY <1>1, <1>2, CallChanges
<1>4. /\ s = run.current /\ s \in DOMAIN run.plans
      /\ DOMAIN run.checked = DOMAIN run.plans
  BY <1>1, <1>2 DEF SoundRun, Awaited, WhoseTurn, InHand, WhatWasWritten
<1> HIDE DEF c, got
<1>5. /\ DOMAIN checked = DOMAIN run.checked
      /\ checked[s] = With(run.checked[s], w, got)
      /\ \A t \in DOMAIN run.checked \ {s} : checked[t] = run.checked[t]
  BY <1>3, <1>4, ChangedValue
<1> HIDE DEF checked
<1>6. /\ run'.status = "verifying" /\ run'.observed = run.observed
      /\ run'.obs = run.obs /\ run'.histories = run.histories
      /\ run'.version = run.version /\ run'.current = run.current
      /\ run'.asked = run.asked /\ run'.plans = run.plans
      /\ run'.failed = run.failed /\ run'.resolutions = run.resolutions
      /\ run'.decisions = run.decisions /\ run.calls \subseteq run'.calls
      /\ run'.checked = checked
      /\ run'.waiting = run.waiting \ {<<w, s>>}
  BY <1>1, <1>3 DEF RunFields
<1>7. /\ DOMAIN checked[s] = DOMAIN run.checked[s] \cup {w}
      /\ \A v \in DOMAIN checked[s] :
           checked[s][v] = IF v = w THEN got ELSE run.checked[s][v]
  <2> DEFINE f == run.checked[s]
             g == checked[s]
  <2>1. g = With(f, w, got)
    BY <1>5
  <2> HIDE DEF f, g
  <2>2. /\ DOMAIN g = DOMAIN f \cup {w}
        /\ \A v \in DOMAIN g : g[v] = IF v = w THEN got ELSE f[v]
    BY <2>1 DEF With
  <2> QED BY <2>2 DEF f, g
<1>8. Faithful(run, sh, shelf)
  BY DEF Kept
<1>9. /\ \A t \in Sku : ReadFrom(run', sh, t) /\ HistoryIn(run', t)
      /\ ~Undecided(run') => \A t \in DOMAIN run'.decisions : ChosenFor(run', t)
  BY <1>1, <1>6, <1>8, ReadingOver DEF Early
<1>10. ASSUME NEW t \in Sku
       PROVE  WrittenFor(run', sh, shelf, t) /\ CheckedIn(run', t)
  <2>1. WrittenFor(run, sh, shelf, t) /\ CheckedIn(run, t)
    BY <1>8 DEF Faithful
  <2>2. HurtIn(run, t) => HurtIn(run', t)
    BY <1>6, HurtStays
  <2>3. CheckedIn(run', t)
    BY <1>1, <1>4, <1>6, <1>7, <2>1, <2>2 DEF CheckedIn
  <2>4. Left(run', t) = Left(run, t)
    BY <1>1, <1>6 DEF Left
  <2>5. CASE t # s
    <3>1. t \in DOMAIN run.plans => run'.checked[t] = run.checked[t]
      BY <1>4, <1>5, <1>6, <2>5
    <3>2. WrittenFor(run', sh, shelf, t)
      BY <1>2, <1>6, <2>1, <2>4, <3>1, WritingStays
    <3> QED BY <2>3, <3>2
  <2>6. CASE t = s
    <3>1. SUFFICES ASSUME ~HurtIn(run', s), Sure(run', s)
                   PROVE  AsPlanned(run', shelf, s, Left(run, s))
      BY <1>4, <1>6, <2>3, <2>4, <2>6 DEF WrittenFor
    <3>2. Sure(run, s)
      BY <1>4, <1>6, <3>1, SureStays
    <3>3. AsPlanned(run, shelf, s, Left(run, s))
      BY <2>1, <2>2, <2>6, <3>1, <3>2 DEF WrittenFor
    <3>4. s \notin DOMAIN run'.resolutions
      BY <1>1, <1>2, <1>6 DEF SoundRun, Awaited, WhoseTurn, InHand
    <3> QED BY <1>6, <1>7, <3>3, <3>4 DEF AsPlanned, got
  <2> QED BY <2>5, <2>6
<1>11. Faithful(run', sh, shelf')
  BY <1>1, <1>9, <1>10 DEF Faithful
<1>12. \A m \in late : HurtIn(run', m.sku)
  BY <1>6, HurtStays DEF Kept
<1> QED BY <1>1, <1>6, <1>11, <1>12 DEF Kept, Early

(* A read that gets no answer hurts the SKU that it was for. *)
LEMMA LostReadIsKept ==
  ASSUME RunInvariant, NEW sh, Kept(run, sh, shelf, late),
         NEW w \in Warehouse, NEW s \in Sku \cup {NoSku}, LoseRead(w, s)
  PROVE  Kept(run', sh, shelf', late')
<1> DEFINE p == Purpose(run.status)
<1>1. /\ <<w, s>> \in run.waiting /\ run' = Called(run, p, w, s, "lost")
      /\ shelf' = shelf /\ late' = late
  BY DEF LoseRead, world
<1>2. DOMAIN run = RunFields /\ SoundRun(run)
  BY DEF RunInvariant, SoundRun
<1> HIDE DEF p
<1>3. /\ run'.version = run.version /\ run'.status = run.status
      /\ run'.observed = run.observed /\ run'.obs = run.obs
      /\ run'.asked = run.asked /\ run'.current = run.current
      /\ run'.histories = run.histories /\ run'.decisions = run.decisions
      /\ run'.plans = run.plans /\ run'.todo = run.todo
      /\ run'.failed = run.failed /\ run'.checked = run.checked
      /\ run'.resolutions = run.resolutions
      /\ run'.waiting = run.waiting \ {<<w, s>>}
      /\ run.calls \subseteq run'.calls
  BY <1>1, <1>2, CallChanges
<1>4. Faithful(run, sh, shelf)
  BY DEF Kept
<1>5. ASSUME NEW t \in Sku
      PROVE  /\ ReadFrom(run', sh, t) /\ HistoryIn(run', t)
             /\ WrittenFor(run', sh, shelf, t) /\ CheckedIn(run', t)
  <2>1. /\ ReadFrom(run, sh, t) /\ HistoryIn(run, t)
        /\ WrittenFor(run, sh, shelf, t) /\ CheckedIn(run, t)
    BY <1>4 DEF Faithful
  <2>2. HurtIn(run, t) => HurtIn(run', t)
    BY <1>3, HurtStays
  <2>3. s = t => HurtIn(run', t)
    BY <1>1, <1>2, LostCallHurts
  <2>4. ReadFrom(run', sh, t)
    BY <1>3, <2>1, ReadStays
  <2>5. HistoryIn(run', t)
    BY <1>3, <2>1, <2>3, HistoryStays
  <2>6. CheckedIn(run', t)
    BY <1>3, <2>1, <2>2, <2>3 DEF CheckedIn
  <2>7. Left(run', t) = Left(run, t)
    BY <1>3 DEF Left
  <2>8. WrittenFor(run', sh, shelf, t)
    BY <1>2, <1>3, <2>1, <2>7, WritingStays
  <2> QED BY <2>4, <2>5, <2>6, <2>8
<1>6. ASSUME ~Undecided(run'), NEW t \in DOMAIN run'.decisions
      PROVE  ChosenFor(run', t)
  <2>1. ~Undecided(run)
    BY <1>3, <1>6 DEF Undecided
  <2>2. ChosenFor(run, t)
    BY <1>3, <1>4, <1>6, <2>1 DEF Faithful
  <2> QED BY <1>3, <2>2, ChoiceStays
<1>7. Faithful(run', sh, shelf')
  BY <1>1, <1>5, <1>6 DEF Faithful
<1>8. \A m \in late : HurtIn(run', m.sku)
  BY <1>3, HurtStays DEF Kept
<1> QED BY <1>1, <1>3, <1>7, <1>8 DEF Kept, Early

-----------------------------------------------------------------------------
(* Writes *)

(* What a PUT that reaches its warehouse does, and what it leaves alone    *)
LEMMA HandlingChanges ==
  ASSUME shelf \in [Warehouse -> [Sku -> Entry \cup {Missing}]],
         clock \in [Sku -> Nat], NEW m, NEW outcome, Handle(m, outcome),
         m.to \in Warehouse, m.sku \in Sku, m.request \in UpdateRequest,
         shelf[m.to][m.sku] # Missing
  PROVE  /\ \A v \in Warehouse, t \in Sku :
              /\ v # m.to \/ t # m.sku => shelf'[v][t] = shelf[v][t]
              /\ shelf'[v][t] # Missing <=> shelf[v][t] # Missing
              /\ shelf[v][t] # Missing =>
                   shelf'[v][t].hist[1] = shelf[v][t].hist[1]
         /\ outcome = "updated" =>
              LET old == shelf[m.to][m.sku].rec
                  new == shelf'[m.to][m.sku].rec
              IN  /\ new.inventory = m.request.inventory
                  /\ new.version = m.request.target
                  /\ new.cursor = old.cursor + 1
                  /\ new.product = old.product
<1>1. CASE outcome = "updated"
  <2> DEFINE to == m.to
             sku == m.sku
             entry == shelf[to][sku]
             now == clock[sku]
             req == m.request
             after == AfterUpdate(entry, req, now)
  <2>1. shelf' = [shelf EXCEPT ![to][sku] = after]
    BY <1>1 DEF Handle
  <2>2. entry \in Entry /\ now \in Nat /\ req \in UpdateRequest
    OBVIOUS
  <2>3. to \in Warehouse /\ sku \in Sku
    OBVIOUS
  <2> HIDE DEF entry, to, sku, now, req
  <2>4. /\ after \in Entry
        /\ after.hist = Append(entry.hist, ReconcileEvent(entry.rec, req, now))
        /\ after.rec.cursor = entry.rec.cursor + 1
    BY <2>2, UpdateKeepsEntry
  <2>5. entry.hist \in Seq(Event) /\ entry.hist # <<>> /\ entry.rec \in Record
    BY <2>2 DEF Entry
  <2>6. after.hist[1] = entry.hist[1]
    BY <2>4, <2>5
  <2>7. /\ after.rec.inventory = req.inventory /\ after.rec.version = req.target
        /\ after.rec.product = entry.rec.product
    BY <2>5 DEF AfterUpdate, Record
  <2>8. after # Missing
    BY <2>4, WarehouseAssumption
  <2> HIDE DEF after
  <2>9. /\ shelf'[to][sku] = after
        /\ \A v \in Warehouse, t \in Sku :
             v # to \/ t # sku => shelf'[v][t] = shelf[v][t]
    BY <2>1, <2>3, <2>4, ChangedShelf
  <2>10. entry = shelf[to][sku] /\ entry # Missing
    BY DEF entry, to, sku
  <2>11. ASSUME NEW v \in Warehouse, NEW t \in Sku
         PROVE  /\ v # to \/ t # sku => shelf'[v][t] = shelf[v][t]
                /\ shelf'[v][t] # Missing <=> shelf[v][t] # Missing
                /\ shelf[v][t] # Missing =>
                     shelf'[v][t].hist[1] = shelf[v][t].hist[1]
    <3>1. CASE v = to /\ t = sku
      BY <2>6, <2>8, <2>9, <2>10, <3>1
    <3>2. CASE v # to \/ t # sku
      BY <2>9, <3>2
    <3> QED BY <3>1, <3>2
  <2>12. LET new == shelf'[to][sku].rec
         IN  /\ new.inventory = req.inventory /\ new.version = req.target
             /\ new.cursor = entry.rec.cursor + 1
             /\ new.product = entry.rec.product
    BY <2>4, <2>7, <2>9
  <2> QED BY <2>10, <2>11, <2>12 DEF to, sku, req
<1>2. CASE outcome # "updated"
  BY <1>2 DEF Handle
<1> QED BY <1>1, <1>2

LEMMA GrowsOn ==
  ASSUME NEW sh, NEW now, NEW then, Grown(sh, now),
         \A v \in Warehouse, t \in Sku :
           /\ then[v][t] # Missing <=> now[v][t] # Missing
           /\ now[v][t] # Missing => then[v][t].hist[1] = now[v][t].hist[1]
  PROVE  Grown(sh, then)
BY DEF Grown

OthersStay(s, now, then) ==
  \A t \in Sku : t # s => \A w \in Warehouse : then[w][t] = now[w][t]

(* After the end of a PUT the SKU in hand is still in hand, and nothing    *)
(* was said of another one.                                                *)
LEMMA PutLeavesOthers ==
  ASSUME NEW r, SoundRun(r), r.status = "executing", NEW w, NEW answer,
         NEW q, FieldsAfterPut(q, r, w, answer), NEW sh, NEW now, NEW then,
         Faithful(r, sh, now),
         OthersStay(r.current, now, then),
         WrittenFor(q, sh, then, r.current)
  PROVE  /\ Faithful(q, sh, then)
         /\ \A t : HurtIn(r, t) => HurtIn(q, t)
         /\ ~Early(q)
<1>1. /\ q.version = r.version /\ q.observed = r.observed
      /\ q.obs = r.obs /\ q.asked = r.asked /\ q.histories = r.histories
      /\ q.decisions = r.decisions /\ q.plans = r.plans
      /\ q.current = r.current /\ q.checked = r.checked
      /\ q.resolutions = r.resolutions /\ r.calls \subseteq q.calls
      /\ q.status \in {"executing", "verifying"}
      /\ q.failed \subseteq r.failed \cup {r.current}
  BY DEF FieldsAfterPut, FailedAfter
<1>2. \A t : HurtIn(r, t) => HurtIn(q, t)
  BY <1>1, HurtStays
<1>3. /\ \A t \in Sku : ReadFrom(q, sh, t) /\ HistoryIn(q, t)
      /\ ~Undecided(q) => \A t \in DOMAIN q.decisions : ChosenFor(q, t)
  BY <1>1, ReadingOver DEF Early
<1>4. r.current \in DOMAIN r.plans
  BY TurnOfExecution
<1>5. ASSUME NEW t \in Sku
      PROVE  WrittenFor(q, sh, then, t) /\ CheckedIn(q, t)
  <2>1. WrittenFor(r, sh, now, t) /\ CheckedIn(r, t)
    BY DEF Faithful
  <2>2. CheckedIn(q, t)
    <3>1. CASE q.todo = {}
      <4>1. /\ q.status = "verifying"
            /\ q.waiting = r.plans[r.current].participants \X {r.current}
        BY <3>1 DEF FieldsAfterPut
      <4>2. r.plans[r.current].participants = DOMAIN r.obs[r.current]
        BY <1>4, PlansOfSoundRuns
      <4> QED BY <1>1, <4>1, <4>2 DEF CheckedIn
    <3>2. CASE q.todo # {}
      <4>1. q.status = "executing"
        BY <3>2 DEF FieldsAfterPut
      <4> QED BY <1>1, <2>1, <4>1 DEF CheckedIn
    <3> QED BY <3>1, <3>2
  <2>3. CASE t # r.current
    <3>1. Left(q, t) = Left(r, t)
      BY <1>1, <2>3 DEF Left
    <3>2. t \in q.failed => t \in r.failed
      BY <1>1, <2>3
    <3>3. \A v \in Warehouse : then[v][t] = now[v][t]
      BY <2>3 DEF OthersStay
    <3>4. WrittenFor(q, sh, then, t)
      BY <1>1, <2>1, <3>1, <3>2, <3>3, WritingStays
    <3> QED BY <2>2, <3>4
  <2> QED BY <2>2, <2>3
<1>6. Faithful(q, sh, then)
  BY <1>3, <1>5 DEF Faithful
<1> QED BY <1>1, <1>2, <1>6 DEF Early

(* A write of a plan that levels its SKU is taken, if nothing happened to  *)
(* the SKU but what was planned.                                           *)
LEMMA SureWritesAreTaken ==
  ASSUME RunInvariant, run.status = "executing", Sure(run, run.current),
         AsPlanned(run, shelf, run.current, Left(run, run.current)),
         NEW outcome, Handle(Message(run, Min(run.todo)), outcome)
  PROVE  /\ outcome = "updated"
         /\ shelf[Min(run.todo)][run.current].rec
              = run.obs[run.current][Min(run.todo)]
<1> DEFINE s == run.current
           w == Min(run.todo)
           m == Message(run, w)
           plan == run.plans[s]
           rec == shelf[w][s].rec
<1>1. /\ s \in DOMAIN run.plans /\ w \in run.todo /\ w \in DOMAIN run.obs[s]
      /\ w \in plan.targets
  BY TurnOfExecution DEF RunInvariant
<1>2. /\ s \in Sku /\ plan \in Plan /\ plan = PlanFor(run, s)
      /\ run.obs[s] \in Partial(Record)
  BY <1>1, PlansOfSoundRuns DEF RunInvariant
<1>3. rec = run.obs[s][w]
  BY <1>1 DEF AsPlanned, Left
<1>4. rec.version < plan.version
  BY <1>1, <1>3 DEF Sure, Levels
<1>5. rec \in Record
  BY <1>1, <1>2, <1>3, PartialFunctions
<1>6. w \notin ReadOnly
  <2>1. Executable(run, s)
    BY <1>1 DEF RunInvariant, SoundRun, WhatWasWritten
  <2> QED BY <1>1, <1>2, <2>1 DEF Executable, SafePlan
<1>7. /\ m.to = w /\ m.sku = s /\ m.request.expected = run.obs[s][w].version
      /\ m.request.target = plan.version
  BY DEF Message, Request
<1>8. outcome = UpdateOutcome(shelf[m.to][m.sku].rec, m.request,
                              m.to \notin ReadOnly)
  BY DEF Handle
<1> DEFINE req == m.request
           writable == m.to \notin ReadOnly
<1>9. /\ outcome = UpdateOutcome(rec, req, writable)
      /\ req.expected = rec.version /\ req.target = plan.version
      /\ writable = TRUE
  BY <1>3, <1>6, <1>7, <1>8
<1>10. rec.version \in Nat /\ plan.version \in Nat
  BY <1>2, <1>5 DEF Record, Plan
<1> HIDE DEF rec, req, writable, plan
<1>11. outcome = "updated"
  BY <1>4, <1>9, <1>10 DEF UpdateOutcome
<1> QED BY <1>3, <1>11 DEF rec

LEMMA WriteIsKept ==
  ASSUME RunInvariant, NEW sh, Kept(run, sh, shelf, late), ExecuteUpdate
  PROVE  Kept(run', sh, shelf', late')
<1> DEFINE w == Min(run.todo)
           m == Message(run, w)
           s == run.current
<1>1. run.status = "executing" /\ late' = late
  BY DEF ExecuteUpdate
<1>2. PICK outcome \in Outcomes :
        /\ Handle(m, outcome)
        /\ run' = Sent(run, w, IF outcome \in {"unchanged", "updated"} THEN "ok"
                               ELSE "rejected")
  BY DEF ExecuteUpdate
<1> DEFINE answer == IF outcome \in {"unchanged", "updated"} THEN "ok"
                     ELSE "rejected"
<1>3. run' = Sent(run, w, answer)
  BY <1>2
<1>4. DOMAIN run = RunFields /\ SoundRun(run)
  BY DEF RunInvariant, SoundRun
<1>5. outcome = "updated" => answer = "ok"
  OBVIOUS
<1> HIDE DEF answer
<1>6. FieldsAfterPut(run', run, w, answer)
  BY <1>3, <1>4, SentChanges
<1>7. /\ m.to \in Warehouse /\ m.sku \in Sku
      /\ m.request \in UpdateRequest /\ shelf[m.to][m.sku] # Missing
  BY <1>1, MessageIsSound
<1>8. /\ m.to = w /\ m.sku = s
      /\ m.request.target = run.plans[s].version
      /\ m.request.inventory = run.plans[s].inventory
  BY DEF Message, Request
<1> HIDE DEF m
<1>9. /\ \A v \in Warehouse, t \in Sku :
           /\ v # w \/ t # s => shelf'[v][t] = shelf[v][t]
           /\ shelf'[v][t] # Missing <=> shelf[v][t] # Missing
           /\ shelf[v][t] # Missing =>
                shelf'[v][t].hist[1] = shelf[v][t].hist[1]
      /\ outcome = "updated" =>
           Moved(shelf[w][s].rec, shelf'[w][s].rec, run.plans[s])
  BY <1>2, <1>7, <1>8, HandlingChanges DEF RunInvariant, SoundWorld, Moved
<1>10. Faithful(run, sh, shelf)
  BY DEF Kept
<1>11. /\ s \in DOMAIN run.plans /\ s \in Sku /\ w \in run.todo
       /\ DOMAIN run.obs[s] \subseteq Warehouse
       /\ w \in run.plans[s].targets
  BY <1>1, <1>4, TurnOfExecution, PlansOfSoundRuns
<1>12. /\ run'.obs = run.obs /\ run'.plans = run.plans
       /\ run'.checked = run.checked /\ run'.resolutions = run.resolutions
       /\ run'.current = s /\ run.calls \subseteq run'.calls
  BY <1>6 DEF FieldsAfterPut
<1>13. WrittenFor(run', sh, shelf', s)
  <2>1. SUFFICES ASSUME ~HurtIn(run', s), Sure(run', s)
                 PROVE  AsPlanned(run', shelf', s, Left(run', s))
    BY <1>11, <1>12 DEF WrittenFor
  <2>2. ~HurtIn(run, s) /\ Sure(run, s)
    BY <1>11, <1>12, <2>1, HurtStays, SureStays
  <2>3. AsPlanned(run, shelf, s, Left(run, s))
    BY <1>10, <1>11, <2>2 DEF Faithful, WrittenFor
  <2>4. outcome = "updated" /\ shelf[w][s].rec = run.obs[s][w]
    BY <1>1, <1>2, <2>2, <2>3, SureWritesAreTaken DEF m
  <2>5. /\ Moved(run.obs[s][w], shelf'[w][s].rec, run.plans[s])
        /\ answer = "ok"
    BY <1>5, <1>9, <2>4
  <2>6. run'.failed = run.failed /\ run'.todo = run.todo \ {w}
    BY <1>6, <2>5 DEF FieldsAfterPut, FailedAfter, TodoAfter
  <2>7. Left(run, s) = run.todo
    BY <1>1 DEF Left
  <2>8. Left(run', s) = run.todo \ {w}
    <3>1. CASE run'.todo = {}
      BY <1>6, <2>6, <3>1 DEF FieldsAfterPut, Left
    <3>2. CASE run'.todo # {}
      BY <1>1, <1>6, <1>12, <2>6, <3>2 DEF FieldsAfterPut, Left
    <3> QED BY <3>1, <3>2
  <2>9. DOMAIN run.checked[s] = {}
    BY <1>1, <1>10, <1>11 DEF Faithful, CheckedIn
  <2>10. ASSUME NEW v \in DOMAIN run.obs[s]
         PROVE  IF v \in run.plans[s].targets \ (run.todo \ {w})
                THEN Moved(run.obs[s][v], shelf'[v][s].rec, run.plans[s])
                ELSE shelf'[v][s].rec = run.obs[s][v]
    <3>1. CASE v = w
      BY <1>11, <2>5, <3>1
    <3>2. CASE v # w
      <4>1. shelf'[v][s] = shelf[v][s]
        BY <1>9, <1>11, <3>2
      <4> QED BY <2>3, <2>7, <3>2, <4>1 DEF AsPlanned
    <3> QED BY <3>1, <3>2
  <2> QED BY <1>12, <2>3, <2>6, <2>8, <2>9, <2>10 DEF AsPlanned
<1>14. OthersStay(run.current, shelf, shelf')
  BY <1>9 DEF OthersStay
<1>15. /\ Faithful(run', sh, shelf') /\ ~Early(run')
       /\ \A t : HurtIn(run, t) => HurtIn(run', t)
  <2>1. WrittenFor(run', sh, shelf', run.current)
    BY <1>13
  <2> HIDE DEF s, w
  <2> QED BY <1>1, <1>4, <1>6, <1>10, <1>14, <2>1, PutLeavesOthers
<1>16. Grown(sh, shelf')
  BY <1>9, GrowsOn DEF Kept
<1> QED BY <1>1, <1>15, <1>16 DEF Kept

(* A PUT that gets no answer hurts the SKU that it was for. *)
LEMMA LostWriteIsKept ==
  ASSUME RunInvariant, NEW sh, Kept(run, sh, shelf, late), LoseUpdate
  PROVE  Kept(run', sh, shelf', late')
<1> DEFINE w == Min(run.todo)
           m == Message(run, w)
           s == run.current
<1>1. /\ run.status = "executing" /\ late' = late \cup {m}
      /\ shelf' = shelf /\ run' = Sent(run, w, "lost")
  BY DEF LoseUpdate
<1>2. DOMAIN run = RunFields /\ SoundRun(run)
  BY DEF RunInvariant, SoundRun
<1>3. FieldsAfterPut(run', run, w, "lost")
  BY <1>1, <1>2, SentChanges
<1>4. HurtIn(run', s)
  <2> DEFINE call == [purpose |-> "write", to |-> w, sku |-> s,
                      answer |-> "lost"]
  <2>1. call \in run'.calls /\ call.answer = "lost" /\ call.sku = s
    BY <1>3 DEF FieldsAfterPut
  <2> HIDE DEF call
  <2> QED BY <2>1 DEF HurtIn
<1>5. WrittenFor(run', sh, shelf', s) /\ OthersStay(s, shelf, shelf')
  BY <1>1, <1>4 DEF WrittenFor, OthersStay
<1>6. Faithful(run, sh, shelf)
  BY DEF Kept
<1>7. /\ Faithful(run', sh, shelf') /\ ~Early(run')
      /\ \A t : HurtIn(run, t) => HurtIn(run', t)
  <2>1. /\ WrittenFor(run', sh, shelf', run.current)
        /\ OthersStay(run.current, shelf, shelf')
    BY <1>5
  <2> HIDE DEF m, w, s
  <2> QED BY <1>1, <1>2, <1>3, <1>6, <2>1, PutLeavesOthers
<1>8. m.sku = s
  BY DEF Message
<1> HIDE DEF m
<1> QED BY <1>1, <1>4, <1>7, <1>8 DEF Kept

(* A PUT that comes late is of a SKU with a lost call. *)
LEMMA LateWriteIsKept ==
  ASSUME RunInvariant, NEW sh, Kept(run, sh, shelf, late),
         NEW m \in late, HandleLate(m)
  PROVE  Kept(run', sh, shelf', late')
<1>1. run' = run /\ late' = late \ {m}
  BY DEF HandleLate
<1>2. PICK outcome \in Outcomes : Handle(m, outcome)
  BY DEF HandleLate
<1>3. /\ m.to \in Warehouse /\ m.sku \in Sku
      /\ m.request \in UpdateRequest /\ shelf[m.to][m.sku] # Missing
  BY DEF RunInvariant, SoundWorld
<1>4. \A v \in Warehouse, t \in Sku :
        /\ v # m.to \/ t # m.sku => shelf'[v][t] = shelf[v][t]
        /\ shelf'[v][t] # Missing <=> shelf[v][t] # Missing
        /\ shelf[v][t] # Missing => shelf'[v][t].hist[1] = shelf[v][t].hist[1]
  BY <1>2, <1>3, HandlingChanges DEF RunInvariant, SoundWorld
<1>5. HurtIn(run, m.sku) /\ ~Early(run) /\ Faithful(run, sh, shelf)
  BY DEF Kept
<1>6. ASSUME NEW t \in Sku PROVE WrittenFor(run, sh, shelf', t)
  <2>1. WrittenFor(run, sh, shelf, t) /\ SoundRun(run)
    BY <1>5 DEF Faithful, RunInvariant
  <2>2. ~HurtIn(run, t) => \A v \in Warehouse : shelf'[v][t] = shelf[v][t]
    BY <1>4, <1>5
  <2> QED BY <2>1, <2>2, WritingStays
<1>7. Faithful(run', sh, shelf')
  BY <1>1, <1>5, <1>6 DEF Faithful
<1>8. Grown(sh, shelf')
  BY <1>4, GrowsOn DEF Kept
<1> QED BY <1>1, <1>5, <1>7, <1>8 DEF Kept

-----------------------------------------------------------------------------
(* The loop over the decisions *)

(* What was written of a SKU while none is in hand *)
SettledFor(r, sh, now, s) ==
  /\ \A w \in DOMAIN r.obs[s] : r.obs[s][w] = sh[w][s].rec
  /\ ~HurtIn(r, s) =>
       /\ s \notin DOMAIN r.plans => Untouched(sh, now, s)
       /\ Sure(r, s) => AsPlanned(r, now, s, {})

LEMMA LoopKeeps ==
  ASSUME NEW r, Between(r), NEW q, FieldsAfterLoop(q, r), NEW sh, NEW now,
         NEW s \in Sku, SettledFor(r, sh, now, s)
  PROVE  WrittenFor(q, sh, now, s) /\ CheckedIn(q, s)
<1> DEFINE c == q.current
<1>1. /\ q.obs = r.obs /\ q.failed = r.failed
      /\ DOMAIN q.resolutions = DOMAIN r.resolutions \cup Passed(r)
      /\ \A t \in DOMAIN r.resolutions : q.resolutions[t] = r.resolutions[t]
      /\ HurtIn(q, s) <=> HurtIn(r, s)
  BY DEF FieldsAfterLoop, HurtIn
<1>2. /\ DOMAIN r.plans \subseteq DOMAIN r.resolutions
      /\ DOMAIN r.plans = DOMAIN r.checked
      /\ DOMAIN r.decisions \subseteq Sku
      /\ r.failed \subseteq DOMAIN r.plans
      /\ DOMAIN r.obs[s] \subseteq Warehouse
  <2>1. r.obs[s] \in Partial(Record)
    BY DEF Between, WhatWasRead
  <2> QED BY <2>1, PartialFunctions DEF Between, Conflicts
<1>3. ASSUME s \in DOMAIN q.plans <=> s \in DOMAIN r.plans,
             s \in DOMAIN r.plans => /\ q.plans[s] = r.plans[s]
                                     /\ q.checked[s] = r.checked[s],
             Left(q, s) = {}
      PROVE  WrittenFor(q, sh, now, s)
  <2>1. SUFFICES ASSUME ~HurtIn(q, s)
                 PROVE  /\ s \notin DOMAIN q.plans => Untouched(sh, now, s)
                        /\ Sure(q, s) => AsPlanned(q, now, s, {})
    BY <1>3 DEF WrittenFor
  <2>2. s \notin DOMAIN q.plans => Untouched(sh, now, s)
    BY <1>1, <1>3, <2>1 DEF SettledFor
  <2>3. ASSUME Sure(q, s) PROVE AsPlanned(q, now, s, {})
    <3>1. s \in DOMAIN r.plans /\ s \in DOMAIN r.resolutions
      BY <1>2, <1>3, <2>3 DEF Sure
    <3>2. Sure(r, s)
      BY <1>1, <1>3, <2>3, <3>1, SureStays
    <3>3. AsPlanned(r, now, s, {})
      BY <1>1, <2>1, <3>2 DEF SettledFor
    <3> QED BY <1>1, <1>3, <3>1, <3>3 DEF AsPlanned
  <2> QED BY <2>2, <2>3
<1>4. CASE Ready(r) = {}
  <2>1. /\ q.status = "completed" /\ q.plans = r.plans
        /\ q.checked = r.checked
    BY <1>4 DEF FieldsAfterLoop
  <2>2. Left(q, s) = {} /\ CheckedIn(q, s)
    BY <2>1 DEF Left, CheckedIn
  <2> QED BY <1>3, <2>1, <2>2
<1>5. CASE Ready(r) # {}
  <2> DEFINE plan == PlanFor(r, c)
  <2>1. /\ q.status = "executing" /\ c = Min(Ready(r))
        /\ q.plans = With(r.plans, c, plan)
        /\ q.checked = With(r.checked, c, <<>>)
        /\ q.todo = plan.targets
    BY <1>5 DEF FieldsAfterLoop
  <2>2. c \in Ready(r) /\ c \notin Passed(r)
    BY <1>2, <1>5, <2>1, NextInTurn
  <2>3. c \notin DOMAIN r.resolutions /\ c \notin DOMAIN r.plans
    BY <1>2, <2>2 DEF Ready
  <2> HIDE DEF plan, c
  <2>4. /\ DOMAIN q.plans = DOMAIN r.plans \cup {c} /\ q.plans[c] = plan
        /\ DOMAIN q.checked = DOMAIN r.checked \cup {c} /\ q.checked[c] = <<>>
        /\ \A t \in DOMAIN r.plans : q.plans[t] = r.plans[t]
        /\ \A t \in DOMAIN r.checked : q.checked[t] = r.checked[t]
    BY <1>2, <2>1, <2>3 DEF With
  <2>5. DOMAIN <<>> = {}
    OBVIOUS
  <2>6. CheckedIn(q, s)
    BY <2>1, <2>4, <2>5 DEF CheckedIn, c
  <2>7. CASE s # c
    <3>1. Left(q, s) = {}
      BY <2>7 DEF Left, c
    <3> QED BY <1>2, <1>3, <2>4, <2>6, <2>7, <3>1
  <2>8. CASE s = c
    <3>1. Left(q, s) = plan.targets /\ q.plans[s] = plan
      BY <2>1, <2>4, <2>8 DEF Left, c
    <3>2. s \in DOMAIN q.plans /\ s \notin q.failed /\ s \notin DOMAIN q.resolutions
      BY <1>1, <1>2, <2>2, <2>3, <2>4, <2>8
    <3>3. ASSUME ~HurtIn(q, s)
          PROVE  AsPlanned(q, now, s, Left(q, s))
      <4>1. Untouched(sh, now, s)
        BY <1>1, <2>3, <2>8, <3>3 DEF SettledFor
      <4>2. \A w \in DOMAIN q.obs[s] : now[w][s].rec = q.obs[s][w]
        BY <1>1, <1>2, <4>1 DEF Untouched, SettledFor
      <4> QED BY <2>4, <2>5, <2>8, <3>1, <3>2, <4>2 DEF AsPlanned
    <3> QED BY <2>6, <3>2, <3>3 DEF WrittenFor
  <2> QED BY <2>7, <2>8
<1> QED BY <1>4, <1>5

(* A run that has just decided has nothing to wait for and has written     *)
(* nothing.                                                                *)
HistoryOver(r, s) ==
  \A w \in AskedOf(r, s) : HurtIn(r, s) \/ w \in DOMAIN r.histories[s]

DecidedFor(r, s) ==
  LET d == Decide(First(r, s))
  IN  /\ AskedOf(r, s) = InvestigationPlan(d, First(r, s))
      /\ r.decisions[s] = IF d.outcome # "INVESTIGATE" THEN d
                          ELSE Reassessed(AskedOf(r, s), EvidenceOf(r, s))

LEMMA DecidedKeeps ==
  ASSUME NEW r, JustDecided(r), NEW q, q = Decided(r),
         NEW sh, \A s \in Sku : ReadFrom(r, sh, s),
         \A s \in Sku : HistoryOver(r, s),
         \A s \in DOMAIN r.decisions : DecidedFor(r, s)
  PROVE  Faithful(q, sh, sh) /\ ~Early(q)
<1>1. /\ q.version = r.version /\ q.observed = r.observed
      /\ q.obs = r.obs /\ q.asked = r.asked /\ q.histories = r.histories
      /\ q.decisions = r.decisions /\ q.calls = r.calls
      /\ q.status \in {"executing", "completed"}
      /\ \A s \in Sku : WrittenFor(q, sh, sh, s) /\ CheckedIn(q, s)
  <2>1. DOMAIN r = RunFields
    BY DEF JustDecided
  <2>2. CASE r.version = 2
    <3> DEFINE p == [r EXCEPT !.status = "completed"]
    <3>1. q = p
      BY <2>2 DEF Decided
    <3>2. /\ p.version = r.version /\ p.observed = r.observed
          /\ p.obs = r.obs /\ p.asked = r.asked
          /\ p.histories = r.histories /\ p.calls = r.calls
          /\ p.decisions = r.decisions /\ p.status = "completed"
          /\ p.plans = r.plans
      BY <2>1 DEF RunFields
    <3> HIDE DEF p
    <3>3. DOMAIN q.plans = {}
      BY <3>1, <3>2 DEF JustDecided
    <3> QED BY <3>1, <3>2, <3>3 DEF WrittenFor, Untouched, Sure, CheckedIn
  <2>3. CASE r.version = 3
    <3>1. Between(r)
      BY <2>3 DEF JustDecided, Between
    <3>2. FieldsAfterLoop(q, r)
      BY <2>1, <2>3, ProceedChanges DEF Decided
    <3>3. \A s \in Sku : SettledFor(r, sh, sh, s)
      BY DEF SettledFor, ReadFrom, Untouched, Sure, JustDecided
    <3>4. \A s \in Sku : WrittenFor(q, sh, sh, s) /\ CheckedIn(q, s)
      BY <3>1, <3>2, <3>3, LoopKeeps
    <3> QED BY <3>2, <3>4 DEF FieldsAfterLoop
  <2> QED BY <2>2, <2>3 DEF JustDecided
<1>2. \A s : /\ AskedOf(q, s) = AskedOf(r, s) /\ First(q, s) = First(r, s)
             /\ EvidenceOf(q, s) = EvidenceOf(r, s)
             /\ HurtIn(q, s) <=> HurtIn(r, s)
  BY <1>1 DEF AskedOf, First, EvidenceOf, HurtIn
<1>3. ASSUME NEW s \in Sku PROVE ReadFrom(q, sh, s) /\ HistoryIn(q, s)
  BY <1>1, <1>2 DEF ReadFrom, HistoryIn, HistoryOver
<1>4. \A s \in DOMAIN q.decisions : ChosenFor(q, s)
  BY <1>1, <1>2 DEF ChosenFor, Choice, DecidedFor
<1> QED BY <1>1, <1>3, <1>4 DEF Faithful, Early

-----------------------------------------------------------------------------
(* The decisions *)

(* The run of an analysis once the decisions are taken *)
LEMMA DecidingChanges ==
  ASSUME NEW r, DOMAIN r = RunFields, NEW decisions, NEW asked
  PROVE  LET next == [r EXCEPT !.decisions = decisions, !.asked = asked] IN
         /\ DOMAIN next = RunFields /\ next.version = r.version
         /\ next.observed = r.observed /\ next.obs = r.obs
         /\ next.asked = asked /\ next.histories = r.histories
         /\ next.decisions = decisions /\ next.plans = r.plans
         /\ next.checked = r.checked /\ next.todo = r.todo
         /\ next.waiting = r.waiting /\ next.failed = r.failed
         /\ next.verified = r.verified /\ next.resolutions = r.resolutions
         /\ next.current = r.current /\ next.calls = r.calls
         /\ next.status = r.status
BY DEF RunFields

(* Before any history is read each conflict has its first decision, and    *)
(* the calls that it asks for are asked for.                               *)
LEMMA FirstChoices ==
  ASSUME NEW r, WhatWasRead(r), NEW sh, \A s \in Sku : ReadFrom(r, sh, s),
         r.status = "observing", \A s \in Sku : DOMAIN r.histories[s] = {},
         NEW s \in Conflicts(r)
  PROVE  LET d == Decide(First(r, s)) IN
         /\ Decisions(r)[s] = d
         /\ {w \in Warehouse : <<w, s>> \in AskedBy(r, Decisions(r))}
              = InvestigationPlan(d, First(r, s))
         /\ d.outcome = "INVESTIGATE"
              <=> {w \in Warehouse : <<w, s>> \in AskedBy(r, Decisions(r))} # {}
<1> DEFINE decisions == Decisions(r)
           d == Decide(First(r, s))
<1>1. s \in Sku
  BY DEF Conflicts
<1>2. r.histories[s] = <<>>
  BY <1>1 DEF ReadFrom
<1>3. EvidenceOf(r, s) = First(r, s)
  BY <1>2 DEF EvidenceOf, First
<1>4. decisions[s] = d
  BY <1>3 DEF Decisions
<1>5. /\ InvestigationPlan(d, First(r, s)) \subseteq DOMAIN r.obs[s]
      /\ d.outcome = "INVESTIGATE" <=> InvestigationPlan(d, First(r, s)) # {}
  <2> HIDE DEF d
  <2> QED BY <1>3, <1>4, FirstDecisions
<1>6. DOMAIN r.obs[s] \subseteq Warehouse
  BY <1>1, PartialFunctions DEF WhatWasRead
<1> HIDE DEF decisions, d
<1>7. \A w : w \in {v \in Warehouse : <<v, s>> \in AskedBy(r, decisions)}
               <=> w \in InvestigationPlan(d, First(r, s))
  BY <1>3, <1>4, <1>5, <1>6 DEF AskedBy
<1>8. {v \in Warehouse : <<v, s>> \in AskedBy(r, decisions)}
        = InvestigationPlan(d, First(r, s))
  BY <1>7
<1> QED BY <1>4, <1>5, <1>8 DEF decisions, d

LEMMA AnalysisIsKept ==
  ASSUME RunInvariant, NEW sh, Kept(run, sh, shelf, late), Analyse
  PROVE  Kept(run', sh, shelf', late')
<1> DEFINE decisions == Decisions(run)
           asked == AskedBy(run, decisions)
           next == [run EXCEPT !.decisions = decisions, !.asked = asked]
<1>1. /\ run.status = "observing" /\ run.waiting = {}
      /\ run' = Analysis(run, decisions)
      /\ shelf' = shelf /\ late' = late
  BY DEF Analyse, world
<1>2. /\ DOMAIN run = RunFields /\ SoundRun(run) /\ WhatWasRead(run)
      /\ shelf = sh /\ late = {}
  BY <1>1 DEF RunInvariant, SoundRun, Kept, Early
<1>3. /\ DOMAIN run.decisions = {} /\ DOMAIN run.plans = {}
      /\ DOMAIN run.checked = {} /\ DOMAIN run.resolutions = {}
      /\ run.failed = {} /\ run.verified = {} /\ run.asked = {}
      /\ \A s : AskedOf(run, s) = {}
      /\ \A s \in Sku : DOMAIN run.histories[s] = {}
  BY <1>1, <1>2, ObservingDecidesNothing DEF Undecided
<1>4. run.current = NoSku /\ run.todo = {}
  BY <1>1, <1>2, <1>3 DEF SoundRun, WhoseTurn
<1>5. \A s \in Sku : ReadFrom(run, sh, s)
  BY DEF Kept, Faithful
<1>6. DOMAIN decisions = Conflicts(run)
  BY DEF Decisions
<1>7. run' = IF run.observed # Warehouse THEN [run EXCEPT !.status = "failed"]
             ELSE IF run.version = 1 THEN [run EXCEPT !.status = "completed"]
             ELSE IF asked = {} THEN Decided(next)
             ELSE [next EXCEPT !.status = "investigating", !.waiting = asked]
  BY <1>1 DEF Analysis, AskedBy
<1>8. \A s \in Conflicts(run) :
        /\ decisions[s] = Decide(First(run, s))
        /\ {w \in Warehouse : <<w, s>> \in asked}
             = InvestigationPlan(Decide(First(run, s)), First(run, s))
        /\ Decide(First(run, s)).outcome = "INVESTIGATE"
             <=> {w \in Warehouse : <<w, s>> \in asked} # {}
        /\ SoundDecision(decisions[s], run.obs[s])
  BY <1>1, <1>2, <1>3, <1>5, FirstChoices, FirstDecisions
<1>9. /\ asked \in SUBSET (Warehouse \X Sku)
      /\ \A s \in Sku : {w \in Warehouse : <<w, s>> \in asked}
                          \subseteq DOMAIN run.obs[s]
  BY <1>2, <1>3, AskedByAnalysis
<1>10. \A s \in Sku \ Conflicts(run) : {w \in Warehouse : <<w, s>> \in asked} = {}
  BY DEF AskedBy
<1> HIDE DEF decisions, asked
<1>11. /\ DOMAIN next = RunFields /\ next.version = run.version
       /\ next.observed = run.observed /\ next.obs = run.obs
       /\ next.asked = asked /\ next.histories = run.histories
       /\ next.decisions = decisions /\ next.plans = run.plans
       /\ next.checked = run.checked /\ next.todo = run.todo
       /\ next.waiting = run.waiting /\ next.failed = run.failed
       /\ next.verified = run.verified /\ next.resolutions = run.resolutions
       /\ next.current = run.current /\ next.calls = run.calls
       /\ next.status = run.status
  BY <1>2, DecidingChanges
<1> HIDE DEF next
<1>12. \A s : /\ AskedOf(next, s) = {w \in Warehouse : <<w, s>> \in asked}
              /\ First(next, s) = First(run, s)
  BY <1>11 DEF AskedOf, First
<1>13. Conflicts(next) = Conflicts(run)
  BY <1>11 DEF Conflicts
<1>14. ASSUME run.observed # Warehouse \/ run.version = 1
       PROVE  Kept(run', sh, shelf', late')
  <2> DEFINE st == IF run.observed # Warehouse THEN "failed" ELSE "completed"
  <2>1. run' = [run EXCEPT !.status = st]
    BY <1>7, <1>14
  <2> HIDE DEF st
  <2>2. /\ run'.version = run.version /\ run'.status = st
        /\ run'.observed = run.observed /\ run'.obs = run.obs
        /\ run'.asked = run.asked /\ run'.histories = run.histories
        /\ run'.plans = run.plans
    BY <1>2, <2>1 DEF RunFields
  <2>3. Undecided(run') /\ st \in {"failed", "completed"}
    BY <1>14, <2>2 DEF Undecided, st
  <2>4. ASSUME NEW s \in Sku
        PROVE  /\ ReadFrom(run', sh, s) /\ HistoryIn(run', s)
               /\ WrittenFor(run', sh, sh, s) /\ CheckedIn(run', s)
    <3>1. ReadFrom(run', sh, s)
      BY <1>5, <2>2, <2>3 DEF ReadFrom
    <3>2. HistoryIn(run', s)
      BY <1>3, <2>2 DEF HistoryIn, AskedOf
    <3>3. WrittenFor(run', sh, sh, s) /\ CheckedIn(run', s)
      BY <1>3, <2>2, <2>3 DEF WrittenFor, Untouched, Sure, CheckedIn
    <3> QED BY <3>1, <3>2, <3>3
  <2>5. Faithful(run', sh, sh)
    BY <2>3, <2>4 DEF Faithful
  <2> QED BY <1>1, <1>2, <2>5, NothingGrown DEF Kept
<1>15. ASSUME run.observed = Warehouse, run.version # 1, asked = {}
       PROVE  Kept(run', sh, shelf', late')
  <2>1. run' = Decided(next)
    BY <1>7, <1>15
  <2>2. run.version \in {2, 3}
    BY <1>2, <1>15 DEF WhatWasRead
  <2>3. WhatWasRead(next)
    BY <1>2, <1>3, <1>11, <1>12, <1>15 DEF WhatWasRead
  <2>4. \A s \in Conflicts(run) :
          /\ SoundDecision(decisions[s], run.obs[s])
          /\ decisions[s].outcome # "INVESTIGATE"
    BY <1>8, <1>15
  <2>5. JustDecided(next)
    BY <1>1, <1>3, <1>4, <1>6, <1>11, <1>13, <2>2, <2>3, <2>4 DEF JustDecided
  <2>6. \A s \in Sku : ReadFrom(next, sh, s)
    BY <1>5, <1>11 DEF ReadFrom
  <2>7. \A s \in Sku : HistoryOver(next, s)
    BY <1>12, <1>15 DEF HistoryOver
  <2>8. ASSUME NEW s \in DOMAIN next.decisions PROVE DecidedFor(next, s)
    <3> DEFINE d == Decide(First(run, s))
    <3>1. s \in Conflicts(run)
      BY <1>6, <1>11
    <3>2. /\ next.decisions[s] = d /\ d.outcome # "INVESTIGATE"
          /\ {w \in Warehouse : <<w, s>> \in asked}
               = InvestigationPlan(d, First(run, s))
      BY <1>8, <1>11, <2>4, <3>1
    <3>3. First(next, s) = First(run, s)
      BY <1>12
    <3>4. AskedOf(next, s) = InvestigationPlan(d, First(next, s))
      BY <1>12, <3>2, <3>3
    <3> QED BY <3>2, <3>3, <3>4 DEF DecidedFor
  <2>9. Faithful(run', sh, sh) /\ ~Early(run')
    BY <2>1, <2>5, <2>6, <2>7, <2>8, DecidedKeeps
  <2> QED BY <1>1, <1>2, <2>9, NothingGrown DEF Kept
<1>16. ASSUME run.observed = Warehouse, run.version # 1, asked # {}
       PROVE  Kept(run', sh, shelf', late')
  <2>1. run' = [next EXCEPT !.status = "investigating", !.waiting = asked]
    BY <1>7, <1>16
  <2>2. /\ run'.version = run.version /\ run'.status = "investigating"
        /\ run'.observed = run.observed /\ run'.obs = run.obs
        /\ run'.asked = asked /\ run'.histories = run.histories
        /\ run'.decisions = decisions /\ run'.plans = run.plans
        /\ run'.waiting = asked
    BY <1>11, <2>1 DEF RunFields
  <2>3. ASSUME NEW s \in Sku
        PROVE  /\ ReadFrom(run', sh, s) /\ HistoryIn(run', s)
               /\ WrittenFor(run', sh, sh, s) /\ CheckedIn(run', s)
    <3>1. ReadFrom(run', sh, s)
      BY <1>5, <2>2 DEF ReadFrom
    <3>2. HistoryIn(run', s)
      BY <2>2 DEF HistoryIn, AskedOf
    <3>3. WrittenFor(run', sh, sh, s) /\ CheckedIn(run', s)
      BY <1>3, <2>2 DEF WrittenFor, Untouched, Sure, CheckedIn
    <3> QED BY <3>1, <3>2, <3>3
  <2>4. ASSUME NEW s \in DOMAIN run'.decisions PROVE ChosenFor(run', s)
    <3>1. /\ AskedOf(run', s) = {w \in Warehouse : <<w, s>> \in asked}
          /\ First(run', s) = First(run, s) /\ s \in Conflicts(run)
      BY <1>6, <2>2 DEF AskedOf, First
    <3> QED BY <1>8, <2>2, <3>1 DEF ChosenFor, Choice
  <2>5. Faithful(run', sh, sh)
    BY <2>3, <2>4 DEF Faithful
  <2> QED BY <1>1, <1>2, <2>5, NothingGrown DEF Kept
<1> QED BY <1>14, <1>15, <1>16

LEMMA ReassessmentIsKept ==
  ASSUME RunInvariant, NEW sh, Kept(run, sh, shelf, late), Reassess
  PROVE  Kept(run', sh, shelf', late')
<1> DEFINE decisions == Reassessments(run)
           next == [run EXCEPT !.decisions = decisions]
<1>1. /\ run.status = "investigating" /\ run.waiting = {}
      /\ run' = Decided(next)
      /\ shelf' = shelf /\ late' = late
  BY DEF Reassess, world
<1>2. /\ DOMAIN run = RunFields /\ SoundRun(run)
      /\ shelf = sh /\ late = {}
  BY <1>1 DEF RunInvariant, SoundRun, Kept, Early
<1>3. JustDecided(next)
  BY <1>1, <1>2, ReassessmentDecides
<1>4. DOMAIN decisions = DOMAIN run.decisions
  BY DEF Reassessments
<1>5. \A s \in DOMAIN run.decisions :
        decisions[s] = IF run.decisions[s].outcome # "INVESTIGATE"
                       THEN run.decisions[s]
                       ELSE Reassessed(AskedOf(run, s), EvidenceOf(run, s))
  BY DEF Reassessments
<1> HIDE DEF decisions
<1>6. /\ next.observed = run.observed /\ next.obs = run.obs
      /\ next.asked = run.asked /\ next.histories = run.histories
      /\ next.decisions = decisions /\ next.calls = run.calls
      /\ next.status = run.status
  BY <1>2 DEF RunFields
<1> HIDE DEF next
<1>7. \A s : /\ AskedOf(next, s) = AskedOf(run, s)
             /\ First(next, s) = First(run, s)
             /\ EvidenceOf(next, s) = EvidenceOf(run, s)
             /\ HurtIn(next, s) <=> HurtIn(run, s)
  BY <1>6 DEF AskedOf, First, EvidenceOf, HurtIn
<1>8. \A s \in Sku : ReadFrom(next, sh, s)
  BY <1>6 DEF Kept, Faithful, ReadFrom
<1>9. \A s \in Sku : HistoryOver(next, s)
  BY <1>1, <1>6, <1>7 DEF Kept, Faithful, HistoryIn, HistoryOver
<1>10. ~Undecided(run)
  BY <1>1, <1>2 DEF SoundRun, WhatWasDecided, Undecided
<1>11. ASSUME NEW s \in DOMAIN next.decisions PROVE DecidedFor(next, s)
  <2>1. ChosenFor(run, s) /\ s \in DOMAIN run.decisions
    BY <1>4, <1>6, <1>10 DEF Kept, Faithful
  <2> QED BY <1>1, <1>5, <1>6, <1>7, <2>1 DEF ChosenFor, Choice, DecidedFor
<1>12. Faithful(run', sh, sh) /\ ~Early(run')
  BY <1>1, <1>3, <1>8, <1>9, <1>11, DecidedKeeps
<1> QED BY <1>1, <1>2, <1>12, NothingGrown DEF Kept

-----------------------------------------------------------------------------
(* The verdict *)

(* A plan that levels its SKU and of which every write was taken is        *)
(* verified.                                                               *)
LEMMA SurePlansAreVerified ==
  ASSUME NEW r, SoundRun(r), r.status = "verifying", r.waiting = {},
         NEW now, Sure(r, r.current), AsPlanned(r, now, r.current, {}),
         CheckedIn(r, r.current), ~HurtIn(r, r.current)
  PROVE  /\ Verdict(r) = "RESOLVED"
         /\ DOMAIN r.checked[r.current] = DOMAIN r.obs[r.current]
<1> DEFINE s == r.current
           plan == r.plans[s]
           obs == r.obs[s]
           checked == r.checked[s]
           v == [plan |-> plan, checked |-> checked]
<1>1. s \in DOMAIN r.plans
  BY DEF Sure
<1>2. /\ plan.participants = DOMAIN obs /\ plan.targets \subseteq DOMAIN obs
      /\ obs \in Partial(Record) /\ s \in Sku
  BY <1>1, PlansOfSoundRuns
<1>3. DOMAIN checked \subseteq DOMAIN obs
  BY <1>1 DEF SoundRun, WhatWasWritten
<1>4. DOMAIN checked = DOMAIN obs
  BY <1>3 DEF CheckedIn
<1>5. PICK c \in Nat : \A w \in DOMAIN obs :
        obs[w].cursor = IF w \in plan.targets THEN c - 1 ELSE c
  BY DEF Sure, Levels
<1>6. ASSUME NEW w \in DOMAIN obs
      PROVE  /\ checked[w].inventory = plan.inventory
             /\ checked[w].version = plan.version
             /\ checked[w].cursor = c
             /\ checked[w].product = obs[w].product
  <2>1. checked[w] = now[w][s].rec
    BY <1>4 DEF AsPlanned
  <2>2. CASE w \in plan.targets
    <3>1. Moved(obs[w], checked[w], plan)
      BY <2>1, <2>2 DEF AsPlanned
    <3>2. obs[w].cursor = c - 1
      BY <1>5, <2>2
    <3> QED BY <3>1, <3>2 DEF Moved
  <2>3. CASE w \notin plan.targets
    <3>1. checked[w] = obs[w]
      BY <2>1, <2>3 DEF AsPlanned
    <3> QED BY <1>5, <2>3, <3>1 DEF Sure, Levels
  <2> QED BY <2>2, <2>3
<1>7. \A u, w \in DOMAIN obs : obs[u].product = obs[w].product
  BY OneProduct DEF Sure
<1>8. v.plan = plan /\ v.checked = checked
  OBVIOUS
<1>9. s \notin r.failed
  BY DEF AsPlanned
<1> HIDE DEF v, plan, obs, checked
<1>10. /\ ~Several(Inventories(checked)) /\ ~Several(Versions(checked))
       /\ ~Several(Cursors(checked))
  BY <1>4, <1>6 DEF Several, Inventories, Versions, Cursors, Values,
                    InventoryOf, VersionOf, CursorOf
<1>11. ~IdentityMismatch(checked)
  BY <1>4, <1>6, <1>7 DEF IdentityMismatch, Several, Values, ProductOf
<1>12. Verified(v)
  BY <1>2, <1>4, <1>6, <1>8, <1>10, <1>11 DEF Verified
<1> QED BY <1>4, <1>9, <1>12 DEF Verdict, v, plan, checked, obs

LEMMA ResolutionIsKept ==
  ASSUME RunInvariant, NEW sh, Kept(run, sh, shelf, late), Resolve
  PROVE  Kept(run', sh, shelf', late')
<1>1. /\ run.status = "verifying" /\ run.waiting = {}
      /\ run' = Resolution(run)
      /\ shelf' = shelf /\ late' = late
  BY DEF Resolve, world
<1>2. SoundRun(run) /\ Faithful(run, sh, shelf)
  BY DEF RunInvariant, Kept
<1>3. PICK q : /\ Between(q) /\ run' = Proceed(q)
               /\ q.version = run.version /\ q.observed = run.observed
               /\ q.obs = run.obs /\ q.asked = run.asked
               /\ q.histories = run.histories /\ q.decisions = run.decisions
               /\ q.plans = run.plans /\ q.checked = run.checked
               /\ q.failed = run.failed /\ q.calls = run.calls
               /\ q.resolutions = With(run.resolutions, run.current,
                                       Verdict(run))
  BY <1>1, <1>2, ResolutionProceeds
<1>4. FieldsAfterLoop(run', q)
  BY <1>3, ProceedChanges DEF Between
<1>5. /\ run'.version = run.version /\ run'.observed = run.observed
      /\ run'.obs = run.obs /\ run'.asked = run.asked
      /\ run'.histories = run.histories /\ run'.decisions = run.decisions
      /\ run'.calls = run.calls /\ run'.status \in {"executing", "completed"}
  BY <1>3, <1>4 DEF FieldsAfterLoop
<1>6. ASSUME NEW s \in Sku PROVE SettledFor(q, sh, shelf, s)
  <2>1. /\ ReadFrom(run, sh, s) /\ WrittenFor(run, sh, shelf, s)
        /\ CheckedIn(run, s)
    BY <1>2 DEF Faithful
  <2>2. Left(run, s) = {} /\ (HurtIn(q, s) <=> HurtIn(run, s))
    BY <1>1, <1>3 DEF Left, HurtIn
  <2>3. \A w \in DOMAIN q.obs[s] : q.obs[s][w] = sh[w][s].rec
    BY <1>3, <2>1 DEF ReadFrom
  <2>4. ~HurtIn(q, s) /\ s \notin DOMAIN q.plans => Untouched(sh, shelf, s)
    BY <1>3, <2>1, <2>2 DEF WrittenFor
  <2>5. ASSUME ~HurtIn(q, s), Sure(q, s) PROVE AsPlanned(q, shelf, s, {})
    <3>1. Sure(run, s) /\ ~HurtIn(run, s)
      BY <1>3, <2>2, <2>5 DEF Sure
    <3>2. AsPlanned(run, shelf, s, {})
      BY <2>1, <2>2, <3>1 DEF WrittenFor
    <3>3. s = run.current =>
            Verdict(run) = "RESOLVED" /\ DOMAIN run.checked[s] = DOMAIN run.obs[s]
      BY <1>1, <1>2, <2>1, <3>1, <3>2, SurePlansAreVerified
    <3>4. s \in DOMAIN q.resolutions =>
            q.resolutions[s] = "RESOLVED" /\ DOMAIN q.checked[s] = DOMAIN q.obs[s]
      <4>1. s = run.current => q.resolutions[s] = Verdict(run)
        BY <1>3 DEF With
      <4>2. s # run.current /\ s \in DOMAIN q.resolutions =>
              /\ s \in DOMAIN run.resolutions
              /\ q.resolutions[s] = run.resolutions[s]
        BY <1>3 DEF With
      <4> QED BY <1>3, <3>2, <3>3, <4>1, <4>2 DEF AsPlanned
    <3> QED BY <1>3, <3>2, <3>4 DEF AsPlanned
  <2> QED BY <2>3, <2>4, <2>5 DEF SettledFor
<1>7. \A s \in Sku : WrittenFor(run', sh, shelf, s) /\ CheckedIn(run', s)
  BY <1>3, <1>4, <1>6, LoopKeeps
<1>8. /\ \A s \in Sku : ReadFrom(run', sh, s) /\ HistoryIn(run', s)
      /\ ~Undecided(run') => \A s \in DOMAIN run'.decisions : ChosenFor(run', s)
  BY <1>1, <1>2, <1>5, ReadingOver DEF Early
<1>9. Faithful(run', sh, shelf')
  BY <1>1, <1>7, <1>8 DEF Faithful
<1>10. \A m \in late : HurtIn(run', m.sku)
  BY <1>5, HurtStays DEF Kept
<1> QED BY <1>1, <1>5, <1>9, <1>10 DEF Kept, Early

-----------------------------------------------------------------------------
(* Promise is an invariant. *)

LEMMA PromiseHolds ==
  /\ Init => Promise
  /\ Promise /\ [Next]_vars => Promise'
<1>1. Init => Promise
  BY RunInvariantHolds, PromiseAtFirst
<1>2. ASSUME Promise, [Next]_vars PROVE Promise'
  <2>1. RunInvariant /\ RunInvariant'
    BY <1>2, RunInvariantHolds DEF Promise
  <2>2. PICK sh \in Shelves : Kept(run, sh, shelf, late)
    BY <1>2 DEF Promise
  <2>3. Kept(run', sh, shelf', late')
    <3>1. CASE Begin
      BY <2>1, <2>2, <3>1, BeginIsKept
    <3>2. CASE Answered
      BY <2>1, <2>2, <3>2, CatalogueIsKept, EventsAreKept, VerificationIsKept
         DEF Answered
    <3>3. CASE Analyse \/ Reassess \/ Resolve
      BY <2>1, <2>2, <3>3, AnalysisIsKept, ReassessmentIsKept, ResolutionIsKept
    <3>4. CASE ExecuteUpdate \/ LoseUpdate
      BY <2>1, <2>2, <3>4, WriteIsKept, LostWriteIsKept
    <3>5. CASE \E w \in Warehouse, s \in Sku \cup {NoSku} : LoseRead(w, s)
      BY <2>1, <2>2, <3>5, LostReadIsKept
    <3>6. CASE \E m \in late : HandleLate(m)
      BY <2>1, <2>2, <3>6, LateWriteIsKept
    <3>7. CASE Terminated \/ UNCHANGED vars
      BY <2>2, <3>7 DEF Terminated, vars
    <3> QED BY <1>2, <3>1, <3>2, <3>3, <3>4, <3>5, <3>6, <3>7
            DEF Next, RunStep, Fault
  <2> QED BY <2>1, <2>2, <2>3 DEF Promise
<1> QED BY <1>1, <1>2

-----------------------------------------------------------------------------
(* The promised kinds of conflicts *)

(* Opened: every warehouse holds the SKU from its opening event on.        *)
Opened(sh, s) ==
  \A w \in Warehouse : sh[w][s] # Missing /\ sh[w][s].hist[1].opening

(* The records of the SKU s on the shelves sh, and the histories a client  *)
(* reads of them                                                           *)
SeenIn(sh, s) == [w \in Warehouse |-> sh[w][s].rec]
RecentIn(sh, s) ==
  [w \in Warehouse |-> RecentEvents(sh[w][s].hist, HistoryLimit)]

(* What evident shelves say of a SKU that all warehouses know from its     *)
(* opening on                                                              *)
LEMMA EvidentStock ==
  ASSUME NEW sh, EvidentShelf(sh), NEW s \in Sku, Opened(sh, s),
         NEW obs, obs = SeenIn(sh, s), NEW read, read = RecentIn(sh, s)
  PROVE  /\ ~IdentityMismatch(obs)
         /\ \A v, w \in Warehouse : OneBehind(obs, v, w) =>
              Extends(read[w], obs[v]) /\ Explains(read[w], obs[v], obs[w])
         /\ SameVersionDivergence(obs) =>
              /\ \A v, w \in Warehouse : read[v] = read[w] /\ Complete(read[w])
              /\ \E w \in Warehouse : \A v \in Warehouse :
                   Total(read[v]) = obs[v].inventory.on_hand <=> v # w
<1> DEFINE stock == [w \in Warehouse |-> sh[w][s]]
<1>1. Evident(stock)
  BY DEF EvidentShelf
<1>2. /\ obs = [w \in Warehouse |-> stock[w].rec]
      /\ read = [w \in Warehouse |-> RecentEvents(stock[w].hist, HistoryLimit)]
      /\ \A w \in Warehouse : stock[w] # Missing /\ stock[w].hist[1].opening
  BY DEF SeenIn, RecentIn, Opened
<1> HIDE DEF stock
<1> DEFINE seen == [w \in Warehouse |-> stock[w].rec]
           recent == [w \in Warehouse |->
                        RecentEvents(stock[w].hist, HistoryLimit)]
<1>3. /\ ~IdentityMismatch(seen)
      /\ \A v, w \in Warehouse : OneBehind(seen, v, w) =>
           Extends(recent[w], seen[v]) /\ Explains(recent[w], seen[v], seen[w])
      /\ SameVersionDivergence(seen) =>
           /\ \A v, w \in Warehouse : recent[v] = recent[w] /\ Complete(recent[w])
           /\ \E w \in Warehouse : \A v \in Warehouse :
                Total(recent[v]) = seen[v].inventory.on_hand <=> v # w
  BY <1>1, <1>2, Zenon DEF Evident
<1>4. seen = obs /\ recent = read
  BY <1>2
<1> HIDE DEF seen, recent
<1> QED BY <1>3, <1>4, Zenon

(* The SKU s was seen everywhere as sh holds it, all its histories that    *)
(* were asked for were read, and it is decided.                            *)
Weighed(r, sh, s) ==
  /\ DOMAIN r.obs[s] = Warehouse
  /\ r.obs[s] \in [Warehouse -> Record]
  /\ r.obs[s] = SeenIn(sh, s)
  /\ ~IdentityMismatch(r.obs[s])
  /\ DOMAIN r.histories[s] = AskedOf(r, s)
  /\ \A w \in AskedOf(r, s) :
       r.histories[s][w] = RecentEvents(sh[w][s].hist, HistoryLimit)
  /\ AskedOf(r, s) = InvestigationPlan(Decide(First(r, s)), First(r, s))
  /\ r.decisions[s] =
       IF Decide(First(r, s)).outcome # "INVESTIGATE" THEN Decide(First(r, s))
       ELSE Reassessed(AskedOf(r, s), EvidenceOf(r, s))

LEMMA FirstIsObserved ==
  ASSUME NEW r, NEW sh, NEW s, Weighed(r, sh, s)
  PROVE  /\ Observed(First(r, s)) /\ Investigated(First(r, s)) = {}
         /\ First(r, s).obs = r.obs[s]
         /\ \A ws : Decide(First(r, s)) = Investigate(ws) =>
              AskedOf(r, s) = ws
         /\ \A source, targets :
              Decide(First(r, s)) = Reconcile(source, targets) =>
                AskedOf(r, s) = {}
<1> DEFINE e == First(r, s)
<1>1. e.obs = r.obs[s] /\ e.histories = <<>>
  BY DEF First
<1>2. DOMAIN <<>> = {}
  OBVIOUS
<1> HIDE DEF e
<1>3. Observed(e) /\ Investigated(e) = {}
  BY <1>1, <1>2 DEF Weighed, Observed, Investigated
<1>4. ASSUME NEW ws, Decide(e) = Investigate(ws) PROVE AskedOf(r, s) = ws
  <2>1. InvestigationPlan(Decide(e), e) = ws
    <3> DEFINE d == Decide(e)
    <3>1. d.outcome = "INVESTIGATE" /\ d.investigate = ws
      BY <1>4, InvestigateFields
    <3> HIDE DEF d
    <3> QED BY <1>3, <3>1 DEF InvestigationPlan, d
  <2> QED BY <2>1 DEF Weighed, e
<1>5. ASSUME NEW source, NEW targets, Decide(e) = Reconcile(source, targets)
      PROVE  AskedOf(r, s) = {}
  <2>1. Decide(e).outcome # "INVESTIGATE"
    BY <1>5, ReconcileFields
  <2>2. InvestigationPlan(Decide(e), e) = {}
    BY <2>1 DEF InvestigationPlan
  <2> QED BY <2>2 DEF Weighed, e
<1> QED BY <1>1, <1>3, <1>4, <1>5 DEF e

(* The decision about SKU s is promising: the warehouses in asked were     *)
(* asked for their histories and the plan writes the targets.              *)
Handled(r, s, asked, targets) ==
  /\ Promising(r.decisions[s], r.obs[s])
  /\ AskedOf(r, s) = asked
  /\ PlanFor(r, s).targets = targets

LEMMA EvidenceIsObserved ==
  ASSUME NEW r, NEW sh, NEW s, Weighed(r, sh, s),
         AskedOf(r, s) \subseteq Warehouse
  PROVE  LET e == EvidenceOf(r, s) IN
         /\ Observed(e) /\ Investigated(e) = AskedOf(r, s)
         /\ e.obs = r.obs[s] /\ e.histories = r.histories[s]
<1> DEFINE e == EvidenceOf(r, s)
<1>1. e.obs = r.obs[s] /\ e.histories = r.histories[s]
  BY DEF EvidenceOf
<1> HIDE DEF e
<1> QED BY <1>1 DEF Weighed, Observed, Investigated, e

(* A first decision to reconcile stands, and so does one on the histories  *)
(* that the first decision asked for.                                      *)
LEMMA ReconciliationStands ==
  ASSUME NEW r, NEW sh, NEW s, Weighed(r, sh, s), NEW source, NEW targets,
         \/ Decide(First(r, s)) = Reconcile(source, targets)
         \/ /\ \E ws : Decide(First(r, s)) = Investigate(ws)
            /\ Decide(EvidenceOf(r, s)) = Reconcile(source, targets)
  PROVE  r.decisions[s] = Reconcile(source, targets)
<1>1. /\ Reconcile(source, targets).outcome # "INVESTIGATE"
      /\ \A ws : Investigate(ws).outcome = "INVESTIGATE"
  BY ReconcileFields, InvestigateFields
<1> QED BY <1>1 DEF Weighed, Reassessed

LEMMA StaleIsPromising ==
  ASSUME Cardinality(Warehouse) >= 3, ReadOnly = {},
         NEW r, NEW sh, NEW s, Weighed(r, sh, s), Stale(r.obs[s])
  PROVE  \E w \in Warehouse : Handled(r, s, {}, {w})
<1> DEFINE obs == r.obs[s]
           e == First(r, s)
<1>1. obs \in [Warehouse -> Record] /\ ~IdentityMismatch(obs)
  BY DEF Weighed
<1>2. Observed(e) /\ Investigated(e) = {} /\ e.obs = obs
  BY FirstIsObserved
<1> HIDE DEF obs, e
<1>3. PICK w \in Warehouse : /\ OthersAgree(obs, w)
                             /\ \A v \in Warehouse \ {w} : OneBehind(obs, w, v)
  BY DEF Stale, obs
<1> DEFINE g == Warehouse \ {w}
           source == Min(g)
           targets == {w}
<1>4. Several(g)
  BY SeveralOthers
<1>5. \A v \in Warehouse : obs[v].version \in Nat /\ obs[v].cursor \in Nat
  BY <1>1 DEF Record
<1>6. \A v \in g : /\ obs[w].version < obs[v].version
                   /\ obs[w].cursor < obs[v].cursor
                   /\ obs[w].cursor + 1 = obs[v].cursor
                   /\ obs[v].version # obs[w].version
  BY <1>3, <1>5 DEF OneBehind
<1>7. Odd(obs, w)
  BY <1>3, <1>4, <1>6 DEF Odd, OthersAgree
<1>8. source \in g
  <2>1. g \in SUBSET Warehouse /\ g # {}
    BY <1>4 DEF Several
  <2> HIDE DEF g
  <2> QED BY <2>1, WarehousesAreNumbers
<1>9. Decide(e) = Reconcile(source, targets)
  BY <1>2, <1>6, <1>7, StaleIsReconciled
<1>10. r.decisions[s] = Reconcile(source, targets)
  <2> HIDE DEF source, targets
  <2> QED BY <1>9, ReconciliationStands DEF e
<1>11. /\ \A v \in targets : /\ obs[v].version < obs[source].version
                             /\ obs[v].cursor + 1 = obs[source].cursor
       /\ \A v \in Warehouse \ targets :
            LogicalKey(obs[v]) = LogicalKey(obs[source])
       /\ targets \in SUBSET Warehouse /\ targets # {} /\ source \notin targets
       /\ source \in Warehouse
  BY <1>3, <1>6, <1>8 DEF OthersAgree
<1> HIDE DEF source, targets
<1>12. /\ Promising(Reconcile(source, targets), obs)
       /\ ReconciliationPlan(Reconcile(source, targets), obs).targets = targets
  BY <1>1, <1>11, ForwardPlans
<1>13. AskedOf(r, s) = {}
  BY <1>9, FirstIsObserved DEF e
<1>14. Handled(r, s, {}, targets)
  BY <1>10, <1>12, <1>13 DEF Handled, PlanFor, obs
<1> QED BY <1>14 DEF targets

LEMMA NewerIsPromising ==
  ASSUME Cardinality(Warehouse) >= 3, ReadOnly = {},
         NEW r, NEW sh, EvidentShelf(sh), NEW s \in Sku, Opened(sh, s),
         Weighed(r, sh, s), Newer(r.obs[s])
  PROVE  \E w \in Warehouse : Handled(r, s, {w}, Warehouse \ {w})
<1> DEFINE obs == r.obs[s]
           read == RecentIn(sh, s)
           e == First(r, s)
           known == EvidenceOf(r, s)
<1>1. obs \in [Warehouse -> Record] /\ ~IdentityMismatch(obs)
  BY DEF Weighed
<1>2. /\ Observed(e) /\ Investigated(e) = {} /\ e.obs = obs
      /\ \A ws : Decide(e) = Investigate(ws) => AskedOf(r, s) = ws
  BY FirstIsObserved
<1>3. \A v, w \in Warehouse : OneBehind(obs, v, w) =>
        Extends(read[w], obs[v]) /\ Explains(read[w], obs[v], obs[w])
  <2>1. obs = SeenIn(sh, s) /\ read = RecentIn(sh, s)
    BY DEF Weighed
  <2> HIDE DEF obs, read
  <2> QED BY <2>1, EvidentStock
<1>4. \A w \in Warehouse : read[w] = RecentEvents(sh[w][s].hist, HistoryLimit)
  BY DEF RecentIn
<1> HIDE DEF obs, e, known, read
<1>5. PICK w \in Warehouse : /\ OthersAgree(obs, w)
                             /\ \A v \in Warehouse \ {w} : OneBehind(obs, v, w)
  BY DEF Newer, obs
<1> DEFINE g == Warehouse \ {w}
           seen == {w}
<1>6. Several(g) /\ g # {} /\ g \in SUBSET Warehouse
  BY SeveralOthers DEF Several
<1>7. \A v \in Warehouse : obs[v].version \in Nat /\ obs[v].cursor \in Nat
  BY <1>1 DEF Record
<1>8. \A v \in g : /\ obs[v].version < obs[w].version
                   /\ obs[v].cursor < obs[w].cursor
                   /\ obs[v].cursor + 1 = obs[w].cursor
                   /\ obs[v].version # obs[w].version
  BY <1>5, <1>7 DEF OneBehind
<1>9. Leads(obs, w)
  BY <1>5, <1>6, <1>8 DEF Leads, Odd, OthersAgree
<1>10. Decide(e) = Investigate(seen)
  BY <1>2, <1>9, NewerIsAskedFirst
<1>11. AskedOf(r, s) = seen
  <2> HIDE DEF seen
  <2> QED BY <1>2, <1>10
<1>12. /\ Observed(known) /\ Investigated(known) = {w}
       /\ known.obs = obs /\ known.histories = r.histories[s]
  BY <1>11, EvidenceIsObserved DEF known, obs
<1>13. r.histories[s][w] = read[w]
  BY <1>4, <1>11 DEF Weighed
<1>14. \A v \in g : /\ Extends(known.histories[w], known.obs[v])
                    /\ Explains(known.histories[w], known.obs[v], known.obs[w])
  BY <1>3, <1>5, <1>12, <1>13
<1>15. Decide(known) = Reconcile(w, g)
  BY <1>9, <1>12, <1>14, NewerIsReconciled
<1> HIDE DEF g, seen
<1>16. r.decisions[s] = Reconcile(w, g)
  <2>1. \E ws : Decide(First(r, s)) = Investigate(ws)
    BY <1>10 DEF e
  <2> QED BY <1>15, <2>1, ReconciliationStands DEF known
<1>17. /\ \A v \in g : /\ obs[v].version < obs[w].version
                       /\ obs[v].cursor + 1 = obs[w].cursor
       /\ \A v \in Warehouse \ g : LogicalKey(obs[v]) = LogicalKey(obs[w])
       /\ w \notin g
  BY <1>8 DEF g
<1>18. /\ Promising(Reconcile(w, g), obs)
       /\ ReconciliationPlan(Reconcile(w, g), obs).targets = g
  BY <1>1, <1>6, <1>17, ForwardPlans
<1>19. Handled(r, s, seen, g)
  BY <1>11, <1>16, <1>18 DEF Handled, PlanFor, obs
<1> QED BY <1>19 DEF g, seen

LEMMA DivergenceIsPromising ==
  ASSUME ReadOnly = {},
         NEW r, NEW sh, EvidentShelf(sh), NEW s \in Sku, Opened(sh, s),
         Weighed(r, sh, s), SameVersionDivergence(r.obs[s])
  PROVE  Handled(r, s, Warehouse, Warehouse)
<1> DEFINE obs == r.obs[s]
           read == RecentIn(sh, s)
           e == First(r, s)
           known == EvidenceOf(r, s)
<1>1. obs \in [Warehouse -> Record] /\ ~IdentityMismatch(obs)
  BY DEF Weighed
<1>2. /\ Observed(e) /\ Investigated(e) = {} /\ e.obs = obs
      /\ \A ws : Decide(e) = Investigate(ws) => AskedOf(r, s) = ws
  BY FirstIsObserved
<1>3. /\ \A v, w \in Warehouse : read[v] = read[w] /\ Complete(read[w])
      /\ \E w \in Warehouse : \A v \in Warehouse :
           Total(read[v]) = obs[v].inventory.on_hand <=> v # w
  <2>1. /\ obs = SeenIn(sh, s) /\ read = RecentIn(sh, s)
        /\ SameVersionDivergence(obs)
    BY DEF Weighed
  <2> HIDE DEF obs, read
  <2> QED BY <2>1, EvidentStock
<1>4. \A w \in Warehouse : read[w] = RecentEvents(sh[w][s].hist, HistoryLimit)
  BY DEF RecentIn
<1>5. SameVersionDivergence(obs)
  OBVIOUS
<1> HIDE DEF obs, e, known, read
<1>6. PICK w \in Warehouse : \A v \in Warehouse :
        Total(read[v]) = obs[v].inventory.on_hand <=> v # w
  BY <1>3
<1>7. Decide(e) = Investigate(Warehouse)
  BY <1>2, <1>5, DivergenceIsInvestigated
<1>8. AskedOf(r, s) = Warehouse
  BY <1>2, <1>7
<1>9. /\ Observed(known) /\ Investigated(known) = Warehouse
      /\ known.obs = obs /\ known.histories = r.histories[s]
  BY <1>8, EvidenceIsObserved DEF known, obs
<1>10. \A v \in Warehouse : known.histories[v] = read[v]
  BY <1>4, <1>8, <1>9 DEF Weighed
<1>11. /\ \A v, u \in Warehouse : known.histories[v] = known.histories[u]
       /\ \A v \in Warehouse : Complete(known.histories[v])
       /\ \A v \in Warehouse : Replays(known, v) <=> v # w
  BY <1>3, <1>6, <1>9, <1>10 DEF Replays
<1> DEFINE g == Warehouse \ {w}
           source == Min(g)
           targets == {w}
<1>12. Decide(known) = Reconcile(source, targets) /\ source \in g
  BY <1>5, <1>9, <1>11, DivergenceIsRepaired
<1>13. obs[w].inventory # obs[source].inventory
  BY <1>3, <1>6, <1>12
<1>14. r.decisions[s] = Reconcile(source, targets)
  <2>1. \E ws : Decide(First(r, s)) = Investigate(ws)
    BY <1>7 DEF e
  <2> HIDE DEF source, targets
  <2> QED BY <1>12, <2>1, ReconciliationStands DEF known
<1>15. source \in Warehouse
  BY <1>12
<1> HIDE DEF g, source
<1>16. /\ Promising(Reconcile(source, targets), obs)
       /\ ReconciliationPlan(Reconcile(source, targets), obs).targets = Warehouse
  BY <1>1, <1>5, <1>13, <1>15, RepairPlans
<1> QED BY <1>8, <1>14, <1>16 DEF Handled, PlanFor, obs

-----------------------------------------------------------------------------
(* What the invariant says of a run that is over *)

LEMMA FinishedRunsWeigh ==
  ASSUME NEW r, SoundRun(r), r.status = "completed", r.version = 3,
         NEW sh, NEW now, Faithful(r, sh, now), EvidentShelf(sh),
         NEW s \in Sku, DOMAIN r.obs[s] = Warehouse, Opened(sh, s),
         Conflict(r.obs[s]), ~HurtIn(r, s)
  PROVE  Weighed(r, sh, s) /\ s \in DOMAIN r.decisions
<1>1. ReadFrom(r, sh, s) /\ HistoryIn(r, s)
  BY DEF Faithful
<1>2. /\ r.obs[s] \in [Warehouse -> Record]
      /\ DOMAIN r.histories[s] \subseteq AskedOf(r, s)
  <2>1. r.obs[s] \in Partial(Record)
    BY DEF SoundRun, WhatWasRead
  <2> QED BY <2>1, PartialFunctions DEF SoundRun, WhatWasRead
<1>3. r.obs[s] = SeenIn(sh, s)
  BY <1>1, <1>2 DEF ReadFrom, SeenIn
<1>4. ~IdentityMismatch(r.obs[s])
  <2> DEFINE obs == r.obs[s]
             read == RecentIn(sh, s)
  <2>1. obs = SeenIn(sh, s) /\ read = RecentIn(sh, s)
    BY <1>3
  <2> HIDE DEF obs, read
  <2>2. ~IdentityMismatch(obs)
    BY <2>1, EvidentStock
  <2> QED BY <2>2 DEF obs
<1>5. DOMAIN r.histories[s] = AskedOf(r, s)
  BY <1>1, <1>2 DEF HistoryIn
<1>6. \A w \in AskedOf(r, s) :
        r.histories[s][w] = RecentEvents(sh[w][s].hist, HistoryLimit)
  BY <1>1, <1>5 DEF ReadFrom
<1>7. ~Undecided(r)
  BY DEF Undecided
<1>8. s \in DOMAIN r.decisions
  <2>1. s \in Conflicts(r)
    <3>1. DOMAIN r.obs[s] # {}
      <4>1. PICK w \in Warehouse : TRUE
        BY <1>2 DEF Conflict, Several, IdentityMismatch, MissingState,
                    Inventories, Versions, Cursors, Values
      <4> QED BY <4>1
    <3> QED BY <3>1 DEF Conflicts
  <2> QED BY <1>7, <2>1 DEF SoundRun, WhatWasDecided
<1>9. ChosenFor(r, s)
  BY <1>7, <1>8 DEF Faithful
<1> QED BY <1>2, <1>3, <1>4, <1>5, <1>6, <1>8, <1>9
        DEF Weighed, ChosenFor, Choice

(* The plan of SKU s, which does what it is to do, was executed to the end *)
(* and everything was read back.                                           *)
Done(r, s) ==
  /\ s \in DOMAIN r.resolutions /\ r.resolutions[s] = "RESOLVED"
  /\ Sure(r, s) /\ r.plans[s] = PlanFor(r, s)
  /\ DOMAIN r.checked[s] = DOMAIN r.obs[s]

LEMMA PromisingIsResolved ==
  ASSUME NEW r, SoundRun(r), r.status = "completed", r.version = 3,
         NEW sh, NEW now, Faithful(r, sh, now),
         NEW s \in DOMAIN r.decisions, s \in Sku,
         Promising(r.decisions[s], r.obs[s]), ~IdentityMismatch(r.obs[s]),
         ~HurtIn(r, s)
  PROVE  Done(r, s)
<1>1. s \in DOMAIN r.resolutions
  BY DEF SoundRun, WhoseTurn
<1>2. Executable(r, s) /\ Levels(PlanFor(r, s), r.obs[s])
  BY DEF Promising, Executable, PlanFor, Levels
<1>3. s \in DOMAIN r.plans
  BY <1>1, <1>2 DEF SoundRun, WhatWasWritten
<1>4. r.plans[s] = PlanFor(r, s)
  BY <1>3, PlansOfSoundRuns
<1>5. Sure(r, s)
  BY <1>2, <1>3, <1>4 DEF Sure
<1>6. AsPlanned(r, now, s, Left(r, s))
  BY <1>5 DEF Faithful, WrittenFor
<1> QED BY <1>1, <1>4, <1>5, <1>6 DEF AsPlanned, Done

LEMMA KindsAreConflicts ==
  ASSUME Cardinality(Warehouse) >= 3, NEW obs \in [Warehouse -> Record],
         Stale(obs) \/ Newer(obs) \/ OneDiffers(obs)
  PROVE  Conflict(obs)
<1>1. CASE Stale(obs) \/ Newer(obs)
  <2>1. PICK w \in Warehouse :
          \/ \A v \in Warehouse \ {w} : OneBehind(obs, w, v)
          \/ \A v \in Warehouse \ {w} : OneBehind(obs, v, w)
    BY <1>1 DEF Stale, Newer
  <2>2. PICK v \in Warehouse \ {w} : TRUE
    BY SeveralOthers DEF Several
  <2>3. obs[v].version \in Nat /\ obs[w].version \in Nat
    BY DEF Record
  <2>4. obs[v].version # obs[w].version
    BY <2>1, <2>2, <2>3 DEF OneBehind
  <2> QED BY <2>2, <2>4 DEF Conflict, Several, Versions, Values, VersionOf
<1>2. CASE OneDiffers(obs)
  BY <1>2 DEF OneDiffers, SameVersionDivergence, Conflict
<1> QED BY <1>1, <1>2

(* A conflict of a kind that the agent resolves is handled as its kind is. *)
HandledAs(r, kind, s) ==
  /\ kind = "stale" => \E w \in Warehouse : Handled(r, s, {}, {w})
  /\ kind = "newer" =>
       \E w \in Warehouse : Handled(r, s, {w}, Warehouse \ {w})
  /\ kind = "divergence" => Handled(r, s, Warehouse, Warehouse)

LEMMA KindsAreHandled ==
  ASSUME Cardinality(Warehouse) >= 3, ReadOnly = {},
         \A sh \in Shelves : EvidentShelf(sh), Promise, Finished,
         NEW kind \in Kinds, NEW s \in OfKind(kind), ~Hurt(s)
  PROVE  /\ HandledAs(run, kind, s) /\ Done(run, s)
         /\ DOMAIN run.histories[s] = AskedOf(run, s)
         /\ run.obs[s] \in [Warehouse -> Record]
<1>2. PICK sh \in Shelves : Kept(run, sh, shelf, late)
  BY DEF Promise
<1>3. /\ SoundRun(run) /\ Faithful(run, sh, shelf) /\ Grown(sh, shelf)
      /\ run.status = "completed" /\ run.version = 3 /\ EvidentShelf(sh)
  BY <1>2 DEF Promise, RunInvariant, Kept, Finished
<1>4. /\ s \in Sku /\ DOMAIN run.obs[s] = Warehouse
      /\ \A w \in Warehouse : shelf[w][s].hist[1].opening
      /\ kind = "stale" => Stale(run.obs[s])
      /\ kind = "newer" => Newer(run.obs[s])
      /\ kind = "divergence" => OneDiffers(run.obs[s])
      /\ kind \in {"stale", "newer", "divergence"}
  BY DEF OfKind, Kinds
<1>5. run.obs[s] \in [Warehouse -> Record]
  <2>1. run.obs[s] \in Partial(Record)
    BY <1>3, <1>4 DEF SoundRun, WhatWasRead
  <2> QED BY <1>4, <2>1, PartialFunctions
<1>6. ~HurtIn(run, s)
  BY DEF Hurt, HurtIn
<1>7. Opened(sh, s)
  <2>1. \A w \in Warehouse : sh[w][s] # Missing
    BY <1>3, <1>4 DEF Faithful, ReadFrom
  <2> QED BY <1>3, <1>4, <2>1 DEF Opened, Grown
<1>8. Weighed(run, sh, s) /\ s \in DOMAIN run.decisions
  BY <1>3, <1>4, <1>5, <1>6, <1>7, KindsAreConflicts, FinishedRunsWeigh
<1>9. HandledAs(run, kind, s)
  <2>1. CASE kind = "stale"
    BY <1>4, <1>8, <2>1, StaleIsPromising DEF HandledAs
  <2>2. CASE kind = "newer"
    BY <1>3, <1>4, <1>7, <1>8, <2>2, NewerIsPromising DEF HandledAs
  <2>3. CASE kind = "divergence"
    BY <1>3, <1>4, <1>7, <1>8, <2>3, DivergenceIsPromising
       DEF HandledAs, OneDiffers
  <2> QED BY <1>4, <2>1, <2>2, <2>3
<1>10. Promising(run.decisions[s], run.obs[s])
  BY <1>4, <1>9 DEF HandledAs, Handled
<1>11. ~IdentityMismatch(run.obs[s]) /\ DOMAIN run.histories[s] = AskedOf(run, s)
  BY <1>8 DEF Weighed
<1>12. Done(run, s)
  BY <1>3, <1>4, <1>6, <1>8, <1>10, <1>11, PromisingIsResolved
<1> QED BY <1>5, <1>9, <1>11, <1>12

(* The invariant keeps the promise. *)
LEMMA PromiseIsKept ==
  ASSUME Cardinality(Warehouse) >= 3, ReadOnly = {},
         \A sh \in Shelves : EvidentShelf(sh), Promise
  PROVE  FailureStaysWithItsSku
BY KindsAreHandled DEF FailureStaysWithItsSku, Done

(* Whatever calls for other SKUs get no answer, and however late PUTs for  *)
(* them arrive, a conflict of a kind that the agent resolves                *)
(* (agent_v3.md:108-127) ends RESOLVED unless one of its own calls or a    *)
(* catalogue is lost, for any SKUs and three or more writable warehouses   *)
(* whose histories explain what they hold (runner.py:214-276,              *)
(* policy.py:48-223, executor.py:22-60).                                   *)
THEOREM FailuresStayWithTheirSku ==
  ASSUME Cardinality(Warehouse) >= 3, ReadOnly = {},
         \A sh \in Shelves : EvidentShelf(sh)
  PROVE  Spec => []FailureStaysWithItsSku
<1>1. Init => Promise
  BY PromiseHolds
<1>2. Promise /\ [Next]_vars => Promise'
  BY PromiseHolds
<1>3. Promise => FailureStaysWithItsSku
  BY PromiseIsKept
<1> QED BY <1>1, <1>2, <1>3, PTL DEF Spec

-----------------------------------------------------------------------------
(* What a run costs: as long as no call is lost and every plan levels its  *)
(* SKU, a run has made the calls that what it has read, written and        *)
(* checked took, each answered, and no others.                             *)

Successful(p, w, s) == [purpose |-> p, to |-> w, sku |-> s, answer |-> "ok"]

CallPurposes == {"catalogue", "events", "write", "verification"}

(* The call was of use: what it asks for is read, written or checked.      *)
Needed(r, p, w, s) ==
  \/ p = "catalogue" /\ s = NoSku /\ w \in r.observed
  \/ p = "events" /\ s \in Sku /\ w \in DOMAIN r.histories[s]
  \/ /\ p = "write" /\ s \in DOMAIN r.plans
     /\ w \in r.plans[s].targets \ Left(r, s)
  \/ p = "verification" /\ s \in DOMAIN r.plans /\ w \in DOMAIN r.checked[s]

Smooth(r) ==
  /\ \A c \in r.calls : c.answer # "lost"
  /\ \A s \in DOMAIN r.plans : Sure(r, s)

Accounted(r) ==
  Smooth(r) =>
    /\ \A c \in r.calls : \E p \in CallPurposes, w \in Warehouse,
                             s \in Sku \cup {NoSku} :
         c = Successful(p, w, s) /\ Needed(r, p, w, s)
    /\ \A p \in CallPurposes, w \in Warehouse, s \in Sku \cup {NoSku} :
         Needed(r, p, w, s) => Successful(p, w, s) \in r.calls

(* Needed calls that one more answer makes                                 *)
NeedsMore(q, r, p0, w0, s0) ==
  \A p \in CallPurposes, w \in Warehouse, s \in Sku \cup {NoSku} :
    Needed(q, p, w, s) <=> \/ Needed(r, p, w, s)
                           \/ p = p0 /\ w = w0 /\ s = s0

NeedsSame(q, r) ==
  \A p \in CallPurposes, w \in Warehouse, s \in Sku \cup {NoSku} :
    Needed(q, p, w, s) <=> Needed(r, p, w, s)

LEMMA AnswerIsAccounted ==
  ASSUME NEW r, Accounted(r), NEW q,
         NEW p0 \in CallPurposes, NEW w0 \in Warehouse,
         NEW s0 \in Sku \cup {NoSku},
         q.calls = r.calls \cup {Successful(p0, w0, s0)},
         Smooth(q) => Smooth(r), NeedsMore(q, r, p0, w0, s0)
  PROVE  Accounted(q)
BY DEF Accounted, NeedsMore

LEMMA NothingIsAccounted ==
  ASSUME NEW r, Accounted(r), NEW q, q.calls = r.calls,
         Smooth(q) => Smooth(r), NeedsSame(q, r)
  PROVE  Accounted(q)
BY DEF Accounted, NeedsSame

LEMMA LossIsNotSmooth ==
  ASSUME NEW q, NEW p, NEW w, NEW s, NEW calls,
         q.calls = calls \cup {[purpose |-> p, to |-> w, sku |-> s,
                                answer |-> "lost"]}
  PROVE  ~Smooth(q) /\ Accounted(q)
<1> DEFINE call == [purpose |-> p, to |-> w, sku |-> s, answer |-> "lost"]
<1>1. call \in q.calls /\ call.answer = "lost"
  OBVIOUS
<1> HIDE DEF call
<1> QED BY <1>1 DEF Smooth, Accounted

LEMMA SmoothBefore ==
  ASSUME NEW r, NEW q, r.calls \subseteq q.calls,
         DOMAIN r.plans \subseteq DOMAIN q.plans,
         \A s \in DOMAIN r.plans : q.plans[s] = r.plans[s],
         q.obs = r.obs
  PROVE  Smooth(q) => Smooth(r)
BY DEF Smooth, Sure

(* Nothing is called before the run begins. *)
LEMMA NothingToAccountFor ==
  ASSUME NEW r, r.calls = {}, r.observed = {},
         r.histories = [s \in Sku |-> <<>>], r.plans = <<>>
  PROVE  Accounted(r)
<1>1. DOMAIN <<>> = {}
  OBVIOUS
<1>2. \A p, w, s : ~Needed(r, p, w, s)
  BY <1>1 DEF Needed
<1> QED BY <1>2 DEF Accounted

LEMMA FirstIsAccounted ==
  /\ Init => Accounted(run)
  /\ Begin => Accounted(run')
<1>1. ASSUME NEW version
      PROVE  /\ Accounted(NewRun(version)) /\ Accounted(Observing(version))
  <2> DEFINE r == NewRun(version)
             q == Observing(version)
  <2>1. /\ r.calls = {} /\ r.observed = {} /\ r.plans = <<>>
        /\ r.histories = [s \in Sku |-> <<>>] /\ DOMAIN r = RunFields
    BY DEF NewRun, RunFields
  <2>2. q = [r EXCEPT !.status = "observing", !.waiting = Warehouse \X {NoSku}]
    BY DEF Observing
  <2> HIDE DEF r
  <2>3. /\ q.calls = {} /\ q.observed = {} /\ q.plans = <<>>
        /\ q.histories = [s \in Sku |-> <<>>]
    BY <2>1, <2>2 DEF RunFields
  <2> HIDE DEF q
  <2> QED BY <2>1, <2>3, NothingToAccountFor DEF r, q
<1> QED BY <1>1 DEF Init, Begin

LEMMA CatalogueIsAccounted ==
  ASSUME RunInvariant, Accounted(run), NEW w \in Warehouse, AnswerCatalogue(w)
  PROVE  Accounted(run')
<1> DEFINE c == Called(run, "catalogue", w, NoSku, "ok")
           obs == [s \in Sku |-> IF shelf[w][s] = Missing THEN c.obs[s]
                                 ELSE With(c.obs[s], w, shelf[w][s].rec)]
<1>1. /\ run.status = "observing"
      /\ run' = [c EXCEPT !.observed = c.observed \cup {w}, !.obs = obs]
  BY DEF AnswerCatalogue
<1>2. DOMAIN run = RunFields /\ DOMAIN run.plans = {}
  BY <1>1, ObservingDecidesNothing DEF RunInvariant, SoundRun, Undecided
<1>3. /\ DOMAIN c = RunFields /\ c.observed = run.observed
      /\ c.histories = run.histories /\ c.plans = run.plans
      /\ c.calls = run.calls \cup {Successful("catalogue", w, NoSku)}
  BY <1>2, CallChanges DEF Successful
<1> HIDE DEF c, obs
<1>4. /\ run'.observed = run.observed \cup {w}
      /\ run'.histories = run.histories /\ run'.plans = run.plans
      /\ run'.calls = run.calls \cup {Successful("catalogue", w, NoSku)}
  BY <1>1, <1>3 DEF RunFields
<1>5. NeedsMore(run', run, "catalogue", w, NoSku)
  BY <1>2, <1>4 DEF NeedsMore, Needed, CallPurposes
<1>6. Smooth(run') => Smooth(run)
  BY <1>2, <1>4 DEF Smooth
<1> QED BY <1>4, <1>5, <1>6, AnswerIsAccounted DEF CallPurposes

LEMMA EventsAreAccounted ==
  ASSUME RunInvariant, Accounted(run), NEW w \in Warehouse, NEW s \in Sku,
         AnswerEvents(w, s)
  PROVE  Accounted(run')
<1> DEFINE c == Called(run, "events", w, s, "ok")
           got == RecentEvents(shelf[w][s].hist, HistoryLimit)
           histories == [c.histories EXCEPT ![s] = With(c.histories[s], w, got)]
<1>1. /\ run.status = "investigating"
      /\ run' = [c EXCEPT !.histories = histories]
  BY DEF AnswerEvents
<1>2. DOMAIN run = RunFields /\ DOMAIN run.plans = {}
      /\ DOMAIN run.histories = Sku
  BY <1>1 DEF RunInvariant, SoundRun, WhatWasRead, WhatWasWritten
<1>3. /\ DOMAIN c = RunFields /\ c.observed = run.observed
      /\ c.histories = run.histories /\ c.plans = run.plans
      /\ c.calls = run.calls \cup {Successful("events", w, s)}
  BY <1>2, CallChanges DEF Successful
<1> HIDE DEF c, got
<1>4. /\ histories[s] = With(run.histories[s], w, got)
      /\ \A t \in Sku \ {s} : histories[t] = run.histories[t]
  BY <1>2, <1>3, ChangedValue
<1> HIDE DEF histories
<1>5. /\ run'.observed = run.observed
      /\ run'.histories = histories /\ run'.plans = run.plans
      /\ run'.calls = run.calls \cup {Successful("events", w, s)}
  BY <1>1, <1>3 DEF RunFields
<1>6. DOMAIN histories[s] = DOMAIN run.histories[s] \cup {w}
  <2> DEFINE f == run.histories[s]
             g == histories[s]
  <2>1. g = With(f, w, got)
    BY <1>4
  <2> HIDE DEF f, g
  <2>2. DOMAIN g = DOMAIN f \cup {w}
    BY <2>1 DEF With
  <2> QED BY <2>2 DEF f, g
<1>7. NeedsMore(run', run, "events", w, s)
  BY <1>2, <1>4, <1>5, <1>6 DEF NeedsMore, Needed, CallPurposes
<1>8. Smooth(run') => Smooth(run)
  BY <1>2, <1>5 DEF Smooth
<1> QED BY <1>5, <1>7, <1>8, AnswerIsAccounted DEF CallPurposes

LEMMA VerificationIsAccounted ==
  ASSUME RunInvariant, Accounted(run), NEW w \in Warehouse, NEW s \in Sku,
         AnswerVerification(w, s)
  PROVE  Accounted(run')
<1> DEFINE c == Called(run, "verification", w, s, "ok")
           got == shelf[w][s].rec
           checked == [c.checked EXCEPT ![s] = With(c.checked[s], w, got)]
<1>1. /\ run.status = "verifying" /\ <<w, s>> \in run.waiting
      /\ run' = [c EXCEPT !.checked = checked]
  BY DEF AnswerVerification
<1>2. DOMAIN run = RunFields /\ SoundRun(run)
  BY DEF RunInvariant, SoundRun
<1>3. /\ s \in DOMAIN run.plans /\ DOMAIN run.checked = DOMAIN run.plans
  BY <1>1, <1>2 DEF SoundRun, Awaited, WhoseTurn, InHand, WhatWasWritten
<1>4. /\ DOMAIN c = RunFields /\ c.observed = run.observed /\ c.obs = run.obs
      /\ c.histories = run.histories /\ c.plans = run.plans
      /\ c.checked = run.checked /\ c.status = run.status
      /\ c.calls = run.calls \cup {Successful("verification", w, s)}
  BY <1>2, CallChanges DEF Successful
<1> HIDE DEF c, got
<1>5. /\ checked[s] = With(run.checked[s], w, got)
      /\ \A t \in DOMAIN run.checked \ {s} : checked[t] = run.checked[t]
  BY <1>3, <1>4, ChangedValue
<1> HIDE DEF checked
<1>6. /\ run'.observed = run.observed /\ run'.obs = run.obs
      /\ run'.histories = run.histories /\ run'.plans = run.plans
      /\ run'.checked = checked /\ run'.status = run.status
      /\ run'.calls = run.calls \cup {Successful("verification", w, s)}
  BY <1>1, <1>4 DEF RunFields
<1>7. DOMAIN checked[s] = DOMAIN run.checked[s] \cup {w}
  <2> DEFINE f == run.checked[s]
             g == checked[s]
  <2>1. g = With(f, w, got)
    BY <1>5
  <2> HIDE DEF f, g
  <2>2. DOMAIN g = DOMAIN f \cup {w}
    BY <2>1 DEF With
  <2> QED BY <2>2 DEF f, g
<1>8. \A t : Left(run', t) = {} /\ Left(run, t) = {}
  BY <1>1, <1>6 DEF Left
<1>9. NeedsMore(run', run, "verification", w, s)
  BY <1>3, <1>5, <1>6, <1>7, <1>8 DEF NeedsMore, Needed, CallPurposes
<1>10. Smooth(run') => Smooth(run)
  BY <1>6, SmoothBefore
<1> QED BY <1>6, <1>9, <1>10, AnswerIsAccounted DEF CallPurposes

LEMMA LossesAreAccounted ==
  ASSUME RunInvariant
  PROVE  /\ \A w \in Warehouse, s \in Sku \cup {NoSku} :
              LoseRead(w, s) => Accounted(run')
         /\ LoseUpdate => Accounted(run')
<1>1. DOMAIN run = RunFields
  BY DEF RunInvariant, SoundRun
<1>2. ASSUME NEW w \in Warehouse, NEW s \in Sku \cup {NoSku}, LoseRead(w, s)
      PROVE  Accounted(run')
  <2> DEFINE p == Purpose(run.status)
  <2>1. run' = Called(run, p, w, s, "lost")
    BY <1>2 DEF LoseRead
  <2> HIDE DEF p
  <2>2. run'.calls = run.calls \cup {[purpose |-> p, to |-> w, sku |-> s,
                                      answer |-> "lost"]}
    BY <1>1, <2>1, CallChanges
  <2> QED BY <2>2, LossIsNotSmooth
<1>3. ASSUME LoseUpdate PROVE Accounted(run')
  <2> DEFINE w == Min(run.todo)
  <2>1. run' = Sent(run, w, "lost")
    BY <1>3 DEF LoseUpdate
  <2> HIDE DEF w
  <2>2. FieldsAfterPut(run', run, w, "lost")
    BY <1>1, <2>1, SentChanges
  <2>3. run'.calls = run.calls \cup {[purpose |-> "write", to |-> w,
                                     sku |-> run.current, answer |-> "lost"]}
    BY <2>2 DEF FieldsAfterPut
  <2> QED BY <2>3, LossIsNotSmooth
<1> QED BY <1>2, <1>3

(* A write of a plan that levels its SKU is taken, so it is accounted for. *)
LEMMA WriteIsAccounted ==
  ASSUME Promise, Accounted(run), ExecuteUpdate
  PROVE  Accounted(run')
<1> DEFINE w == Min(run.todo)
           s == run.current
<1>1. run.status = "executing"
  BY DEF ExecuteUpdate
<1>2. PICK outcome \in Outcomes :
        /\ Handle(Message(run, w), outcome)
        /\ run' = Sent(run, w, IF outcome \in {"unchanged", "updated"} THEN "ok"
                               ELSE "rejected")
  BY DEF ExecuteUpdate
<1> DEFINE answer == IF outcome \in {"unchanged", "updated"} THEN "ok"
                     ELSE "rejected"
<1>3. /\ run' = Sent(run, w, answer)
      /\ outcome = "updated" => answer = "ok"
  BY <1>2
<1> HIDE DEF answer
<1>4. DOMAIN run = RunFields /\ SoundRun(run) /\ RunInvariant
  BY DEF Promise, RunInvariant, SoundRun
<1>5. FieldsAfterPut(run', run, w, answer)
  BY <1>3, <1>4, SentChanges
<1>6. /\ s \in DOMAIN run.plans /\ s \in Sku /\ w \in run.todo
      /\ w \in Warehouse /\ w \in run.plans[s].targets
  <2>1. /\ s \in DOMAIN run.plans /\ w \in run.todo /\ w \in DOMAIN run.obs[s]
        /\ w \in run.plans[s].targets
    BY <1>1, <1>4, TurnOfExecution
  <2>2. s \in Sku /\ run.obs[s] \in Partial(Record)
    BY <1>4, <2>1, PlansOfSoundRuns
  <2> QED BY <2>1, <2>2, PartialFunctions
<1>7. /\ run'.obs = run.obs /\ run'.plans = run.plans
      /\ run'.observed = run.observed /\ run'.histories = run.histories
      /\ run'.checked = run.checked /\ run'.current = s
      /\ run'.calls = run.calls \cup {[purpose |-> "write", to |-> w,
                                       sku |-> s, answer |-> answer]}
  BY <1>5 DEF FieldsAfterPut
<1>8. SUFFICES ASSUME Smooth(run') PROVE Accounted(run')
  BY DEF Accounted
<1>9. Smooth(run)
  BY <1>7, <1>8, SmoothBefore
<1>10. answer = "ok"
  <2>1. PICK sh \in Shelves : Kept(run, sh, shelf, late)
    BY DEF Promise
  <2>2. ~HurtIn(run, s) /\ Sure(run, s)
    BY <1>6, <1>9 DEF Smooth, HurtIn
  <2>3. AsPlanned(run, shelf, s, Left(run, s))
    BY <1>6, <2>1, <2>2 DEF Kept, Faithful, WrittenFor
  <2>4. outcome = "updated"
    BY <1>1, <1>2, <1>4, <2>2, <2>3, SureWritesAreTaken
  <2> QED BY <1>3, <2>4
<1>11. run'.todo = run.todo \ {w}
  BY <1>5, <1>10 DEF FieldsAfterPut, TodoAfter
<1>12. /\ Left(run, s) = run.todo /\ Left(run', s) = run.todo \ {w}
       /\ \A t : t # s => Left(run, t) = {} /\ Left(run', t) = {}
  <2>1. CASE run'.todo = {}
    BY <1>1, <1>5, <1>7, <1>11, <2>1 DEF FieldsAfterPut, Left
  <2>2. CASE run'.todo # {}
    BY <1>1, <1>5, <1>7, <1>11, <2>2 DEF FieldsAfterPut, Left
  <2> QED BY <2>1, <2>2
<1> HIDE DEF w, s
<1>13. NeedsMore(run', run, "write", w, s)
  BY <1>6, <1>7, <1>12 DEF NeedsMore, Needed, CallPurposes
<1>14. run'.calls = run.calls \cup {Successful("write", w, s)}
  BY <1>7, <1>10 DEF Successful
<1> QED BY <1>6, <1>9, <1>13, <1>14, AnswerIsAccounted DEF CallPurposes

Unoccupied(r) ==
  /\ DOMAIN r = RunFields /\ DOMAIN r.decisions \subseteq Sku
  /\ DOMAIN r.checked = DOMAIN r.plans
  /\ DOMAIN r.plans \subseteq DOMAIN r.resolutions

(* The loop over the decisions calls nobody and begins plans of which      *)
(* nothing is written yet.  (The run p is r before its last verdict.)      *)
LEMMA LoopIsAccounted ==
  ASSUME NEW p, Accounted(p),
         p.status \in {"observing", "investigating", "verifying"},
         NEW r, Unoccupied(r), r.calls = p.calls, r.obs = p.obs,
         r.observed = p.observed, r.histories = p.histories,
         r.plans = p.plans, r.checked = p.checked,
         NEW q, FieldsAfterLoop(q, r)
  PROVE  Accounted(q)
<1> DEFINE c == q.current
<1>1. /\ q.calls = p.calls /\ q.obs = p.obs /\ q.observed = p.observed
      /\ q.histories = p.histories
  BY DEF FieldsAfterLoop
<1>2. /\ \A s : Left(p, s) = {}
      /\ DOMAIN p.checked = DOMAIN p.plans
      /\ DOMAIN r.decisions \subseteq Sku
  BY DEF Left, Unoccupied
<1>3. CASE Ready(r) = {}
  <2>1. /\ q.status = "completed" /\ q.plans = p.plans
        /\ q.checked = p.checked
    BY <1>3 DEF FieldsAfterLoop
  <2>2. \A s : Left(q, s) = {}
    BY <2>1 DEF Left
  <2>3. NeedsSame(q, p)
    BY <1>1, <1>2, <2>1, <2>2 DEF NeedsSame, Needed
  <2>4. Smooth(q) => Smooth(p)
    BY <1>1, <2>1, SmoothBefore
  <2> QED BY <1>1, <2>3, <2>4, NothingIsAccounted
<1>4. CASE Ready(r) # {}
  <2>1. /\ q.status = "executing" /\ c = Min(Ready(r))
        /\ q.plans = With(p.plans, c, PlanFor(r, c))
        /\ q.checked = With(p.checked, c, <<>>)
        /\ q.todo = PlanFor(r, c).targets
    BY <1>4 DEF FieldsAfterLoop
  <2>2. c \in Ready(r)
    BY <1>2, <1>4, <2>1, NextInTurn
  <2>3. c \notin DOMAIN p.plans
    BY <2>2 DEF Ready, Unoccupied
  <2> DEFINE plan == PlanFor(r, c)
  <2> HIDE DEF plan, c
  <2>4. /\ DOMAIN q.plans = DOMAIN p.plans \cup {c} /\ q.plans[c] = plan
        /\ \A s \in DOMAIN p.plans : q.plans[s] = p.plans[s]
    BY <2>1, <2>3 DEF With, plan
  <2>5. /\ DOMAIN q.checked[c] = {}
        /\ \A s \in DOMAIN p.plans : q.checked[s] = p.checked[s]
    <3>1. DOMAIN <<>> = {}
      OBVIOUS
    <3> QED BY <1>2, <2>1, <2>3, <3>1 DEF With
  <2>6. Left(q, c) = plan.targets /\ \A s : s # c => Left(q, s) = {}
    BY <2>1 DEF Left, plan, c
  <2>7. NeedsSame(q, p)
    BY <1>1, <1>2, <2>3, <2>4, <2>5, <2>6 DEF NeedsSame, Needed
  <2>8. Smooth(q) => Smooth(p)
    BY <1>1, <2>4, SmoothBefore
  <2> QED BY <1>1, <2>7, <2>8, NothingIsAccounted
<1> QED BY <1>3, <1>4

(* A run that has just decided either goes on with its first plan or, in   *)
(* version 2, is over.                                                     *)
LEMMA DecisionIsAccounted ==
  ASSUME NEW p, Accounted(p), p.status \in {"observing", "investigating"},
         NEW r, Unoccupied(r), r.calls = p.calls, r.obs = p.obs,
         r.observed = p.observed, r.histories = p.histories,
         r.plans = p.plans, r.checked = p.checked
  PROVE  Accounted(Decided(r))
<1>1. DOMAIN r = RunFields
  BY DEF Unoccupied
<1>2. CASE r.version = 2
  <2> DEFINE q == [r EXCEPT !.status = "completed"]
  <2>1. Decided(r) = q
    BY <1>2 DEF Decided
  <2>2. /\ q.calls = p.calls /\ q.obs = p.obs /\ q.observed = p.observed
        /\ q.histories = p.histories /\ q.plans = p.plans
        /\ q.checked = p.checked /\ q.status = "completed"
    BY <1>1 DEF RunFields
  <2> HIDE DEF q
  <2>3. \A s : Left(q, s) = {} /\ Left(p, s) = {}
    BY <2>2 DEF Left
  <2>4. NeedsSame(q, p)
    BY <2>2, <2>3 DEF NeedsSame, Needed
  <2>5. Smooth(q) => Smooth(p)
    BY <2>2, SmoothBefore
  <2> QED BY <2>1, <2>2, <2>4, <2>5, NothingIsAccounted
<1>3. CASE r.version # 2
  <2>2. FieldsAfterLoop(Decided(r), r)
    BY <1>1, <1>3, ProceedChanges DEF Decided
  <2> DEFINE q == Decided(r)
  <2>3. FieldsAfterLoop(q, r)
    BY <2>2
  <2> HIDE DEF q
  <2>4. Accounted(q)
    BY <2>3, LoopIsAccounted
  <2> QED BY <2>4 DEF q
<1> QED BY <1>2, <1>3

LEMMA ReassessmentIsAccounted ==
  ASSUME RunInvariant, Accounted(run), Reassess
  PROVE  Accounted(run')
<1> DEFINE decisions == Reassessments(run)
           next == [run EXCEPT !.decisions = decisions]
<1>1. /\ run.status = "investigating" /\ run.waiting = {}
      /\ run' = Decided(next)
  BY DEF Reassess
<1>2. DOMAIN run = RunFields /\ SoundRun(run)
  BY DEF RunInvariant, SoundRun
<1>3. Unoccupied(next)
  BY <1>1, <1>2, ReassessmentDecides DEF JustDecided, Unoccupied, Conflicts
<1> HIDE DEF decisions
<1>4. /\ next.calls = run.calls /\ next.obs = run.obs
      /\ next.observed = run.observed /\ next.histories = run.histories
      /\ next.plans = run.plans /\ next.checked = run.checked
  BY <1>2 DEF RunFields
<1> HIDE DEF next
<1> QED BY <1>1, <1>3, <1>4, DecisionIsAccounted

LEMMA ResolutionIsAccounted ==
  ASSUME RunInvariant, Accounted(run), Resolve
  PROVE  Accounted(run')
<1>1. /\ run.status = "verifying" /\ run.waiting = {}
      /\ run' = Resolution(run) /\ SoundRun(run)
  BY DEF Resolve, RunInvariant
<1>2. PICK r : /\ Between(r) /\ run' = Proceed(r)
               /\ r.observed = run.observed /\ r.obs = run.obs
               /\ r.histories = run.histories /\ r.plans = run.plans
               /\ r.checked = run.checked /\ r.calls = run.calls
  BY <1>1, ResolutionProceeds
<1>3. FieldsAfterLoop(run', r)
  BY <1>2, ProceedChanges DEF Between
<1>4. Unoccupied(r)
  BY <1>2 DEF Between, Unoccupied, Conflicts
<1> QED BY <1>1, <1>2, <1>3, <1>4, LoopIsAccounted

LEMMA AnalysisIsAccounted ==
  ASSUME RunInvariant, Accounted(run), Analyse
  PROVE  Accounted(run')
<1> DEFINE decisions == Decisions(run)
           asked == AskedBy(run, decisions)
           next == [run EXCEPT !.decisions = decisions, !.asked = asked]
<1>1. /\ run.status = "observing" /\ run' = Analysis(run, decisions)
  BY DEF Analyse
<1>2. DOMAIN run = RunFields /\ SoundRun(run)
  BY DEF RunInvariant, SoundRun
<1>3. /\ DOMAIN run.plans = {} /\ DOMAIN run.checked = {}
  BY <1>1, <1>2, ObservingDecidesNothing DEF Undecided
<1>4. DOMAIN decisions \subseteq Sku
  BY DEF Decisions, Conflicts
<1>5. run' = IF run.observed # Warehouse THEN [run EXCEPT !.status = "failed"]
             ELSE IF run.version = 1 THEN [run EXCEPT !.status = "completed"]
             ELSE IF asked = {} THEN Decided(next)
             ELSE [next EXCEPT !.status = "investigating", !.waiting = asked]
  BY <1>1 DEF Analysis, AskedBy
<1> HIDE DEF decisions, asked
<1>6. /\ DOMAIN next = RunFields /\ next.observed = run.observed
      /\ next.obs = run.obs /\ next.histories = run.histories
      /\ next.plans = run.plans /\ next.checked = run.checked
      /\ next.calls = run.calls /\ next.decisions = decisions
  BY <1>2, DecidingChanges
<1> HIDE DEF next
<1>7. ASSUME NEW q, q.calls = run.calls, q.observed = run.observed,
             q.histories = run.histories, q.plans = run.plans
      PROVE  Accounted(q)
  <2>1. NeedsSame(q, run)
    BY <1>3, <1>7 DEF NeedsSame, Needed
  <2>2. Smooth(q) => Smooth(run)
    BY <1>3, <1>7 DEF Smooth
  <2> QED BY <1>7, <2>1, <2>2, NothingIsAccounted
<1>8. CASE run.observed # Warehouse \/ run.version = 1
  <2>1. PICK status : run' = [run EXCEPT !.status = status]
    BY <1>5, <1>8
  <2>2. /\ run'.calls = run.calls /\ run'.observed = run.observed
        /\ run'.histories = run.histories /\ run'.plans = run.plans
    BY <1>2, <2>1 DEF RunFields
  <2> QED BY <1>7, <2>2
<1>9. CASE run.observed = Warehouse /\ run.version # 1 /\ asked # {}
  <2>1. run' = [next EXCEPT !.status = "investigating", !.waiting = asked]
    BY <1>5, <1>9
  <2>2. /\ run'.calls = run.calls /\ run'.observed = run.observed
        /\ run'.histories = run.histories /\ run'.plans = run.plans
    BY <1>6, <2>1 DEF RunFields
  <2> QED BY <1>7, <2>2
<1>10. CASE run.observed = Warehouse /\ run.version # 1 /\ asked = {}
  <2>1. run' = Decided(next)
    BY <1>5, <1>10
  <2>2. Unoccupied(next)
    BY <1>3, <1>4, <1>6 DEF Unoccupied
  <2> QED BY <1>1, <1>6, <2>1, <2>2, DecisionIsAccounted
<1> QED BY <1>8, <1>9, <1>10

(* A run goes on only with all catalogues, and asks about conflicts only.  *)
Surveyed(r) ==
  r.status \notin {"starting", "observing", "failed"} =>
    r.observed = Warehouse /\ r.asked \subseteq Warehouse \X Conflicts(r)

LEMMA SurveyStands ==
  ASSUME NEW r, Surveyed(r), NEW q, q.observed = r.observed, q.obs = r.obs,
         q.asked = r.asked, r.status \notin {"starting", "observing", "failed"}
  PROVE  Surveyed(q)
BY DEF Surveyed, Conflicts

LEMMA DecidedOnSurvey ==
  ASSUME NEW r, DOMAIN r = RunFields
  PROVE  LET q == Decided(r) IN
         q.observed = r.observed /\ q.obs = r.obs /\ q.asked = r.asked
<1> DEFINE q == Decided(r)
<1>1. CASE r.version = 2
  <2>1. q = [r EXCEPT !.status = "completed"]
    BY <1>1 DEF Decided
  <2> QED BY <2>1 DEF RunFields
<1>2. CASE r.version # 2
  <2>1. FieldsAfterLoop(q, r)
    BY <1>2, ProceedChanges DEF Decided
  <2> HIDE DEF q
  <2>2. q.observed = r.observed /\ q.obs = r.obs /\ q.asked = r.asked
    BY <2>1 DEF FieldsAfterLoop
  <2> QED BY <2>2 DEF q
<1> QED BY <1>1, <1>2

LEMMA AnalysisSurveys ==
  ASSUME RunInvariant, Analyse
  PROVE  Surveyed(run')
<1> DEFINE decisions == Decisions(run)
           asked == AskedBy(run, decisions)
           next == [run EXCEPT !.decisions = decisions, !.asked = asked]
<1>1. /\ run' = Analysis(run, decisions) /\ run.status = "observing"
      /\ DOMAIN run = RunFields /\ SoundRun(run)
  BY DEF Analyse, RunInvariant, SoundRun
<1>2. asked \subseteq Warehouse \X Conflicts(run)
  BY DEF AskedBy
<1>3. run' = IF run.observed # Warehouse THEN [run EXCEPT !.status = "failed"]
             ELSE IF run.version = 1 THEN [run EXCEPT !.status = "completed"]
             ELSE IF asked = {} THEN Decided(next)
             ELSE [next EXCEPT !.status = "investigating", !.waiting = asked]
  BY <1>1 DEF Analysis, AskedBy
<1> HIDE DEF decisions, asked
<1>4. /\ DOMAIN next = RunFields /\ next.observed = run.observed
      /\ next.obs = run.obs /\ next.asked = asked
  BY <1>1, DecidingChanges
<1> HIDE DEF next
<1>5. CASE run.observed # Warehouse
  <2>1. run'.status = "failed"
    BY <1>1, <1>3, <1>5 DEF RunFields
  <2> QED BY <2>1 DEF Surveyed
<1>6. CASE run.observed = Warehouse /\ run.version = 1
  <2>1. run' = [run EXCEPT !.status = "completed"]
    BY <1>3, <1>6
  <2>2. run'.observed = Warehouse /\ run'.asked = run.asked
    BY <1>1, <1>6, <2>1 DEF RunFields
  <2>3. run.asked = {}
    BY <1>1, <1>6 DEF SoundRun, WhatWasDecided, Undecided
  <2> QED BY <2>2, <2>3 DEF Surveyed
<1>7. CASE run.observed = Warehouse /\ run.version # 1
  <2>1. /\ run'.observed = Warehouse /\ run'.obs = run.obs
        /\ run'.asked = asked
    <3>1. CASE asked = {}
      <4>1. run' = Decided(next)
        BY <1>3, <1>7, <3>1
      <4> QED BY <1>4, <1>7, <4>1, DecidedOnSurvey
    <3>2. CASE asked # {}
      <4>1. run' = [next EXCEPT !.status = "investigating", !.waiting = asked]
        BY <1>3, <1>7, <3>2
      <4> QED BY <1>4, <1>7, <4>1 DEF RunFields
    <3> QED BY <3>1, <3>2
  <2> QED BY <1>2, <2>1 DEF Surveyed, Conflicts
<1> QED BY <1>5, <1>6, <1>7

LEMMA SurveyHolds ==
  /\ Init => Surveyed(run)
  /\ RunInvariant /\ Surveyed(run) /\ [Next]_vars => Surveyed(run')
<1>1. ASSUME NEW version
      PROVE  Surveyed(NewRun(version)) /\ Surveyed(Observing(version))
  <2> DEFINE r == NewRun(version)
             q == Observing(version)
  <2>1. r.status = "starting" /\ DOMAIN r = RunFields
    BY DEF NewRun, RunFields
  <2>2. q = [r EXCEPT !.status = "observing", !.waiting = Warehouse \X {NoSku}]
    BY DEF Observing
  <2> HIDE DEF r
  <2>3. q.status = "observing"
    BY <2>1, <2>2 DEF RunFields
  <2> HIDE DEF q
  <2> QED BY <2>1, <2>3 DEF Surveyed, r, q
<1>2. ASSUME RunInvariant, Surveyed(run), [Next]_vars PROVE Surveyed(run')
  <2>1. DOMAIN run = RunFields
    BY <1>2 DEF RunInvariant, SoundRun
  <2>2. CASE Begin
    BY <1>1, <2>2 DEF Begin
  <2>3. CASE Answered
    <3>1. CASE \E w \in Warehouse : AnswerCatalogue(w)
      <4>1. PICK w \in Warehouse : AnswerCatalogue(w)
        BY <3>1
      <4> DEFINE c == Called(run, "catalogue", w, NoSku, "ok")
                 obs == [s \in Sku |-> IF shelf[w][s] = Missing THEN c.obs[s]
                                       ELSE With(c.obs[s], w, shelf[w][s].rec)]
      <4>2. /\ run' = [c EXCEPT !.observed = c.observed \cup {w}, !.obs = obs]
            /\ run.status = "observing"
        BY <4>1 DEF AnswerCatalogue
      <4>3. DOMAIN c = RunFields /\ c.status = run.status
        BY <2>1, CallChanges
      <4> HIDE DEF c, obs
      <4>4. run'.status = "observing"
        BY <4>2, <4>3 DEF RunFields
      <4> QED BY <4>4 DEF Surveyed
    <3>2. ASSUME NEW w \in Warehouse, NEW s \in Sku, AnswerEvents(w, s)
          PROVE  Surveyed(run')
      <4> DEFINE c == Called(run, "events", w, s, "ok")
                 got == RecentEvents(shelf[w][s].hist, HistoryLimit)
                 histories == [c.histories EXCEPT ![s] =
                                 With(c.histories[s], w, got)]
      <4>1. /\ run' = [c EXCEPT !.histories = histories]
            /\ run.status = "investigating"
        BY <3>2 DEF AnswerEvents
      <4>2. /\ DOMAIN c = RunFields /\ c.observed = run.observed
            /\ c.obs = run.obs /\ c.asked = run.asked
        BY <2>1, CallChanges
      <4> HIDE DEF c, histories
      <4>3. /\ run'.observed = run.observed /\ run'.obs = run.obs
            /\ run'.asked = run.asked
        BY <4>1, <4>2 DEF RunFields
      <4> QED BY <1>2, <4>1, <4>3, SurveyStands
    <3>3. ASSUME NEW w \in Warehouse, NEW s \in Sku, AnswerVerification(w, s)
          PROVE  Surveyed(run')
      <4> DEFINE c == Called(run, "verification", w, s, "ok")
                 got == shelf[w][s].rec
                 checked == [c.checked EXCEPT ![s] = With(c.checked[s], w, got)]
      <4>1. /\ run' = [c EXCEPT !.checked = checked]
            /\ run.status = "verifying"
        BY <3>3 DEF AnswerVerification
      <4>2. /\ DOMAIN c = RunFields /\ c.observed = run.observed
            /\ c.obs = run.obs /\ c.asked = run.asked
        BY <2>1, CallChanges
      <4> HIDE DEF c, checked
      <4>3. /\ run'.observed = run.observed /\ run'.obs = run.obs
            /\ run'.asked = run.asked
        BY <4>1, <4>2 DEF RunFields
      <4> QED BY <1>2, <4>1, <4>3, SurveyStands
    <3> QED BY <2>3, <3>1, <3>2, <3>3 DEF Answered
  <2>4. CASE Analyse
    BY <1>2, <2>4, AnalysisSurveys
  <2>5. CASE Reassess
    <3> DEFINE next == [run EXCEPT !.decisions = Reassessments(run)]
    <3>1. run' = Decided(next) /\ run.status = "investigating"
      BY <2>5 DEF Reassess
    <3>2. /\ DOMAIN next = RunFields /\ next.observed = run.observed
          /\ next.obs = run.obs /\ next.asked = run.asked
      BY <2>1 DEF RunFields
    <3> HIDE DEF next
    <3> QED BY <1>2, <3>1, <3>2, DecidedOnSurvey, SurveyStands
  <2>6. CASE Resolve
    <3>1. /\ run.status = "verifying" /\ run.waiting = {}
          /\ run' = Resolution(run) /\ SoundRun(run)
      BY <1>2, <2>6 DEF Resolve, RunInvariant
    <3>2. PICK r : /\ Between(r) /\ run' = Proceed(r) /\ r.obs = run.obs
                   /\ r.observed = run.observed /\ r.asked = run.asked
      BY <3>1, ResolutionProceeds
    <3>3. FieldsAfterLoop(run', r)
      BY <3>2, ProceedChanges DEF Between
    <3>4. /\ run'.observed = run.observed /\ run'.obs = run.obs
          /\ run'.asked = run.asked
      BY <3>2, <3>3 DEF FieldsAfterLoop
    <3> QED BY <1>2, <3>1, <3>4, SurveyStands
  <2>7. CASE ExecuteUpdate \/ LoseUpdate
    <3>1. PICK answer : run' = Sent(run, Min(run.todo), answer)
      BY <2>7 DEF ExecuteUpdate, LoseUpdate
    <3> DEFINE w == Min(run.todo)
    <3>2. FieldsAfterPut(run', run, w, answer)
      BY <2>1, <3>1, SentChanges
    <3> HIDE DEF w
    <3>3. /\ run'.observed = run.observed /\ run'.obs = run.obs
          /\ run'.asked = run.asked /\ run.status = "executing"
      BY <2>7, <3>2 DEF FieldsAfterPut, ExecuteUpdate, LoseUpdate
    <3> QED BY <1>2, <3>3, SurveyStands
  <2>8. CASE \E w \in Warehouse, s \in Sku \cup {NoSku} : LoseRead(w, s)
    <3>1. PICK w, s : run' = Called(run, Purpose(run.status), w, s, "lost")
      BY <2>8 DEF LoseRead
    <3> DEFINE p == Purpose(run.status)
    <3>2. run' = Called(run, p, w, s, "lost")
      BY <3>1
    <3> HIDE DEF p
    <3>3. /\ run'.observed = run.observed /\ run'.obs = run.obs
          /\ run'.asked = run.asked /\ run'.status = run.status
      BY <2>1, <3>2, CallChanges
    <3> QED BY <1>2, <3>3 DEF Surveyed, Conflicts
  <2>9. CASE run' = run
    BY <1>2, <2>9
  <2> QED BY <1>2, <2>2, <2>3, <2>4, <2>5, <2>6, <2>7, <2>8, <2>9
          DEF Next, RunStep, Fault, HandleLate, Terminated, vars
<1> QED BY <1>1, <1>2 DEF Init, Begin

CostInv == Promise /\ Accounted(run) /\ Surveyed(run)

LEMMA CostHolds ==
  /\ Init => CostInv
  /\ CostInv /\ [Next]_vars => CostInv'
<1>1. Init => CostInv
  BY PromiseHolds, FirstIsAccounted, SurveyHolds DEF CostInv
<1>2. ASSUME CostInv, [Next]_vars PROVE CostInv'
  <2>1. /\ Promise /\ Promise' /\ RunInvariant /\ Accounted(run)
        /\ Surveyed(run)'
    BY <1>2, PromiseHolds, SurveyHolds DEF CostInv, Promise
  <2>2. Accounted(run)'
    <3>1. CASE Begin
      BY <3>1, FirstIsAccounted
    <3>2. CASE Answered
      BY <2>1, <3>2, CatalogueIsAccounted, EventsAreAccounted,
         VerificationIsAccounted DEF Answered
    <3>3. CASE Analyse \/ Reassess \/ Resolve
      BY <2>1, <3>3, AnalysisIsAccounted, ReassessmentIsAccounted,
         ResolutionIsAccounted
    <3>4. CASE ExecuteUpdate
      BY <2>1, <3>4, WriteIsAccounted
    <3>5. CASE \/ \E w \in Warehouse, s \in Sku \cup {NoSku} : LoseRead(w, s)
               \/ LoseUpdate
      BY <2>1, <3>5, LossesAreAccounted
    <3>6. CASE run' = run
      BY <2>1, <3>6
    <3> QED BY <1>2, <3>1, <3>2, <3>3, <3>4, <3>5, <3>6
            DEF Next, RunStep, Fault, HandleLate, Terminated, vars
  <2> QED BY <2>1, <2>2 DEF CostInv
<1> QED BY <1>1, <1>2

-----------------------------------------------------------------------------
(* Counting warehouses by SKU *)

Rows(F, K) == {x \in Warehouse \X K : x[1] \in F[x[2]]}

LEMMA RowsAreFinite ==
  ASSUME NEW K, IsFiniteSet(K), NEW F
  PROVE  /\ IsFiniteSet(Rows(F, K)) /\ Cardinality(Rows(F, K)) \in Nat
         /\ IsFiniteSet(Warehouse \X K) /\ Rows(F, K) \subseteq Warehouse \X K
         /\ Cardinality(Warehouse \X K) = Cardinality(Warehouse) * Cardinality(K)
         /\ Cardinality(Warehouse) \in Nat /\ Cardinality(K) \in Nat
<1>1. /\ IsFiniteSet(Warehouse \X K)
      /\ Cardinality(Warehouse \X K) = Cardinality(Warehouse) * Cardinality(K)
  BY FleetAssumption, FS_Product
<1>2. Rows(F, K) \in SUBSET (Warehouse \X K)
  BY DEF Rows
<1>3. IsFiniteSet(Rows(F, K))
  BY <1>1, <1>2, FS_Subset
<1> QED BY <1>1, <1>2, <1>3, FleetAssumption, FS_CardinalityType

LEMMA RowsOfBoth ==
  ASSUME NEW K, IsFiniteSet(K), NEW L, IsFiniteSet(L), K \cap L = {}, NEW F
  PROVE  Cardinality(Rows(F, K \cup L)) =
           Cardinality(Rows(F, K)) + Cardinality(Rows(F, L))
<1> DEFINE A == Rows(F, K)
           B == Rows(F, L)
<1>1. Rows(F, K \cup L) = A \cup B /\ A \cap B = {}
  <2>1. \A x : x \in Rows(F, K \cup L) <=> x \in A \cup B
    BY DEF Rows
  <2>2. \A x : x \notin A \cap B
    BY DEF Rows
  <2> QED BY <2>1, <2>2
<1>2. /\ IsFiniteSet(A) /\ Cardinality(A) \in Nat
      /\ IsFiniteSet(B) /\ Cardinality(B) \in Nat
  BY RowsAreFinite
<1> HIDE DEF A, B
<1>3. Cardinality(A \cup B) =
        Cardinality(A) + Cardinality(B) - Cardinality(A \cap B)
  BY <1>2, FS_Union
<1>4. Cardinality(A \cap B) = 0
  BY <1>1, FS_EmptySet
<1>5. Cardinality(A \cup B) = Cardinality(A) + Cardinality(B)
  BY <1>2, <1>3, <1>4
<1> QED BY <1>1, <1>5 DEF A, B

LEMMA NoRows ==
  ASSUME NEW K, NEW F, \A s \in K : F[s] = {}
  PROVE  Cardinality(Rows(F, K)) = 0
<1>1. Rows(F, K) = {}
  BY DEF Rows
<1> QED BY <1>1, FS_EmptySet

LEMMA WholeRows ==
  ASSUME NEW K, IsFiniteSet(K), NEW F, \A s \in K : F[s] = Warehouse
  PROVE  Cardinality(Rows(F, K)) = Cardinality(Warehouse) * Cardinality(K)
<1>1. Rows(F, K) = Warehouse \X K
  BY DEF Rows
<1> QED BY <1>1, RowsAreFinite

LEMMA SingleRows ==
  ASSUME NEW K, IsFiniteSet(K), NEW F,
         \A s \in K : \E w \in Warehouse : F[s] = {w}
  PROVE  Cardinality(Rows(F, K)) = Cardinality(K)
<1> DEFINE R == Rows(F, K)
           one(s) == CHOOSE w \in Warehouse : F[s] = {w}
           f == [s \in K |-> <<one(s), s>>]
<1>1. ASSUME NEW s \in K PROVE one(s) \in Warehouse /\ F[s] = {one(s)}
  <2>1. \E w \in Warehouse : F[s] = {w}
    OBVIOUS
  <2> QED BY <2>1
<1> HIDE DEF one
<1>2. \A s \in K : f[s] = <<one(s), s>> /\ f[s] \in R
  BY <1>1 DEF Rows
<1>3. ASSUME NEW x \in R PROVE \E s \in K : f[s] = x
  <2>1. x = <<x[1], x[2]>> /\ x[2] \in K /\ x[1] \in F[x[2]]
    BY DEF Rows
  <2>2. x[1] = one(x[2])
    BY <1>1, <2>1
  <2> QED BY <1>2, <2>1, <2>2
<1>4. f \in [K -> R]
  BY <1>2
<1>5. \A s, t \in K : f[s] = f[t] => s = t
  BY <1>2
<1> HIDE DEF f, R
<1>6. f \in Bijection(K, R)
  BY <1>3, <1>4, <1>5 DEF Bijection, Injection, Surjection, IsInjective
<1>7. ExistsBijection(K, R)
  BY <1>6 DEF ExistsBijection
<1> QED BY <1>7, FS_Bijection DEF R

LEMMA OtherRows ==
  ASSUME NEW K, IsFiniteSet(K), NEW F,
         \A s \in K : \E w \in Warehouse : F[s] = Warehouse \ {w}
  PROVE  Cardinality(Rows(F, K)) =
           (Cardinality(Warehouse) - 1) * Cardinality(K)
<1> DEFINE G == [s \in K |-> Warehouse \ F[s]]
           all == Warehouse \X K
<1>1. ASSUME NEW s \in K PROVE \E w \in Warehouse : G[s] = {w}
  <2>1. PICK w \in Warehouse : F[s] = Warehouse \ {w}
    OBVIOUS
  <2> QED BY <2>1
<1>2. Rows(F, K) = all \ Rows(G, K) /\ all \cap Rows(G, K) = Rows(G, K)
  <2>1. \A x : x \in Rows(F, K) <=> x \in all \ Rows(G, K)
    BY DEF Rows
  <2>2. \A x : x \in all \cap Rows(G, K) <=> x \in Rows(G, K)
    BY DEF Rows
  <2> QED BY <2>1, <2>2
<1> HIDE DEF G, all
<1>3. Cardinality(Rows(G, K)) = Cardinality(K)
  BY <1>1, SingleRows
<1>4. /\ IsFiniteSet(all)
      /\ Cardinality(all) = Cardinality(Warehouse) * Cardinality(K)
      /\ Cardinality(Warehouse) \in Nat /\ Cardinality(K) \in Nat
  BY RowsAreFinite DEF all
<1>5. Cardinality(Rows(F, K)) = Cardinality(all) - Cardinality(K)
  <2> DEFINE B == Rows(G, K)
  <2> HIDE DEF B
  <2>1. Cardinality(all \ B) = Cardinality(all) - Cardinality(all \cap B)
    BY <1>4, FS_Difference
  <2> QED BY <1>2, <1>3, <2>1 DEF B
<1>6. \A n, k \in Nat : n * k - k = (n - 1) * k
  OBVIOUS
<1> QED BY <1>4, <1>5, <1>6

(* The calls for one purpose are as many as what they were needed for.     *)
LEMMA CallsAreCounted ==
  ASSUME NEW r, Smooth(r), Accounted(r), NEW p \in CallPurposes,
         NEW F, NEW K \in SUBSET (Sku \cup {NoSku}), IsFiniteSet(K),
         \A w \in Warehouse, s \in Sku \cup {NoSku} :
           Needed(r, p, w, s) <=> s \in K /\ w \in F[s]
  PROVE  Cardinality({c \in r.calls : c.purpose = p}) = Cardinality(Rows(F, K))
<1> DEFINE R == Rows(F, K)
           C == {c \in r.calls : c.purpose = p}
           f == [x \in R |-> Successful(p, x[1], x[2])]
<1>1. ASSUME NEW x \in R
      PROVE  /\ f[x] \in C /\ f[x].to = x[1] /\ f[x].sku = x[2]
             /\ x = <<x[1], x[2]>>
  <2>1. /\ x = <<x[1], x[2]>> /\ x[1] \in Warehouse /\ x[2] \in K
        /\ x[1] \in F[x[2]]
    BY DEF Rows
  <2>2. x[2] \in Sku \cup {NoSku}
    BY <2>1
  <2>3. Successful(p, x[1], x[2]) \in r.calls
    BY <2>1, <2>2 DEF Accounted
  <2>4. f[x] = Successful(p, x[1], x[2])
    OBVIOUS
  <2> HIDE DEF f
  <2> QED BY <2>1, <2>3, <2>4 DEF Successful
<1>2. ASSUME NEW c \in C PROVE \E x \in R : f[x] = c
  <2>1. PICK p0 \in CallPurposes, w \in Warehouse, s \in Sku \cup {NoSku} :
          c = Successful(p0, w, s) /\ Needed(r, p0, w, s)
    BY DEF Accounted
  <2>2. p0 = p
    BY <2>1 DEF Successful
  <2>3. <<w, s>> \in R
    BY <2>1, <2>2 DEF Rows
  <2>4. f[<<w, s>>] = c
    BY <2>1, <2>2, <2>3
  <2> QED BY <2>3, <2>4
<1>3. f \in [R -> C]
  <2>1. \A x \in R : f[x] \in C
    BY <1>1
  <2> HIDE DEF C, R
  <2> QED BY <2>1
<1> HIDE DEF f, R, C
<1>4. \A x, y \in R : f[x] = f[y] => x = y
  BY <1>1
<1>5. f \in Bijection(R, C)
  BY <1>2, <1>3, <1>4 DEF Bijection, Injection, Surjection, IsInjective
<1>6. ExistsBijection(R, C)
  BY <1>5 DEF ExistsBijection
<1>7. IsFiniteSet(R)
  BY RowsAreFinite DEF R
<1> QED BY <1>6, <1>7, FS_Bijection DEF R, C

-----------------------------------------------------------------------------
(* The kinds of conflicts exclude one another. *)
LEMMA KindsAreApart ==
  ASSUME Cardinality(Warehouse) >= 3, NEW obs \in [Warehouse -> Record]
  PROVE  /\ ~(Stale(obs) /\ Newer(obs))
         /\ ~(Stale(obs) /\ OneDiffers(obs))
         /\ ~(Newer(obs) /\ OneDiffers(obs))
<1>1. \A v \in Warehouse : obs[v].version \in Nat
  BY DEF Record
<1>2. ASSUME Stale(obs), Newer(obs) PROVE FALSE
  <2>1. PICK w \in Warehouse :
          \A v \in Warehouse \ {w} : obs[w].version + 1 = obs[v].version
    BY <1>2 DEF Stale, OneBehind
  <2>2. PICK u \in Warehouse :
          \A v \in Warehouse \ {u} : obs[v].version + 1 = obs[u].version
    BY <1>2 DEF Newer, OneBehind
  <2>3. PICK v, x \in Warehouse \ {w} : v # x
    BY SeveralOthers DEF Several
  <2>4. PICK y \in {v, x} : y # u
    BY <2>3
  <2>5. y \in Warehouse /\ y # w
    BY <2>3, <2>4
  <2>6. /\ obs[w].version + 1 = obs[y].version
        /\ obs[y].version + 1 = obs[u].version
    BY <2>1, <2>2, <2>4, <2>5
  <2>7. u = w \/ obs[w].version + 1 = obs[u].version
    BY <2>1
  <2> QED BY <1>1, <2>5, <2>6, <2>7
<1>3. ASSUME Stale(obs) \/ Newer(obs), OneDiffers(obs) PROVE FALSE
  <2>1. PICK w \in Warehouse :
          \/ \A v \in Warehouse \ {w} : obs[w].version + 1 = obs[v].version
          \/ \A v \in Warehouse \ {w} : obs[v].version + 1 = obs[w].version
    BY <1>3 DEF Stale, Newer, OneBehind
  <2>2. PICK v \in Warehouse \ {w} : TRUE
    BY SeveralOthers DEF Several
  <2>3. obs[v].version = obs[w].version
    BY <1>3, <2>2 DEF OneDiffers, SameVersionDivergence, Several, Versions,
                      Values, VersionOf
  <2> QED BY <1>1, <2>1, <2>2, <2>3
<1> QED BY <1>2, <1>3

LEMMA CostByKind ==
  LET n == Cardinality(Warehouse) IN
  /\ CallsFor["stale"]["events"] = 0 /\ CallsFor["stale"]["write"] = 1
  /\ CallsFor["stale"]["verification"] = n
  /\ CallsFor["newer"]["events"] = 1 /\ CallsFor["newer"]["write"] = n - 1
  /\ CallsFor["newer"]["verification"] = n
  /\ CallsFor["divergence"]["events"] = n /\ CallsFor["divergence"]["write"] = n
  /\ CallsFor["divergence"]["verification"] = n
BY DEF CallsFor

(* The warehouses that a call of some purpose was needed to, by SKU        *)
NeededFor(r, K, p) ==
  [s \in K |-> CASE p = "events" -> AskedOf(r, s)
                 [] p = "write" -> PlanFor(r, s).targets
                 [] OTHER -> Warehouse]

LEMMA RunsNeedNoMore ==
  ASSUME NEW r, SoundRun(r), r.status = "completed", r.version = 3,
         NEW K \in SUBSET Sku, K = Conflicts(r), Surveyed(r),
         \A s \in K : /\ Done(r, s) /\ r.obs[s] \in [Warehouse -> Record]
                      /\ DOMAIN r.histories[s] = AskedOf(r, s)
  PROVE  \A w \in Warehouse, s \in Sku \cup {NoSku} :
           /\ \A p \in {"events", "write", "verification"} :
                Needed(r, p, w, s) <=> s \in K /\ w \in NeededFor(r, K, p)[s]
           /\ Needed(r, "catalogue", w, s) <=> s = NoSku
<1> TAKE w \in Warehouse, s \in Sku \cup {NoSku}
<1>1. /\ r.observed = Warehouse /\ r.asked \subseteq Warehouse \X Conflicts(r)
      /\ NoSku \notin Sku
  BY AgentRunAssumption DEF Surveyed
<1>2. /\ DOMAIN r.plans = K /\ Left(r, s) = {}
      /\ s \in K => r.plans[s] = PlanFor(r, s) /\ DOMAIN r.checked[s] = Warehouse
  <2>1. DOMAIN r.plans \subseteq K
    BY DEF SoundRun, WhatWasWritten, WhatWasDecided, Undecided
  <2> QED BY <2>1 DEF Done, Sure, Left
<1>3. s \in Sku => (w \in DOMAIN r.histories[s] <=> s \in K /\ w \in AskedOf(r, s))
  <2>1. s \in Sku => DOMAIN r.histories[s] \subseteq AskedOf(r, s)
    BY DEF SoundRun, WhatWasRead
  <2>2. s \notin K => w \notin AskedOf(r, s)
    BY <1>1 DEF AskedOf
  <2> QED BY <2>1, <2>2
<1>4. s \in K => /\ NeededFor(r, K, "events")[s] = AskedOf(r, s)
                 /\ NeededFor(r, K, "write")[s] = PlanFor(r, s).targets
                 /\ NeededFor(r, K, "verification")[s] = Warehouse
  BY DEF NeededFor
<1>5. Needed(r, "catalogue", w, s) <=> s = NoSku
  BY <1>1 DEF Needed
<1>6. Needed(r, "events", w, s) <=> s \in K /\ w \in NeededFor(r, K, "events")[s]
  BY <1>3, <1>4 DEF Needed
<1>7. Needed(r, "write", w, s) <=> s \in K /\ w \in NeededFor(r, K, "write")[s]
  BY <1>2, <1>4 DEF Needed
<1>8. Needed(r, "verification", w, s) <=>
        s \in K /\ w \in NeededFor(r, K, "verification")[s]
  BY <1>2, <1>4 DEF Needed
<1> QED BY <1>5, <1>6, <1>7, <1>8

(* The calls of a finished run by kind of conflict *)
LEMMA CostsAreCounted ==
  ASSUME Cardinality(Warehouse) >= 3, ReadOnly = {},
         \A sh \in Shelves : EvidentShelf(sh), CostInv
  PROVE  NaturalCost
<1> DEFINE a == OfKind("stale")
           b == OfKind("newer")
           c == OfKind("divergence")
           K == (a \cup b) \cup c
           n == Cardinality(Warehouse)
           F(p) == NeededFor(run, K, p)
<1>1. SUFFICES ASSUME Finished, NothingLost,
                      Conflicts(run) = UNION {OfKind(kind) : kind \in Kinds}
               PROVE  /\ Count("catalogue") = n
                      /\ \A p \in {"events", "write", "verification"} :
                           Count(p) = CallsFor["stale"][p] * Cardinality(a)
                                      + CallsFor["newer"][p] * Cardinality(b)
                                      + CallsFor["divergence"][p] * Cardinality(c)
  BY DEF NaturalCost
<1>2. Conflicts(run) = K
  BY <1>1 DEF Kinds
<1>3. ASSUME NEW kind \in Kinds, NEW s \in OfKind(kind)
      PROVE  /\ HandledAs(run, kind, s) /\ Done(run, s)
             /\ DOMAIN run.histories[s] = AskedOf(run, s)
             /\ run.obs[s] \in [Warehouse -> Record]
  <2>1. Promise /\ ~Hurt(s)
    BY <1>1 DEF CostInv, NothingLost, Hurt
  <2> QED BY <1>1, <2>1, KindsAreHandled
<1>4. /\ \A s \in a : s \in Sku /\ Stale(run.obs[s])
      /\ \A s \in b : s \in Sku /\ Newer(run.obs[s])
      /\ \A s \in c : s \in Sku /\ OneDiffers(run.obs[s])
  BY DEF OfKind
<1>5. /\ \A s \in a : \E w \in Warehouse : Handled(run, s, {}, {w})
      /\ \A s \in b : \E w \in Warehouse : Handled(run, s, {w}, Warehouse \ {w})
      /\ \A s \in c : Handled(run, s, Warehouse, Warehouse)
      /\ \A s \in K : /\ Done(run, s) /\ run.obs[s] \in [Warehouse -> Record]
                      /\ DOMAIN run.histories[s] = AskedOf(run, s)
  BY <1>3 DEF HandledAs, Kinds
<1>6. /\ a \cap b = {} /\ (a \cup b) \cap c = {} /\ K \in SUBSET Sku
      /\ a \in SUBSET Sku /\ b \in SUBSET Sku /\ c \in SUBSET Sku
  BY <1>4, <1>5, KindsAreApart
<1> HIDE DEF a, b, c
<1>7. /\ IsFiniteSet(a) /\ IsFiniteSet(b) /\ IsFiniteSet(c)
      /\ IsFiniteSet(a \cup b) /\ IsFiniteSet(K)
      /\ n \in Nat /\ Cardinality(a) \in Nat /\ Cardinality(b) \in Nat
      /\ Cardinality(c) \in Nat
  <2>1. IsFiniteSet(a) /\ IsFiniteSet(b) /\ IsFiniteSet(c)
    BY <1>6, AgentRunAssumption, FS_Subset
  <2>2. IsFiniteSet(a \cup b)
    BY <2>1, FS_Union
  <2>3. IsFiniteSet(K)
    BY <2>1, <2>2, FS_Union
  <2> QED BY <2>1, <2>2, <2>3, FleetAssumption, FS_CardinalityType
<1>8. /\ SoundRun(run) /\ run.status = "completed" /\ run.version = 3
      /\ Accounted(run) /\ Surveyed(run)
  BY <1>1 DEF Finished, CostInv, Promise, RunInvariant
<1> HIDE DEF K
<1>9. /\ \A p \in {"events", "write", "verification"} :
           \A w \in Warehouse, s \in Sku \cup {NoSku} :
             Needed(run, p, w, s) <=> s \in K /\ w \in F(p)[s]
      /\ \A w \in Warehouse, s \in Sku \cup {NoSku} :
             Needed(run, "catalogue", w, s) <=> s = NoSku
  BY <1>2, <1>5, <1>6, <1>8, RunsNeedNoMore
<1>10. Smooth(run)
  <2>1. DOMAIN run.plans \subseteq K
    BY <1>2, <1>8 DEF SoundRun, WhatWasWritten, WhatWasDecided, Undecided
  <2> QED BY <1>1, <1>5, <2>1 DEF Smooth, NothingLost, Done
<1>11. Count("catalogue") = n
  <2> DEFINE one == {NoSku}
             G == [s \in one |-> Warehouse]
  <2>1. /\ IsFiniteSet(one) /\ Cardinality(one) = 1
        /\ one \in SUBSET (Sku \cup {NoSku})
    BY FS_Singleton
  <2>2. \A s \in one : G[s] = Warehouse
    OBVIOUS
  <2>3. \A w \in Warehouse, s \in Sku \cup {NoSku} :
          Needed(run, "catalogue", w, s) <=> s \in one /\ w \in G[s]
    BY <1>9
  <2> HIDE DEF one, G
  <2>4. Cardinality(Rows(G, one)) = n * 1
    BY <2>1, <2>2, WholeRows
  <2>5. "catalogue" \in CallPurposes
    BY DEF CallPurposes
  <2>6. Count("catalogue") = Cardinality(Rows(G, one))
    BY <1>8, <1>10, <2>1, <2>3, <2>5, CallsAreCounted DEF Count
  <2> QED BY <1>7, <2>4, <2>6
<1>12. ASSUME NEW p \in {"events", "write", "verification"}
       PROVE  Count(p) = Cardinality(Rows(F(p), a)) + Cardinality(Rows(F(p), b))
                         + Cardinality(Rows(F(p), c))
  <2> DEFINE G == F(p)
  <2>1. /\ \A w \in Warehouse, s \in Sku \cup {NoSku} :
             Needed(run, p, w, s) <=> s \in K /\ w \in G[s]
        /\ K \in SUBSET (Sku \cup {NoSku}) /\ p \in CallPurposes
    BY <1>6, <1>9 DEF CallPurposes
  <2> HIDE DEF G
  <2>2. Count(p) = Cardinality(Rows(G, K))
    BY <1>7, <1>8, <1>10, <2>1, CallsAreCounted DEF Count
  <2>3. Cardinality(Rows(G, K)) =
          Cardinality(Rows(G, a \cup b)) + Cardinality(Rows(G, c))
    BY <1>6, <1>7, RowsOfBoth DEF K
  <2>4. Cardinality(Rows(G, a \cup b)) =
          Cardinality(Rows(G, a)) + Cardinality(Rows(G, b))
    BY <1>6, <1>7, RowsOfBoth
  <2> QED BY <2>2, <2>3, <2>4 DEF G
<1>13. /\ \A s \in K : /\ F("events")[s] = AskedOf(run, s)
                       /\ F("write")[s] = PlanFor(run, s).targets
                       /\ F("verification")[s] = Warehouse
       /\ a \subseteq K /\ b \subseteq K /\ c \subseteq K
  BY DEF NeededFor, K
<1> HIDE DEF F, n
<1>14. /\ \A s \in a : /\ F("events")[s] = {}
                       /\ \E w \in Warehouse : F("write")[s] = {w}
       /\ \A s \in b : /\ \E w \in Warehouse : F("events")[s] = {w}
                       /\ \E w \in Warehouse : F("write")[s] = Warehouse \ {w}
       /\ \A s \in c : F("events")[s] = Warehouse /\ F("write")[s] = Warehouse
       /\ \A s \in K : F("verification")[s] = Warehouse
  BY <1>5, <1>13 DEF Handled
<1>15. /\ Cardinality(Rows(F("events"), a)) = 0
       /\ Cardinality(Rows(F("events"), b)) = Cardinality(b)
       /\ Cardinality(Rows(F("events"), c)) = n * Cardinality(c)
  BY <1>7, <1>14, NoRows, SingleRows, WholeRows DEF n
<1>16. /\ Cardinality(Rows(F("write"), a)) = Cardinality(a)
       /\ Cardinality(Rows(F("write"), b)) = (n - 1) * Cardinality(b)
       /\ Cardinality(Rows(F("write"), c)) = n * Cardinality(c)
  BY <1>7, <1>14, SingleRows, OtherRows, WholeRows DEF n
<1>17. /\ Cardinality(Rows(F("verification"), a)) = n * Cardinality(a)
       /\ Cardinality(Rows(F("verification"), b)) = n * Cardinality(b)
       /\ Cardinality(Rows(F("verification"), c)) = n * Cardinality(c)
  BY <1>7, <1>13, <1>14, WholeRows DEF n
<1>18. \A k \in Nat : 0 * k = 0 /\ 1 * k = k /\ 0 + k = k
  OBVIOUS
<1> QED BY <1>7, <1>11, <1>12, <1>15, <1>16, <1>17, <1>18, CostByKind DEF n

(* What a run costs when every call is answered and every conflict is of a *)
(* kind that the agent resolves: the calls of each conflict alone          *)
(* (agent_v3.md:108-127), none twice and none for another's sake, for any  *)
(* SKUs and three or more writable warehouses whose histories explain what *)
(* they hold (planner.py:19-74, executor.py:22-60, runner.py:214-276).     *)
THEOREM CostsAreNatural ==
  ASSUME Cardinality(Warehouse) >= 3, ReadOnly = {},
         \A sh \in Shelves : EvidentShelf(sh)
  PROVE  Spec => []NaturalCost
<1>1. Init => CostInv
  BY CostHolds
<1>2. CostInv /\ [Next]_vars => CostInv'
  BY CostHolds
<1>3. CostInv => NaturalCost
  BY CostsAreCounted
<1> QED BY <1>1, <1>2, <1>3, PTL DEF Spec

=============================================================================
