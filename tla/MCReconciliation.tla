-------------------------- MODULE MCReconciliation --------------------------
(***************************************************************************)
(* Reconciliation for TLC: fleets built from one stream of stock events.   *)
(* A warehouse starts as a prefix of the stream, possibly miscounted and   *)
(* possibly with the oldest part of its history gone.                      *)
(***************************************************************************)
EXTENDS Reconciliation, TLC

Opening == [id |-> 0, delta |-> OpeningStock, opening |-> TRUE, at |-> 0]
Posted(k, d) == [id |-> k, delta |-> d, opening |-> FALSE, at |-> k]

(* The stream, with the deltas of the scenario files in proportion, and an *)
(* event of another branch                                                 *)
Stream == <<Posted(1, 2), Posted(2, -1), Posted(3, 4)>>
Branch == Posted(4, 1)

Posts(hist) == {hist[i].id : i \in 2..Len(hist)}

SumOf(hist) == SumFunction([i \in DOMAIN hist |-> hist[i].delta])

(* A warehouse that processed hist, is off by error and shows its history  *)
(* only from the from-th event                                             *)
Replica(hist, error, from) ==
  [rec |-> [product |-> "p1",
            inventory |-> [on_hand |-> SumOf(hist) + error, reserved |-> 1],
            version |-> Len(hist), cursor |-> Len(hist),
            last |-> hist[Len(hist)]],
   hist |-> SubSeq(hist, from, Len(hist))]

Prefix(k) == <<Opening>> \o SubSeq(Stream, 1, k)

FleetOf(hists, errors, froms, posted) ==
  [store |-> [w \in Warehouse |->
                IF hists[w] = <<>> THEN Missing
                ELSE Replica(hists[w], errors[w], froms[w])],
   reflected |-> [w \in Warehouse |-> Posts(hists[w])],
   feed |-> posted]

NoErrors == [w \in Warehouse |-> 0]
Full == [w \in Warehouse |-> 1]

AtMostOneError == {[NoErrors EXCEPT ![w] = d] : w \in Warehouse, d \in {-1, 0, 1}}

(* Every combination of prefixes, one miscount and shortened histories *)
PrefixFleets ==
  {FleetOf([w \in Warehouse |-> Prefix(p[w])], errors,
           [w \in Warehouse |-> IF w \in short THEN p[w] + 1 ELSE 1],
           Stream) :
     p \in [Warehouse -> 0..2], errors \in AtMostOneError,
     short \in SUBSET Warehouse}
  \cup
  {FleetOf([w \in Warehouse |-> IF w = v THEN <<>> ELSE Prefix(p[w])],
           NoErrors, Full, Stream) : v \in Warehouse, p \in [Warehouse -> 0..1]}

NoDeltas == <<>>

(* The conflicts an agent resolves *)
StaleByOneFleet(v) ==
  FleetOf([w \in Warehouse |-> IF w = v THEN Prefix(0) ELSE Prefix(1)],
          NoErrors, Full, SubSeq(Stream, 1, 1))
NewerByOneFleet(v) ==
  FleetOf([w \in Warehouse |-> IF w = v THEN Prefix(1) ELSE Prefix(0)],
          NoErrors, Full, SubSeq(Stream, 1, 1))
MiscountedFleet(v) ==
  FleetOf([w \in Warehouse |-> Prefix(1)], [NoErrors EXCEPT ![v] = -1],
          Full, SubSeq(Stream, 1, 1))

StaleByTwoFleets ==
  {FleetOf([w \in Warehouse |-> IF w = v THEN Prefix(0) ELSE Prefix(2)],
           NoErrors, Full, Stream) : v \in Warehouse}
BranchFleets ==
  {FleetOf([w \in Warehouse |->
              IF w = v THEN <<Opening, Branch>> ELSE Prefix(2)],
           NoErrors, Full, Append(Stream, Branch)) : v \in Warehouse}

StaleFleets == {StaleByOneFleet(v) : v \in Warehouse}
ConflictFleets == {StaleByOneFleet(2), MiscountedFleet(3)}

(* Fleets that go on changing: one behind, one ahead *)
MovingFleets == {StaleByOneFleet(2), NewerByOneFleet(3)}

(* Fleets that earlier runs have written.  A warehouse has processed the   *)
(* first i events, was written with the stock of the first j and has gone  *)
(* on to the k-th; "now" is when it was written.                           *)
Spaced(k) == [Posted(k, <<2, -3, 4>>[k]) EXCEPT !.at = 4 * k - 4]
Events(from, to) == [n \in 1..(to - from) |-> Spaced(from + n)]

Written(i, j, now) ==
  [id |-> ReconcileBase + i + 2, delta |-> SumOf(Events(i, j)),
   opening |-> FALSE, at |-> 4 * j - 4 + now]

Pasts == {p \in (0..2) \X (0..2) \X (0..3) : p[1] <= p[2] /\ p[2] <= p[3]}

Past(p, now) ==
  <<Opening>> \o Events(0, p[1])
  \o (IF p[1] = p[2] THEN <<>> ELSE <<Written(p[1], p[2], now)>>)
  \o Events(p[2], p[3])

WrittenReplica(p, now, error) ==
  [Replica(Past(p, now), error, 1) EXCEPT !.rec.version = p[3] + 1]

WrittenFleets ==
  {[store |-> [w \in Warehouse |-> WrittenReplica(p[w], w, errors[w])],
    reflected |-> [w \in Warehouse |-> 1..p[w][3]],
    feed |-> Events(0, 3)] :
     p \in [Warehouse -> Pasts], errors \in AtMostOneError}

(* Miscounts anywhere at a common revision: two warehouses may agree on a  *)
(* wrong stock                                                             *)
MiscountedFleets ==
  {FleetOf([w \in Warehouse |-> Prefix(1)], errors, Full, Stream) :
     errors \in [Warehouse -> {-1, 0, 1}]}

StaticFleets == PrefixFleets \cup WrittenFleets \cup MiscountedFleets

(* Events that were processed in the order o and have one stamp *)
Tied(k) == [Posted(k, <<2, -1, 4>>[k]) EXCEPT !.at = 1]

TiedFleets ==
  {FleetOf([w \in Warehouse |-> <<Opening>> \o [i \in 1..p[w] |-> Tied(o[i])]],
           errors, Full, [k \in 1..3 |-> Tied(k)]) :
     o \in {<<2, 1, 3>>, <<3, 1, 2>>}, p \in [Warehouse -> 0..3],
     errors \in AtMostOneError}

(* What the promises presuppose holds of the fleets that are checked for   *)
(* them.                                                                   *)
ASSUME StaticFleetsAreEvident ==
  \A f \in StaticFleets : EvidentFleet(f) /\ WrongStockShows(f)

AgentSymmetry == Permutations(Agent)

TwoMoreEvents == <<2, -1, 1>>
OneMoreEvent == <<2, -1>>

=============================================================================
