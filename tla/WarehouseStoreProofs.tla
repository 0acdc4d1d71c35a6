------------------------ MODULE WarehouseStoreProofs ------------------------
(***************************************************************************)
(* Proofs about WarehouseStore for any products, requests, clocks and      *)
(* files: its state stays well formed, the record and the history agree on *)
(* the last event, event ids never repeat, every new revision is logged by *)
(* exactly one new event, and the store implements the stock ledger.       *)
(***************************************************************************)
EXTENDS WarehouseStore, WarehouseOpsProofs, Functions, FiniteSetsExt,
        FiniteSetTheorems, WellFoundedInduction

-----------------------------------------------------------------------------
(* What the sums of the model are, for any finite set: the folds of the    *)
(* community modules are recursive functions on the subsets of a set, and  *)
(* what holds of every such subset is proved by looking at a smallest      *)
(* counterexample, which the strict subset ordering provides.              *)

(* A smallest member of a family of subsets *)
LEMMA SmallestSubset ==
  ASSUME NEW S, IsFiniteSet(S), NEW F \in SUBSET SUBSET S, F # {}
  PROVE  \E T \in F : \A U \in F : U \subseteq T => U = T
<1>1. IsWellFoundedOn(StrictSubsetOrdering(S), FiniteSubsetsOf(S))
  BY FS_StrictSubsetOrderingWellFounded
<1>2. FiniteSubsetsOf(S) = SUBSET S
  BY FS_FiniteSubsetsOfFinite
<1>3. PICK T \in F : \A U \in F : ~(<<U, T>> \in StrictSubsetOrdering(S))
  BY <1>1, <1>2, WFMin
<1>4. \A U \in F : U \subseteq T => U = T
  BY <1>3 DEF StrictSubsetOrdering
<1> QED BY <1>4

(* A family with the empty set that grows by any element holds everything. *)
LEMMA SetInduction ==
  ASSUME NEW S, IsFiniteSet(S), NEW F, {} \in F,
         \A T \in SUBSET S : \A x \in S \ T : T \in F => T \cup {x} \in F
  PROVE  S \in F
<1> DEFINE C == {T \in SUBSET S : T \notin F}
<1>1. SUFFICES ASSUME C # {} PROVE FALSE
  <2>1. S \in SUBSET S
    OBVIOUS
  <2> QED BY <2>1
<1>2. PICK T \in C : \A U \in C : U \subseteq T => U = T
  <2>1. C \in SUBSET SUBSET S
    OBVIOUS
  <2> HIDE DEF C
  <2> QED BY <1>1, <2>1, SmallestSubset
<1>3. T \in SUBSET S /\ T \notin F /\ T # {}
  BY <1>2
<1>4. PICK x \in T : TRUE
  BY <1>3
<1>5. /\ T \ {x} \in SUBSET S /\ T \ {x} \subseteq T /\ T \ {x} # T
      /\ x \in S \ (T \ {x})
      /\ (T \ {x}) \cup {x} = T
  BY <1>3, <1>4
<1>6. T \ {x} \in F
  BY <1>2, <1>5
<1> QED BY <1>3, <1>5, <1>6

-----------------------------------------------------------------------------
(* The recursive function behind a sum *)

Pick(s) == CHOOSE x \in s : TRUE

(* acc adds up the values of f on every subset of S. *)
Adds(acc, f, S) ==
  acc = [s \in SUBSET S |->
           IF s = {} THEN 0 ELSE f[Pick(s)] + acc[s \ {Pick(s)}]]

LEMMA PickIsAMember ==
  ASSUME NEW s, s # {}
  PROVE  Pick(s) \in s
BY DEF Pick

LEMMA AddsStep ==
  ASSUME NEW f, NEW S, NEW acc, Adds(acc, f, S), NEW s \in SUBSET S
  PROVE  acc[s] = IF s = {} THEN 0 ELSE f[Pick(s)] + acc[s \ {Pick(s)}]
<1> DEFINE b == [t \in SUBSET S |->
                   IF t = {} THEN 0 ELSE f[Pick(t)] + acc[t \ {Pick(t)}]]
<1>1. acc = b
  BY DEF Adds
<1>2. b[s] = IF s = {} THEN 0 ELSE f[Pick(s)] + acc[s \ {Pick(s)}]
  OBVIOUS
<1> QED BY <1>1, <1>2, Zenon

LEMMA AddsDomain ==
  ASSUME NEW f, NEW S, NEW acc, Adds(acc, f, S)
  PROVE  DOMAIN acc = SUBSET S
BY DEF Adds

(* There is at most one: a smallest subset two of them disagree about would *)
(* have a smaller one.  The two may come from different sets.               *)
LEMMA AddsUnique ==
  ASSUME NEW f, NEW g, NEW S, IsFiniteSet(S), NEW T \in SUBSET S,
         \A x \in T : f[x] = g[x],
         NEW a, Adds(a, f, S), NEW b, Adds(b, g, T), NEW s \in SUBSET T
  PROVE  a[s] = b[s]
<1> DEFINE C == {u \in SUBSET T : a[u] # b[u]}
<1>1. SUFFICES ASSUME C # {} PROVE FALSE
  OBVIOUS
<1>2. IsFiniteSet(T)
  BY FS_Subset
<1>3. PICK u \in C : \A v \in C : v \subseteq u => v = u
  <2>1. C \in SUBSET SUBSET T
    OBVIOUS
  <2> HIDE DEF C
  <2> QED BY <1>1, <1>2, <2>1, SmallestSubset
<1>4. u \in SUBSET T /\ u \in SUBSET S /\ a[u] # b[u]
  BY <1>3
<1> DEFINE p == Pick(u)
<1>5. /\ a[u] = IF u = {} THEN 0 ELSE f[p] + a[u \ {p}]
      /\ b[u] = IF u = {} THEN 0 ELSE g[p] + b[u \ {p}]
  BY <1>4, AddsStep
<1>6. u # {}
  BY <1>4, <1>5
<1>7. p \in u
  BY <1>6, PickIsAMember
<1>8. u \ {p} \in SUBSET T /\ u \ {p} \subseteq u /\ u \ {p} # u
  BY <1>4, <1>7
<1>9. a[u \ {p}] = b[u \ {p}]
  BY <1>3, <1>8
<1>10. f[p] = g[p]
  BY <1>4, <1>7
<1> QED BY <1>4, <1>5, <1>6, <1>9, <1>10

(* There is one: a smallest set without one could use those of its strict  *)
(* subsets.                                                                *)
LEMMA AddsExists ==
  ASSUME NEW f, NEW S, IsFiniteSet(S)
  PROVE  \E acc : Adds(acc, f, S)
<1> DEFINE C == {T \in SUBSET S : ~ \E acc : Adds(acc, f, T)}
<1>1. SUFFICES ASSUME C # {} PROVE FALSE
  <2>1. S \in SUBSET S
    OBVIOUS
  <2> QED BY <2>1
<1>2. PICK T \in C : \A U \in C : U \subseteq T => U = T
  <2>1. C \in SUBSET SUBSET S
    OBVIOUS
  <2> HIDE DEF C
  <2> QED BY <1>1, <2>1, SmallestSubset
<1>3. T \in SUBSET S /\ ~ \E acc : Adds(acc, f, T)
  BY <1>2
<1> DEFINE Of(U) == CHOOSE acc : Adds(acc, f, U)
<1>4. \A U \in SUBSET T : U # T => Adds(Of(U), f, U)
  <2> TAKE U \in SUBSET T
  <2> HAVE U # T
  <2>1. U \notin C /\ U \in SUBSET S
    BY <1>2, <1>3
  <2>2. \E acc : Adds(acc, f, U)
    BY <2>1
  <2> QED BY <2>2
<1> DEFINE acc == [s \in SUBSET T |->
                     IF s = {} THEN 0
                     ELSE f[Pick(s)] + Of(s \ {Pick(s)})[s \ {Pick(s)}]]
<1> HIDE DEF Of
<1>5. \A s \in SUBSET T : s # T => acc[s] = Of(s)[s]
  <2> TAKE s \in SUBSET T
  <2> HAVE s # T
  <2> DEFINE p == Pick(s)
  <2>1. acc[s] = IF s = {} THEN 0 ELSE f[p] + Of(s \ {p})[s \ {p}]
    OBVIOUS
  <2>2. Adds(Of(s), f, s) /\ s \in SUBSET s
    BY <1>4
  <2>3. Of(s)[s] = IF s = {} THEN 0 ELSE f[p] + Of(s)[s \ {p}]
    BY <2>2, AddsStep
  <2>4. CASE s = {}
    BY <2>1, <2>3, <2>4
  <2>5. CASE s # {}
    <3>1. p \in s
      BY <2>5, PickIsAMember
    <3>2. s \ {p} \in SUBSET T /\ s \ {p} # T /\ s \ {p} \in SUBSET s
      BY <3>1
    <3>3. Adds(Of(s \ {p}), f, s \ {p})
      BY <1>4, <3>2
    <3>4. IsFiniteSet(s)
      BY <1>3, FS_Subset
    <3>5. s \ {p} \in SUBSET (s \ {p})
      OBVIOUS
    <3>6. Of(s)[s \ {p}] = Of(s \ {p})[s \ {p}]
      <4> HIDE DEF p
      <4> QED BY <2>2, <3>2, <3>3, <3>4, <3>5, AddsUnique
    <3> QED BY <2>1, <2>3, <2>5, <3>6
  <2> QED BY <2>4, <2>5
<1>6. acc = [s \in SUBSET T |->
               IF s = {} THEN 0 ELSE f[Pick(s)] + acc[s \ {Pick(s)}]]
  <2>1. \A s \in SUBSET T : s # {} =>
          acc[s \ {Pick(s)}] = Of(s \ {Pick(s)})[s \ {Pick(s)}]
    <3> TAKE s \in SUBSET T
    <3> HAVE s # {}
    <3>1. s \ {Pick(s)} \in SUBSET T /\ s \ {Pick(s)} # T
      BY PickIsAMember
    <3> QED BY <1>5, <3>1
  <2> DEFINE b == [s \in SUBSET T |->
                     IF s = {} THEN 0 ELSE f[Pick(s)] + acc[s \ {Pick(s)}]]
  <2>2. \A s \in SUBSET T : acc[s] = b[s]
    <3> TAKE s \in SUBSET T
    <3>1. acc[s] = IF s = {} THEN 0
                   ELSE f[Pick(s)] + Of(s \ {Pick(s)})[s \ {Pick(s)}]
      OBVIOUS
    <3> HIDE DEF acc
    <3>2. b[s] = IF s = {} THEN 0 ELSE f[Pick(s)] + acc[s \ {Pick(s)}]
      OBVIOUS
    <3> QED BY <2>1, <3>1, <3>2
  <2>3. DOMAIN acc = SUBSET T /\ DOMAIN b = SUBSET T
    OBVIOUS
  <2>4. acc = [s \in SUBSET T |-> acc[s]] /\ b = [s \in SUBSET T |-> b[s]]
    OBVIOUS
  <2> HIDE DEF acc, b
  <2>5. acc = b
    BY <2>2, <2>4
  <2> QED BY <2>5 DEF b
<1>7. Adds(acc, f, T)
  <2> HIDE DEF acc
  <2> QED BY <1>6 DEF Adds
<1> QED BY <1>3, <1>7

(* Over integers, it gives integers ... *)
LEMMA AddsInt ==
  ASSUME NEW f, NEW S, IsFiniteSet(S), \A x \in S : f[x] \in Int,
         NEW acc, Adds(acc, f, S)
  PROVE  \A s \in SUBSET S : acc[s] \in Int
<1> DEFINE C == {u \in SUBSET S : acc[u] \notin Int}
<1>1. SUFFICES ASSUME C # {} PROVE FALSE
  OBVIOUS
<1>2. PICK u \in C : \A v \in C : v \subseteq u => v = u
  <2>1. C \in SUBSET SUBSET S
    OBVIOUS
  <2> HIDE DEF C
  <2> QED BY <1>1, <2>1, SmallestSubset
<1>3. u \in SUBSET S /\ acc[u] \notin Int
  BY <1>2
<1> DEFINE p == Pick(u)
<1>4. acc[u] = IF u = {} THEN 0 ELSE f[p] + acc[u \ {p}]
  <2> HIDE DEF C, p
  <2>1. u \in SUBSET S
    BY <1>3
  <2> QED BY <2>1, AddsStep DEF p
<1>5. u # {}
  BY <1>3, <1>4
<1>6. p \in u
  BY <1>5, PickIsAMember
<1>7. u \ {p} \in SUBSET S /\ u \ {p} \subseteq u /\ u \ {p} # u
  BY <1>3, <1>6
<1>8. acc[u \ {p}] \in Int
  BY <1>2, <1>7
<1>9. f[p] \in Int
  BY <1>3, <1>6
<1> QED BY <1>3, <1>4, <1>5, <1>8, <1>9

(* ... and the order in which the elements are taken is of no importance.  *)
LEMMA AddsInAnyOrder ==
  ASSUME NEW f, NEW S, IsFiniteSet(S), \A x \in S : f[x] \in Int,
         NEW acc, Adds(acc, f, S), NEW s \in SUBSET S, NEW e \in s
  PROVE  acc[s] = f[e] + acc[s \ {e}]
<1> DEFINE C == {u \in SUBSET S : \E x \in u : acc[u] # f[x] + acc[u \ {x}]}
<1>1. SUFFICES ASSUME C # {} PROVE FALSE
  OBVIOUS
<1>2. PICK u \in C : \A v \in C : v \subseteq u => v = u
  <2>1. C \in SUBSET SUBSET S
    OBVIOUS
  <2> HIDE DEF C
  <2> QED BY <1>1, <2>1, SmallestSubset
<1>3. u \in SUBSET S
  BY <1>2
<1>4. PICK x \in u : acc[u] # f[x] + acc[u \ {x}]
  BY <1>2
<1> DEFINE p == Pick(u)
<1>5. p \in u
  BY <1>4, PickIsAMember
<1>6. acc[u] = f[p] + acc[u \ {p}]
  BY <1>3, <1>4, AddsStep
<1>7. p # x
  BY <1>4, <1>6
<1> HIDE DEF p
<1>8. /\ u \ {p} \in SUBSET S /\ u \ {p} \subseteq u /\ u \ {p} # u
      /\ u \ {x} \in SUBSET S /\ u \ {x} \subseteq u /\ u \ {x} # u
      /\ x \in u \ {p} /\ p \in u \ {x}
  BY <1>3, <1>4, <1>5, <1>7
<1>9. /\ acc[u \ {p}] = f[x] + acc[(u \ {p}) \ {x}]
      /\ acc[u \ {x}] = f[p] + acc[(u \ {x}) \ {p}]
  BY <1>2, <1>8
<1>10. (u \ {p}) \ {x} = (u \ {x}) \ {p} /\ (u \ {x}) \ {p} \in SUBSET S
  BY <1>3
<1>11. f[p] \in Int /\ f[x] \in Int /\ acc[(u \ {x}) \ {p}] \in Int
  BY <1>3, <1>4, <1>5, <1>10, AddsInt
<1> DEFINE z == acc[(u \ {x}) \ {p}]
<1>12. acc[u] = f[p] + (f[x] + z) /\ acc[u \ {x}] = f[p] + z
  BY <1>6, <1>9, <1>10
<1> HIDE DEF z
<1>13. f[p] + (f[x] + z) = f[x] + (f[p] + z)
  BY <1>11 DEF z
<1> QED BY <1>4, <1>12, <1>13

-----------------------------------------------------------------------------
(* The sum of a function over a finite set of indices *)

LEMMA SumIsAdded ==
  ASSUME NEW f, NEW S, IsFiniteSet(S)
  PROVE  \E acc : Adds(acc, f, S) /\ SumFunctionOnSet(f, S) = acc[S]
<1> DEFINE c == CHOOSE acc : Adds(acc, f, S)
<1>1. SumFunctionOnSet(f, S) = c[S]
  BY DEF SumFunctionOnSet, FoldFunctionOnSet, MapThenFoldSet, Adds, Pick
<1>2. Adds(c, f, S)
  BY AddsExists
<1> QED BY <1>1, <1>2

LEMMA SumOfNone ==
  ASSUME NEW f
  PROVE  SumFunctionOnSet(f, {}) = 0
<1>1. IsFiniteSet({})
  BY FS_EmptySet
<1>2. PICK acc : Adds(acc, f, {}) /\ SumFunctionOnSet(f, {}) = acc[{}]
  BY <1>1, SumIsAdded
<1>3. {} \in SUBSET {}
  OBVIOUS
<1>4. acc[{}] = 0
  BY <1>2, <1>3, AddsStep
<1> QED BY <1>2, <1>4

LEMMA SumIsInt ==
  ASSUME NEW f, NEW S, IsFiniteSet(S), \A x \in S : f[x] \in Int
  PROVE  SumFunctionOnSet(f, S) \in Int
<1>1. PICK acc : Adds(acc, f, S) /\ SumFunctionOnSet(f, S) = acc[S]
  BY SumIsAdded
<1>2. S \in SUBSET S
  OBVIOUS
<1>3. acc[S] \in Int
  BY <1>1, <1>2, AddsInt
<1> QED BY <1>1, <1>3

LEMMA SumWithout ==
  ASSUME NEW f, NEW S, IsFiniteSet(S), \A x \in S : f[x] \in Int, NEW e \in S
  PROVE  SumFunctionOnSet(f, S) = f[e] + SumFunctionOnSet(f, S \ {e})
<1>1. PICK a : Adds(a, f, S) /\ SumFunctionOnSet(f, S) = a[S]
  BY SumIsAdded
<1>2. IsFiniteSet(S \ {e})
  BY FS_RemoveElement
<1>3. PICK b : Adds(b, f, S \ {e}) /\ SumFunctionOnSet(f, S \ {e}) = b[S \ {e}]
  BY <1>2, SumIsAdded
<1>4. S \in SUBSET S /\ S \ {e} \in SUBSET S /\ S \ {e} \in SUBSET (S \ {e})
  OBVIOUS
<1>5. a[S] = f[e] + a[S \ {e}]
  BY <1>1, <1>4, AddsInAnyOrder
<1>6. a[S \ {e}] = b[S \ {e}]
  BY <1>1, <1>3, <1>4, AddsUnique
<1> QED BY <1>1, <1>3, <1>5, <1>6

LEMMA SumWith ==
  ASSUME NEW f, NEW S, IsFiniteSet(S), NEW e, e \notin S,
         \A x \in S \cup {e} : f[x] \in Int
  PROVE  SumFunctionOnSet(f, S \cup {e}) = f[e] + SumFunctionOnSet(f, S)
<1>1. IsFiniteSet(S \cup {e})
  BY FS_AddElement
<1>2. (S \cup {e}) \ {e} = S /\ e \in S \cup {e}
  OBVIOUS
<1>3. SumFunctionOnSet(f, S \cup {e})
        = f[e] + SumFunctionOnSet(f, (S \cup {e}) \ {e})
  BY <1>1, <1>2, SumWithout
<1> QED BY <1>2, <1>3

LEMMA SumsAgree ==
  ASSUME NEW f, NEW g, NEW S, IsFiniteSet(S), \A x \in S : f[x] = g[x]
  PROVE  SumFunctionOnSet(f, S) = SumFunctionOnSet(g, S)
<1>1. PICK a : Adds(a, f, S) /\ SumFunctionOnSet(f, S) = a[S]
  BY SumIsAdded
<1>2. PICK b : Adds(b, g, S) /\ SumFunctionOnSet(g, S) = b[S]
  BY SumIsAdded
<1>3. S \in SUBSET S
  OBVIOUS
<1>4. a[S] = b[S]
  BY <1>1, <1>2, <1>3, AddsUnique
<1> QED BY <1>1, <1>2, <1>4

LEMMA SumIsNat ==
  ASSUME NEW f, NEW S, IsFiniteSet(S), \A x \in S : f[x] \in Nat
  PROVE  SumFunctionOnSet(f, S) \in Nat
<1> DEFINE F == {T \in SUBSET S : SumFunctionOnSet(f, T) \in Nat}
<1>1. {} \in F
  BY SumOfNone
<1>2. ASSUME NEW T \in SUBSET S, NEW x \in S \ T, T \in F
      PROVE  T \cup {x} \in F
  <2>1. IsFiniteSet(T) /\ T \cup {x} \in SUBSET S
    BY FS_Subset
  <2>2. \A y \in T \cup {x} : f[y] \in Int
    BY <2>1
  <2>3. SumFunctionOnSet(f, T \cup {x}) = f[x] + SumFunctionOnSet(f, T)
    BY <2>1, <2>2, SumWith
  <2>4. f[x] \in Nat /\ SumFunctionOnSet(f, T) \in Nat
    BY <1>2
  <2> QED BY <2>1, <2>3, <2>4
<1>3. S \in F
  <2> HIDE DEF F
  <2> QED BY <1>1, <1>2, SetInduction
<1> QED BY <1>3

(* Over a sequence: one more element adds its value. *)
LEMMA SumOfAppended ==
  ASSUME NEW n \in Nat, NEW f, NEW g, \A i \in 1..n : g[i] = f[i],
         \A i \in 1..(n + 1) : g[i] \in Int
  PROVE  SumFunctionOnSet(g, 1..(n + 1)) = SumFunctionOnSet(f, 1..n) + g[n + 1]
<1>1. IsFiniteSet(1..n)
  BY FS_Interval
<1>2. 1..(n + 1) = (1..n) \cup {n + 1} /\ n + 1 \notin 1..n
  OBVIOUS
<1>3. SumFunctionOnSet(g, (1..n) \cup {n + 1}) = g[n + 1] + SumFunctionOnSet(g, 1..n)
  BY <1>1, <1>2, SumWith
<1>4. SumFunctionOnSet(g, 1..n) = SumFunctionOnSet(f, 1..n)
  BY <1>1, SumsAgree
<1>5. SumFunctionOnSet(g, 1..n) \in Int /\ g[n + 1] \in Int
  BY <1>1, <1>2, SumIsInt
<1> DEFINE a == SumFunctionOnSet(g, 1..n)
           b == g[n + 1]
<1>6. SumFunctionOnSet(g, 1..(n + 1)) = b + a
  BY <1>2, <1>3, Zenon
<1>7. SumFunctionOnSet(f, 1..n) = a
  BY <1>4
<1>8. a \in Int /\ b \in Int
  BY <1>5
<1> HIDE DEF a
<1>9. b + a = a + b
  <2> HIDE DEF b
  <2> QED BY <1>8
<1> QED BY <1>6, <1>7, <1>9, Zenon

-----------------------------------------------------------------------------
(* A replaced history is part of the old one, or an older event of someone *)
(* else before the last event.                                             *)
LEMMA HistorySeals ==
  ASSUME NEW e, Sealed(e), NEW req \in Replacements(e), req \in HistoryRequest,
         HistoryAccepted(e, req)
  PROVE  Sealed(AfterHistory(e, req))
<1> DEFINE f == AfterHistory(e, req)
<1>1. f.rec = e.rec /\ f.hist = req.events /\ f \in Entry
  BY DEF AfterHistory, Sealed, Entry, HistoryRequest
<1>2. f.hist[Len(f.hist)] = f.rec.last
  BY <1>1 DEF HistoryAccepted
<1>3. UniqueIds(f.hist)
  BY <1>1 DEF HistoryRequest
<1>4. e.hist \in Seq(Event) /\ e.hist # <<>> /\ e.rec \in Record
  BY DEF Sealed, Entry
<1>5. \A i \in DOMAIN req.events :
        (\E k \in DOMAIN e.hist : req.events[i] = e.hist[k]) \/ req.events[i] \in OlderEvents
  <2>1. PICK es \in {SubSeq(e.hist, i, Len(e.hist)) : i \in DOMAIN e.hist}
                      \cup {<<older, e.rec.last>> : older \in OlderEvents} :
               req.events = es
    BY DEF Replacements
  <2>2. CASE \E k \in DOMAIN e.hist : es = SubSeq(e.hist, k, Len(e.hist))
    <3>1. PICK k \in DOMAIN e.hist : es = SubSeq(e.hist, k, Len(e.hist))
      BY <2>2
    <3>2. k \in 1..Len(e.hist) /\ Len(e.hist) \in Nat
      BY <1>4
    <3>3. \A i \in DOMAIN es : k + i - 1 \in DOMAIN e.hist /\ es[i] = e.hist[k + i - 1]
      BY <1>4, <3>1, <3>2
    <3> QED BY <2>1, <3>3
  <2>3. CASE \E older \in OlderEvents : es = <<older, e.rec.last>>
    <3>1. PICK older \in OlderEvents : es = <<older, e.rec.last>>
      BY <2>3
    <3>2. Len(e.hist) \in DOMAIN e.hist /\ e.hist[Len(e.hist)] = e.rec.last
      BY <1>4 DEF Sealed
    <3>3. \A i \in DOMAIN es : es[i] = older \/ es[i] = e.rec.last
      BY <3>1
    <3> QED BY <2>1, <3>1, <3>2, <3>3
  <2> QED BY <2>1, <2>2, <2>3
<1>6. Bounded(f)
  BY <1>1, <1>5, ForeignIdsAssumption DEF Sealed, Bounded
<1> QED BY <1>1, <1>2, <1>3, <1>6 DEF Sealed

-----------------------------------------------------------------------------
(* The inductive invariant: every entry is sealed. *)

StoreInv ==
  /\ TypeOK
  /\ \A s \in Sku : Known(s) => Sealed(shelf[s])

(* What the files leave is sealed, so a load and a reset establish it. *)
LEMMA LoadedIsSealed ==
  ASSUME NEW s \in Sku, NEW e \in {Catalogue[s], Boot[s]} \ {Missing}
  PROVE  Sealed(e)
<1>1. e \in Entry
  BY StoreAssumption
<1>2. e.hist[Len(e.hist)] = e.rec.last /\ UniqueIds(e.hist)
  BY LoaderAssumption
<1>3. Bounded(e)
  BY LoaderAssumption DEF Bounded
<1> QED BY <1>1, <1>2, <1>3 DEF Sealed

(* A step that replaces one sealed entry by another preserves it. *)
LEMMA ReplacingOneEntry ==
  ASSUME StoreInv, NEW s \in Sku, NEW f, Sealed(f),
         shelf' = [shelf EXCEPT ![s] = f]
  PROVE  StoreInv'
<1>1. f \in Entry
  BY DEF Sealed
<1>2. TypeOK'
  BY <1>1 DEF StoreInv, TypeOK
<1>3. ASSUME NEW t \in Sku, Known(t)'
      PROVE  Sealed(shelf'[t])
  <2>1. CASE t = s
    BY <2>1 DEF StoreInv, TypeOK
  <2>2. CASE t # s
    BY <1>3, <2>2 DEF StoreInv, TypeOK, Known
  <2> QED BY <2>1, <2>2
<1> QED BY <1>2, <1>3 DEF StoreInv

LEMMA InitStoreInv == Init => StoreInv
<1> SUFFICES ASSUME Init PROVE StoreInv
  OBVIOUS
<1>1. TypeOK
  BY StoreAssumption DEF Init, TypeOK
<1>2. \A s \in Sku : Known(s) => Sealed(shelf[s])
  BY LoadedIsSealed DEF Init, Known
<1> QED BY <1>1, <1>2 DEF StoreInv

LEMMA NextStoreInv == StoreInv /\ [Next]_vars => StoreInv'
<1> SUFFICES ASSUME StoreInv, [Next]_vars PROVE StoreInv'
  OBVIOUS
<1>1. CASE UNCHANGED vars
  BY <1>1 DEF StoreInv, TypeOK, Known, vars
<1>2. ASSUME NEW s \in Sku, NEW req \in UpdateRequests, NEW now \in Times,
             Update(s, req, now)
      PROVE  StoreInv'
  <2>1. Sealed(shelf[s]) /\ shelf \in [Sku -> Entry \cup {Missing}]
    BY <1>2 DEF Update, StoreInv, TypeOK
  <2>2. req \in UpdateRequest /\ now \in Nat
    BY StoreAssumption
  <2>3. Sealed(AfterUpdate(shelf[s], req, now))
    BY <2>1, <2>2, UpdateSeals
  <2>4. shelf' = [shelf EXCEPT ![s] = AfterUpdate(shelf[s], req, now)]
    BY <1>2, <2>1 DEF Update
  <2> QED BY <2>3, <2>4, ReplacingOneEntry
<1>3. ASSUME NEW s \in Sku, NEW req \in EventRequests,
             SimulationApplyEvent(s, req)
      PROVE  StoreInv'
  <2>1. Sealed(shelf[s]) /\ shelf \in [Sku -> Entry \cup {Missing}]
    BY <1>3 DEF SimulationApplyEvent, StoreInv, TypeOK
  <2>2. req \in EventRequest /\ req.event.id < ReconcileBase
    BY StoreAssumption, ForeignIdsAssumption
  <2>3. Sealed(AfterEvent(shelf[s], req))
    BY <1>3, <2>1, <2>2, EventSeals DEF SimulationApplyEvent
  <2>4. shelf' = [shelf EXCEPT ![s] = AfterEvent(shelf[s], req)]
    BY <1>3, <2>1 DEF SimulationApplyEvent
  <2> QED BY <2>3, <2>4, ReplacingOneEntry
<1>4. ASSUME NEW s \in Sku, NEW req \in CorruptionRequests,
             SimulationCorrupt(s, req)
      PROVE  StoreInv'
  <2>1. Sealed(shelf[s]) /\ shelf \in [Sku -> Entry \cup {Missing}]
    BY <1>4 DEF SimulationCorrupt, StoreInv, TypeOK
  <2>2. Sealed(AfterCorruption(shelf[s], req))
    BY <1>4, <2>1, StoreAssumption, CorruptionSeals DEF SimulationCorrupt
  <2>3. shelf' = [shelf EXCEPT ![s] = AfterCorruption(shelf[s], req)]
    BY <1>4, <2>1 DEF SimulationCorrupt
  <2> QED BY <2>2, <2>3, ReplacingOneEntry
<1>5. ASSUME NEW s \in Sku, SimulationReplaceHistory(s)
      PROVE  StoreInv'
  <2>1. Sealed(shelf[s]) /\ shelf \in [Sku -> Entry \cup {Missing}]
    BY <1>5 DEF SimulationReplaceHistory, StoreInv, TypeOK
  <2>2. PICK req \in Replacements(shelf[s]) :
          /\ req \in HistoryRequest
          /\ HistoryAccepted(shelf[s], req)
          /\ shelf' = [shelf EXCEPT ![s] = AfterHistory(shelf[s], req)]
    BY <1>5, <2>1 DEF SimulationReplaceHistory
  <2>3. Sealed(AfterHistory(shelf[s], req))
    BY <2>1, <2>2, HistorySeals
  <2> QED BY <2>2, <2>3, ReplacingOneEntry
<1>6. CASE SimulationReset \/ Restart
  <2>1. shelf' = Catalogue \/ shelf' = Boot
    BY <1>6 DEF SimulationReset, Restart
  <2>2. TypeOK'
    BY <2>1, StoreAssumption DEF TypeOK
  <2>3. \A s \in Sku : Known(s)' => Sealed(shelf'[s])
    BY <2>1, LoadedIsSealed DEF Known
  <2> QED BY <2>2, <2>3 DEF StoreInv
<1> QED BY <1>1, <1>2, <1>3, <1>4, <1>5, <1>6 DEF Next

(* Every reachable entry is sealed. *)
THEOREM StoreInvariant == Spec => []StoreInv
<1> QED BY InitStoreInv, NextStoreInv, PTL DEF Spec

(* The store only ever holds entries of the record model, or nothing. *)
THEOREM TypeCorrect == Spec => []TypeOK
<1>1. StoreInv => TypeOK
  BY DEF StoreInv
<1> QED BY <1>1, StoreInvariant, PTL

(* The record and the history always agree on the last event. *)
THEOREM TipCorrect == Spec => []TipIsLastEvent
<1>1. StoreInv => TipIsLastEvent
  BY DEF StoreInv, Sealed, TipIsLastEvent
<1> QED BY <1>1, StoreInvariant, PTL

(* No history ever holds two events with one id. *)
THEOREM EventIdsAreUnique == Spec => []UniqueEventIds
<1>1. StoreInv => UniqueEventIds
  BY DEF StoreInv, Sealed, UniqueEventIds
<1> QED BY <1>1, StoreInvariant, PTL

(* No id that update() makes exceeds the cursor it counts from. *)
THEOREM IdsStayBounded == Spec => []IdsBoundedByCursor
<1>1. StoreInv => IdsBoundedByCursor
  BY DEF StoreInv, Sealed, Bounded, IdsBoundedByCursor
<1> QED BY <1>1, StoreInvariant, PTL

-----------------------------------------------------------------------------
(* The order of time, which only update() can leave. *)

(* An event that is not stamped before the last one, or is an update's. *)
LEMMA AppendingInOrder ==
  ASSUME NEW h \in Seq(Event), h # <<>>, InOrderButForUpdates(h),
         NEW ev \in Event, ev.id >= ReconcileBase \/ h[Len(h)].at <= ev.at
  PROVE  InOrderButForUpdates(Append(h, ev))
<1> DEFINE g == Append(h, ev)
<1>1. /\ Len(h) \in Nat /\ Len(h) >= 1
      /\ DOMAIN g = 1..(Len(h) + 1) /\ DOMAIN h = 1..Len(h)
      /\ g[Len(h) + 1] = ev /\ \A i \in 1..Len(h) : g[i] = h[i]
  <2>1. Len(h) \in Nat /\ DOMAIN h = 1..Len(h)
    OBVIOUS
  <2>2. Len(g) = Len(h) + 1 /\ g \in Seq(Event)
    OBVIOUS
  <2>3. DOMAIN g = 1..(Len(h) + 1)
    BY <2>2
  <2>4. g[Len(h) + 1] = ev
    OBVIOUS
  <2>5. \A i \in 1..Len(h) : g[i] = h[i]
    OBVIOUS
  <2>6. Len(h) >= 1
    OBVIOUS
  <2> HIDE DEF g
  <2> QED BY <2>1, <2>3, <2>4, <2>5, <2>6
<1>2. ev.at \in Nat /\ \A i \in 1..Len(h) : h[i].at \in Nat
  <2>1. \A i \in 1..Len(h) : h[i] \in Event
    OBVIOUS
  <2> QED BY <2>1 DEF Event
<1> HIDE DEF g
<1> SUFFICES ASSUME NEW i \in DOMAIN g, NEW j \in DOMAIN g,
                    i < j, g[j].at < g[i].at
             PROVE  \E k \in (i + 1)..j : EarlyUpdate(g, k)
  BY DEF InOrderButForUpdates, g
<1>3. ASSUME NEW m \in 1..Len(h), i < m, h[m].at < h[i].at
      PROVE  \E k \in (i + 1)..m : EarlyUpdate(g, k)
  <2>1. PICK k \in (i + 1)..m : EarlyUpdate(h, k)
    BY <1>1, <1>3 DEF InOrderButForUpdates
  <2>2. k \in 1..Len(h) /\ k - 1 \in 1..Len(h)
    BY <1>1, <1>3, <2>1
  <2>3. EarlyUpdate(g, k)
    BY <1>1, <2>1, <2>2 DEF EarlyUpdate
  <2> QED BY <2>1, <2>3
<1>4. CASE j \in 1..Len(h)
  BY <1>1, <1>3, <1>4
<1>5. CASE j = Len(h) + 1
  <2>1. i \in 1..Len(h) /\ g[i] = h[i] /\ g[j] = ev
    BY <1>1, <1>5
  <2>2. CASE ev.at < h[Len(h)].at
    <3>1. g[j - 1] = h[Len(h)] /\ ev.id >= ReconcileBase
      BY <1>1, <1>2, <1>5, <2>2
    <3>2. EarlyUpdate(g, j)
      BY <2>1, <2>2, <3>1 DEF EarlyUpdate
    <3> QED BY <1>1, <1>5, <2>1, <3>2
  <2>3. CASE ~(ev.at < h[Len(h)].at)
    <3>1. i < Len(h) /\ h[Len(h)].at < h[i].at
      BY <1>1, <1>2, <2>1, <2>3
    <3>2. \E k \in (i + 1)..Len(h) : EarlyUpdate(g, k)
      BY <1>1, <1>3, <3>1
    <3> QED BY <1>1, <1>5, <2>1, <3>2
  <2> QED BY <2>2, <2>3
<1> QED BY <1>1, <1>4, <1>5

(* A history that is chronological is in order. *)
LEMMA ChronologicalIsInOrder ==
  ASSUME NEW h \in Seq(Event), Chronological(h)
  PROVE  InOrderButForUpdates(h)
<1>1. \A i \in DOMAIN h : h[i].at \in Nat
  <2>1. \A i \in DOMAIN h : h[i] \in Event
    OBVIOUS
  <2> QED BY <2>1 DEF Event
<1>2. ASSUME NEW i \in DOMAIN h, NEW j \in DOMAIN h, i < j
      PROVE  ~(h[j].at < h[i].at)
  <2>1. h[i].at <= h[j].at
    BY <1>2 DEF Chronological
  <2> QED BY <1>1, <2>1
<1> QED BY <1>2 DEF InOrderButForUpdates

(* Each operation keeps one entry's history in order. *)
LEMMA OperationsKeepOrder ==
  ASSUME NEW e, Sealed(e), InOrderButForUpdates(e.hist)
  PROVE  /\ \A req \in UpdateRequest, now \in Nat :
              InOrderButForUpdates(AfterUpdate(e, req, now).hist)
         /\ \A req \in EventRequest : EventAccepted(e, req) =>
              InOrderButForUpdates(AfterEvent(e, req).hist)
         /\ \A req \in CorruptionRequest :
              InOrderButForUpdates(AfterCorruption(e, req).hist)
         /\ \A req \in HistoryRequest :
              InOrderButForUpdates(AfterHistory(e, req).hist)
<1>1. /\ e.rec \in Record /\ e.hist \in Seq(Event) /\ e.hist # <<>>
      /\ e.hist[Len(e.hist)] = e.rec.last
  BY DEF Sealed, Entry
<1>2. ASSUME NEW req \in UpdateRequest, NEW now \in Nat
      PROVE  InOrderButForUpdates(AfterUpdate(e, req, now).hist)
  <2> DEFINE ev == ReconcileEvent(e.rec, req, now)
  <2>1. ev \in Event /\ ev.id = ReconcileBase + e.rec.cursor + 1
    BY ReconcileEventType DEF ReconcileEvent, Sealed
  <2>2. ev.id >= ReconcileBase
    BY <1>1, <2>1, WarehouseAssumption DEF Record
  <2>3. AfterUpdate(e, req, now).hist = Append(e.hist, ev)
    BY DEF AfterUpdate
  <2> QED BY <1>1, <2>1, <2>2, <2>3, AppendingInOrder
<1>3. ASSUME NEW req \in EventRequest, EventAccepted(e, req)
      PROVE  InOrderButForUpdates(AfterEvent(e, req).hist)
  <2>1. req.event \in Event /\ e.hist[Len(e.hist)].at <= req.event.at
    BY <1>1, <1>3 DEF EventRequest, EventAccepted, Event, Record
  <2>2. AfterEvent(e, req).hist = Append(e.hist, req.event)
    BY DEF AfterEvent
  <2> QED BY <1>1, <2>1, <2>2, AppendingInOrder
<1>4. \A req \in CorruptionRequest : AfterCorruption(e, req).hist = e.hist
  BY <1>1 DEF AfterCorruption, Sealed, Entry
<1>5. \A req \in HistoryRequest :
        /\ AfterHistory(e, req).hist = req.events
        /\ req.events \in Seq(Event) /\ Chronological(req.events)
  BY DEF AfterHistory, HistoryRequest, Sealed, Entry
<1>6. \A req \in HistoryRequest :
        InOrderButForUpdates(AfterHistory(e, req).hist)
  BY <1>5, ChronologicalIsInOrder
<1> QED BY <1>2, <1>3, <1>4, <1>6

(* What the loader leaves is in order. *)
LEMMA LoadedInOrder ==
  ASSUME NEW s \in Sku, NEW e \in {Catalogue[s], Boot[s]} \ {Missing}
  PROVE  InOrderButForUpdates(e.hist)
<1>1. e.hist \in Seq(Event) /\ Chronological(e.hist)
  BY StoreAssumption, LoaderAssumption DEF Entry
<1> QED BY <1>1, ChronologicalIsInOrder

LEMMA NextKeepsOrder ==
  StoreInv /\ OnlyUpdatesBreakTheOrder /\ [Next]_vars => OnlyUpdatesBreakTheOrder'
<1> SUFFICES ASSUME StoreInv, OnlyUpdatesBreakTheOrder, [Next]_vars
             PROVE  OnlyUpdatesBreakTheOrder'
  OBVIOUS
<1>1. shelf \in [Sku -> Entry \cup {Missing}]
  BY DEF StoreInv, TypeOK
<1>2. \A s \in Sku : Known(s) => Sealed(shelf[s]) /\ InOrderButForUpdates(shelf[s].hist)
  BY DEF StoreInv, OnlyUpdatesBreakTheOrder
<1>3. ASSUME NEW s \in Sku, NEW f, InOrderButForUpdates(f.hist),
             shelf' = [shelf EXCEPT ![s] = f]
      PROVE  OnlyUpdatesBreakTheOrder'
  BY <1>1, <1>2, <1>3 DEF OnlyUpdatesBreakTheOrder, Known
<1>4. CASE UNCHANGED vars
  BY <1>4 DEF OnlyUpdatesBreakTheOrder, Known, vars
<1>5. ASSUME NEW s \in Sku, NEW req \in UpdateRequests, NEW now \in Times,
             Update(s, req, now)
      PROVE  OnlyUpdatesBreakTheOrder'
  <2>1. req \in UpdateRequest /\ now \in Nat
    BY StoreAssumption
  <2>2. InOrderButForUpdates(AfterUpdate(shelf[s], req, now).hist)
    BY <1>2, <1>5, <2>1, OperationsKeepOrder DEF Update
  <2>3. shelf' = [shelf EXCEPT ![s] = AfterUpdate(shelf[s], req, now)]
    BY <1>5 DEF Update
  <2> QED BY <1>3, <2>2, <2>3
<1>6. ASSUME NEW s \in Sku, NEW req \in EventRequests,
             SimulationApplyEvent(s, req)
      PROVE  OnlyUpdatesBreakTheOrder'
  <2>1. InOrderButForUpdates(AfterEvent(shelf[s], req).hist)
    BY <1>2, <1>6, StoreAssumption, OperationsKeepOrder
    DEF SimulationApplyEvent
  <2>2. shelf' = [shelf EXCEPT ![s] = AfterEvent(shelf[s], req)]
    BY <1>6 DEF SimulationApplyEvent
  <2> QED BY <1>3, <2>1, <2>2
<1>7. ASSUME NEW s \in Sku, NEW req \in CorruptionRequests,
             SimulationCorrupt(s, req)
      PROVE  OnlyUpdatesBreakTheOrder'
  <2>1. InOrderButForUpdates(AfterCorruption(shelf[s], req).hist)
    BY <1>2, <1>7, StoreAssumption, OperationsKeepOrder
    DEF SimulationCorrupt
  <2>2. shelf' = [shelf EXCEPT ![s] = AfterCorruption(shelf[s], req)]
    BY <1>7 DEF SimulationCorrupt
  <2> QED BY <1>3, <2>1, <2>2
<1>8. ASSUME NEW s \in Sku, SimulationReplaceHistory(s)
      PROVE  OnlyUpdatesBreakTheOrder'
  <2>1. PICK req \in HistoryRequest :
          shelf' = [shelf EXCEPT ![s] = AfterHistory(shelf[s], req)]
    BY <1>8 DEF SimulationReplaceHistory
  <2>2. InOrderButForUpdates(AfterHistory(shelf[s], req).hist)
    BY <1>2, <1>8, OperationsKeepOrder DEF SimulationReplaceHistory
  <2> QED BY <1>3, <2>1, <2>2
<1>9. CASE SimulationReset \/ Restart
  <2>1. shelf' = Catalogue \/ shelf' = Boot
    BY <1>9 DEF SimulationReset, Restart
  <2>2. \A s \in Sku : \A e \in {Catalogue[s], Boot[s]} \ {Missing} :
          InOrderButForUpdates(e.hist)
    BY LoadedInOrder
  <2> QED BY <2>1, <2>2 DEF OnlyUpdatesBreakTheOrder, Known
<1> QED BY <1>4, <1>5, <1>6, <1>7, <1>8, <1>9 DEF Next

(* Two events of a history are never against the order of time but across *)
(* an update() that was stamped before the event it follows, whatever has  *)
(* been replaced, corrupted or loaded before (store.py:147, 230).          *)
THEOREM OrderIsKept == Spec => []OnlyUpdatesBreakTheOrder
<1>1. Init => OnlyUpdatesBreakTheOrder
  BY LoadedInOrder DEF Init, OnlyUpdatesBreakTheOrder, Known
<1> QED BY <1>1, NextKeepsOrder, StoreInvariant, PTL DEF Spec

-----------------------------------------------------------------------------
(* Versions, cursors and history move together. *)

LEMMA UpdateIsLogged ==
  ASSUME NEW e, Sealed(e), NEW req \in UpdateRequest, NEW now \in Nat, NEW w,
         UpdateOutcome(e.rec, req, w) = "updated"
  PROVE  RevisionLogged(e, AfterUpdate(e, req, now))
<1> DEFINE ev == ReconcileEvent(e.rec, req, now)
           f == AfterUpdate(e, req, now)
<1>1. e.rec \in Record
  BY DEF Sealed, Entry
<1>2. f.hist = Append(e.hist, ev) /\ f.rec.last = ev
      /\ f.rec.cursor = e.rec.cursor + 1 /\ f.rec.version = req.target
  BY <1>1 DEF AfterUpdate, Record
<1>3. req.target > e.rec.version
  BY <1>1 DEF UpdateOutcome, Record, UpdateRequest
<1>4. ev.id \notin EventIds(e.hist)
  BY ReconcileIdIsNew
<1> HIDE DEF ev, f
<1> QED BY <1>2, <1>3, <1>4 DEF RevisionLogged, f

LEMMA EventIsLogged ==
  ASSUME NEW e, Sealed(e), NEW req \in EventRequest, EventAccepted(e, req)
  PROVE  RevisionLogged(e, AfterEvent(e, req))
<1> DEFINE f == AfterEvent(e, req)
<1>1. e.rec \in Record
  BY DEF Sealed, Entry
<1>2. f.hist = Append(e.hist, req.event) /\ f.rec.last = req.event
      /\ f.rec.cursor = e.rec.cursor + 1 /\ f.rec.version = e.rec.version + 1
  BY <1>1 DEF AfterEvent, Record
<1>3. e.rec.version + 1 > e.rec.version
  BY <1>1 DEF Record
<1>4. req.event.id \notin EventIds(e.hist)
  BY DEF EventAccepted
<1> HIDE DEF f
<1> QED BY <1>2, <1>3, <1>4 DEF RevisionLogged, f

(* The same revision: nothing of it but the stock or the history changes. *)
LEMMA SameRevisionIsLogged ==
  ASSUME NEW e, NEW f, f.rec.version = e.rec.version,
         f.rec.cursor = e.rec.cursor, f.rec.last = e.rec.last
  PROVE  RevisionLogged(e, f)
  BY DEF RevisionLogged

LEMMA OthersAreLogged ==
  ASSUME StoreInv, NEW s \in Sku, NEW f, RevisionLogged(shelf[s], f),
         shelf' = [shelf EXCEPT ![s] = f], NEW t \in Sku
  PROVE  RevisionLogged(shelf[t], shelf'[t])
<1>1. CASE t = s
  BY <1>1 DEF StoreInv, TypeOK
<1>2. CASE t # s
  <2>1. shelf'[t] = shelf[t]
    BY <1>2 DEF StoreInv, TypeOK
  <2> QED BY <2>1, SameRevisionIsLogged
<1> QED BY <1>1, <1>2

Logged ==
  \/ shelf' \in {Catalogue, Boot}
  \/ \A s \in Sku : Known(s) => RevisionLogged(shelf[s], shelf'[s])

LEMMA StepIsLogged == StoreInv /\ [Next]_vars => [Logged]_vars
<1> SUFFICES ASSUME StoreInv, Next PROVE Logged
  OBVIOUS
<1>1. ASSUME NEW s \in Sku, NEW req \in UpdateRequests, NEW now \in Times,
             Update(s, req, now)
      PROVE  Logged
  <2>1. Sealed(shelf[s])
    BY <1>1 DEF Update, StoreInv
  <2>2. req \in UpdateRequest /\ now \in Nat
    BY StoreAssumption
  <2>3. RevisionLogged(shelf[s], AfterUpdate(shelf[s], req, now))
    BY <1>1, <2>1, <2>2, UpdateIsLogged DEF Update
  <2>4. shelf' = [shelf EXCEPT ![s] = AfterUpdate(shelf[s], req, now)]
    BY <1>1 DEF Update, StoreInv, TypeOK
  <2> QED BY <2>3, <2>4, OthersAreLogged DEF Logged
<1>2. ASSUME NEW s \in Sku, NEW req \in EventRequests,
             SimulationApplyEvent(s, req)
      PROVE  Logged
  <2>1. Sealed(shelf[s])
    BY <1>2 DEF SimulationApplyEvent, StoreInv
  <2>2. RevisionLogged(shelf[s], AfterEvent(shelf[s], req))
    BY <1>2, <2>1, StoreAssumption, EventIsLogged DEF SimulationApplyEvent
  <2>3. shelf' = [shelf EXCEPT ![s] = AfterEvent(shelf[s], req)]
    BY <1>2 DEF SimulationApplyEvent, StoreInv, TypeOK
  <2> QED BY <2>2, <2>3, OthersAreLogged DEF Logged
<1>3. ASSUME NEW s \in Sku, NEW req \in CorruptionRequests,
             SimulationCorrupt(s, req)
      PROVE  Logged
  <2>1. shelf[s] \in Entry /\ shelf[s].rec \in Record
    BY <1>3 DEF SimulationCorrupt, StoreInv, Sealed, Entry
  <2>2. RevisionLogged(shelf[s], AfterCorruption(shelf[s], req))
    BY <2>1, SameRevisionIsLogged DEF AfterCorruption, Entry, Record
  <2>3. shelf' = [shelf EXCEPT ![s] = AfterCorruption(shelf[s], req)]
    BY <1>3 DEF SimulationCorrupt, StoreInv, TypeOK
  <2> QED BY <2>2, <2>3, OthersAreLogged DEF Logged
<1>4. ASSUME NEW s \in Sku, SimulationReplaceHistory(s)
      PROVE  Logged
  <2>1. shelf[s] \in Entry
    BY <1>4 DEF SimulationReplaceHistory, StoreInv, Sealed
  <2>2. PICK req : shelf' = [shelf EXCEPT ![s] = AfterHistory(shelf[s], req)]
    BY <1>4 DEF SimulationReplaceHistory, StoreInv, TypeOK
  <2>3. RevisionLogged(shelf[s], AfterHistory(shelf[s], req))
    BY <2>1, SameRevisionIsLogged DEF AfterHistory, Entry
  <2> QED BY <2>2, <2>3, OthersAreLogged DEF Logged
<1>5. CASE SimulationReset \/ Restart
  BY <1>5 DEF SimulationReset, Restart, Logged
<1> QED BY <1>1, <1>2, <1>3, <1>4, <1>5 DEF Next

(* Between two loads, a higher version and exactly one new event come      *)
(* together, whatever the requests and their order.                        *)
THEOREM EveryRevisionIsLogged == Spec => RevisionsAreLogged
<1>1. RevisionsAreLogged <=> [][Logged]_vars
  BY DEF RevisionsAreLogged, Logged
<1>2. [][StoreInv /\ [Next]_vars]_vars => [][Logged]_vars
  BY StepIsLogged, PTL
<1> QED BY <1>1, <1>2, StoreInvariant, PTL DEF Spec

-----------------------------------------------------------------------------
(* The ledger *)

LEMMA PostedIsInt ==
  ASSUME NEW h \in Seq(Event)
  PROVE  PostedTotal(h) \in Int
<1> DEFINE f == [i \in DOMAIN h |-> h[i].delta]
<1>1. DOMAIN f = 1..Len(h) /\ Len(h) \in Nat
  OBVIOUS
<1>2. IsFiniteSet(DOMAIN f)
  BY <1>1, FS_Interval
<1>3. \A i \in DOMAIN f : f[i] \in Int
  <2> TAKE i \in DOMAIN f
  <2>1. h[i] \in Event
    OBVIOUS
  <2> QED BY <2>1 DEF Event
<1> HIDE DEF f
<1>4. SumFunctionOnSet(f, DOMAIN f) \in Int
  BY <1>2, <1>3, SumIsInt
<1> QED BY <1>4 DEF PostedTotal, SumFunction, f

(* A new event posts its delta. *)
LEMMA PostedWithOneMore ==
  ASSUME NEW h \in Seq(Event), NEW ev \in Event
  PROVE  PostedTotal(Append(h, ev)) = PostedTotal(h) + ev.delta
<1> DEFINE n == Len(h)
           k == Append(h, ev)
           f == [i \in DOMAIN h |-> h[i].delta]
           g == [i \in DOMAIN k |-> k[i].delta]
<1>1. n \in Nat /\ DOMAIN h = 1..n /\ DOMAIN k = 1..(n + 1) /\ k[n + 1] = ev
  OBVIOUS
<1>2. DOMAIN f = 1..n /\ DOMAIN g = 1..(n + 1)
  BY <1>1
<1>3. \A i \in 1..n : k[i] = h[i]
  OBVIOUS
<1>4. \A i \in 1..n : g[i] = f[i]
  <2> TAKE i \in 1..n
  <2>1. i \in 1..n /\ i \in 1..(n + 1)
    BY <1>1
  <2> QED BY <1>1, <1>3, <2>1
<1>5. g[n + 1] = ev.delta
  BY <1>1
<1>6. \A i \in 1..(n + 1) : g[i] \in Int
  <2> TAKE i \in 1..(n + 1)
  <2>1. k \in Seq(Event) /\ k[i] \in Event
    BY <1>1
  <2>2. k[i].delta \in Int
    BY <2>1 DEF Event
  <2> QED BY <1>1, <2>2
<1> HIDE DEF f, g, n
<1>7. SumFunctionOnSet(g, 1..(n + 1)) = SumFunctionOnSet(f, 1..n) + g[n + 1]
  BY <1>1, <1>4, <1>6, SumOfAppended
<1> QED BY <1>2, <1>5, <1>7 DEF PostedTotal, SumFunction, f, g

LEMMA AccountOfEntry ==
  ASSUME NEW e \in Entry
  PROVE  /\ Account(e) = [stock |-> e.rec.inventory.on_hand,
                          posted |-> PostedTotal(e.hist),
                          revision |-> e.rec.version]
         /\ Account(e) \in AccountState /\ Account(e) # Missing
<1>1. e # Missing
  BY WarehouseAssumption
<1>2. /\ e.rec.inventory.on_hand \in Nat /\ e.rec.version \in Nat
      /\ e.hist \in Seq(Event)
  BY DEF Entry, Record, Inventory
<1>3. PostedTotal(e.hist) \in Int
  BY <1>2, PostedIsInt
<1>4. Account(e) = [stock |-> e.rec.inventory.on_hand,
                    posted |-> PostedTotal(e.hist),
                    revision |-> e.rec.version]
  BY <1>1 DEF Account
<1>5. Account(e) \in AccountState
  BY <1>2, <1>3, <1>4 DEF AccountState
<1> QED BY <1>4, <1>5, MissingIsNoAccount

(* The page of one SKU is all that a step which replaces its entry changes. *)
LEMMA OnePageChanges ==
  ASSUME TypeOK, NEW s \in Sku, NEW f, shelf' = [shelf EXCEPT ![s] = f]
  PROVE  /\ Book(shelf)[s] = Account(shelf[s])
         /\ Book(shelf)'[s] = Account(f)
         /\ Ledger!OthersUnchanged(s)
<1>1. shelf'[s] = f /\ \A t \in Sku \ {s} : shelf'[t] = shelf[t]
  BY DEF TypeOK
<1>2. \A t \in Sku : /\ Book(shelf)[t] = Account(shelf[t])
                     /\ Book(shelf)'[t] = Account(shelf'[t])
  BY DEF Book
<1>3. \A t \in Sku \ {s} : Book(shelf)'[t] = Book(shelf)[t]
  BY <1>1, <1>2
<1> QED BY <1>1, <1>2, <1>3 DEF Ledger!OthersUnchanged

(* An entry that moved by an appended event has been posted to. *)
LEMMA AppendedIsPosted ==
  ASSUME TypeOK, NEW s \in Sku, shelf[s] \in Entry, NEW f \in Entry,
         NEW ev \in Event, f.hist = Append(shelf[s].hist, ev),
         f.rec.inventory.on_hand = shelf[s].rec.inventory.on_hand + ev.delta,
         f.rec.version > shelf[s].rec.version,
         shelf' = [shelf EXCEPT ![s] = f]
  PROVE  Ledger!Post(s)
<1> DEFINE e == shelf[s]
<1>1. /\ Book(shelf)[s] = Account(e) /\ Book(shelf)'[s] = Account(f)
      /\ Ledger!OthersUnchanged(s)
  BY OnePageChanges
<1>2. /\ Account(e) = [stock |-> e.rec.inventory.on_hand,
                       posted |-> PostedTotal(e.hist),
                       revision |-> e.rec.version]
      /\ Account(e) # Missing
  BY AccountOfEntry
<1>3. /\ Account(f) = [stock |-> f.rec.inventory.on_hand,
                       posted |-> PostedTotal(f.hist),
                       revision |-> f.rec.version]
      /\ Account(f) # Missing
  BY AccountOfEntry
<1>4. e.hist \in Seq(Event) /\ e.rec.inventory.on_hand \in Nat /\ ev.delta \in Int
  BY DEF Entry, Record, Inventory, Event
<1>5. PostedTotal(f.hist) = PostedTotal(e.hist) + ev.delta
  BY <1>4, PostedWithOneMore
<1>6. PostedTotal(e.hist) \in Int
  BY <1>4, PostedIsInt
<1>7. Ledger!StaysListed(s)
  BY <1>1, <1>2, <1>3 DEF Ledger!StaysListed
<1>8. Account(f).stock - Account(e).stock = Account(f).posted - Account(e).posted
  <2> DEFINE p == PostedTotal(e.hist)
             b == e.rec.inventory.on_hand
             d == ev.delta
  <2>1. /\ Account(f).stock = b + d /\ Account(e).stock = b
        /\ Account(f).posted = p + d /\ Account(e).posted = p
    BY <1>2, <1>3, <1>5
  <2>2. p \in Int /\ b \in Int /\ d \in Int
    BY <1>4, <1>6
  <2> HIDE DEF p, b, d
  <2> QED BY <2>1, <2>2
<1>9. Account(f).revision > Account(e).revision
  BY <1>2, <1>3
<1> QED BY <1>1, <1>7, <1>8, <1>9 DEF Ledger!Post

(* Every step of the store is a step of the ledger. *)
LEMMA StepIsBooked == StoreInv /\ [Next]_vars => [Ledger!Next]_(Ledger!vars)
<1> SUFFICES ASSUME StoreInv, [Next]_vars
             PROVE  [Ledger!Next]_(Ledger!vars)
  OBVIOUS
<1>1. TypeOK /\ \A s \in Sku : Known(s) => Sealed(shelf[s]) /\ shelf[s] \in Entry
  BY DEF StoreInv, Sealed
<1>2. CASE UNCHANGED vars
  BY <1>2 DEF vars, Ledger!vars, Book
<1>3. ASSUME NEW s \in Sku, NEW req \in UpdateRequests, NEW now \in Times,
             Update(s, req, now)
      PROVE  Ledger!Post(s)
  <2> DEFINE e == shelf[s]
             ev == ReconcileEvent(e.rec, req, now)
             f == AfterUpdate(e, req, now)
  <2>1. /\ Sealed(e) /\ e \in Entry
        /\ UpdateOutcome(e.rec, req, Writable) = "updated"
        /\ shelf' = [shelf EXCEPT ![s] = f]
    BY <1>1, <1>3 DEF Update
  <2>2. req \in UpdateRequest /\ now \in Nat
    BY StoreAssumption
  <2>3. ev \in Event /\ Sealed(f)
    BY <2>1, <2>2, ReconcileEventType, UpdateSeals
  <2>4. f \in Entry
    BY <2>3 DEF Sealed
  <2>5. /\ f.hist = Append(e.hist, ev)
        /\ f.rec.inventory = req.inventory /\ f.rec.version = req.target
    BY <2>1 DEF AfterUpdate, Entry, Record
  <2>6. req.target > e.rec.version
    BY <2>1, <2>2 DEF UpdateOutcome, UpdateRequest, Entry, Record
  <2>7. req.inventory.on_hand = e.rec.inventory.on_hand + ev.delta
    BY <2>1, <2>2 DEF ReconcileEvent, UpdateRequest, Entry, Record, Inventory
  <2> HIDE DEF ev, f
  <2> QED BY <1>1, <2>1, <2>3, <2>4, <2>5, <2>6, <2>7, AppendedIsPosted
<1>4. ASSUME NEW s \in Sku, NEW req \in EventRequests,
             SimulationApplyEvent(s, req)
      PROVE  Ledger!Post(s)
  <2> DEFINE e == shelf[s]
             ev == req.event
             f == AfterEvent(e, req)
  <2>1. /\ Sealed(e) /\ e \in Entry /\ EventAccepted(e, req)
        /\ shelf' = [shelf EXCEPT ![s] = f]
    BY <1>1, <1>4 DEF SimulationApplyEvent
  <2>2. req \in EventRequest /\ req.event.id < ReconcileBase
    BY StoreAssumption, ForeignIdsAssumption
  <2>3. ev \in Event /\ Sealed(f)
    BY <2>1, <2>2, EventSeals DEF EventRequest
  <2>4. f \in Entry
    BY <2>3 DEF Sealed
  <2>5. /\ f.hist = Append(e.hist, ev)
        /\ f.rec.inventory.on_hand = e.rec.inventory.on_hand + ev.delta
        /\ f.rec.version = e.rec.version + 1
    BY <2>1 DEF AfterEvent, Entry, Record, Inventory
  <2>6. f.rec.version > e.rec.version
    BY <2>1, <2>5 DEF Entry, Record
  <2> HIDE DEF ev, f
  <2> QED BY <1>1, <2>1, <2>3, <2>4, <2>5, <2>6, AppendedIsPosted
<1>5. ASSUME NEW s \in Sku, NEW req \in CorruptionRequests,
             SimulationCorrupt(s, req)
      PROVE  Ledger!Miscount(s)
  <2> DEFINE e == shelf[s]
             f == AfterCorruption(e, req)
  <2>1. /\ Sealed(e) /\ e \in Entry /\ CorruptionAccepted(e, req)
        /\ shelf' = [shelf EXCEPT ![s] = f]
    BY <1>1, <1>5 DEF SimulationCorrupt
  <2>2. f \in Entry
    BY <2>1, StoreAssumption, CorruptionSeals DEF Sealed
  <2>3. /\ f.hist = e.hist /\ f.rec.version = e.rec.version
        /\ f.rec.inventory.on_hand \in Nat
    <3>1. f.hist = e.hist /\ f.rec.version = e.rec.version
      BY <2>1 DEF AfterCorruption, Entry, Record
    <3> HIDE DEF f
    <3> QED BY <2>2, <3>1 DEF Entry, Record, Inventory
  <2> HIDE DEF f
  <2>4. /\ Book(shelf)[s] = Account(e) /\ Book(shelf)'[s] = Account(f)
        /\ Ledger!OthersUnchanged(s)
    BY <1>1, <2>1, OnePageChanges
  <2>5. /\ Account(e) = [stock |-> e.rec.inventory.on_hand,
                         posted |-> PostedTotal(e.hist),
                         revision |-> e.rec.version]
        /\ Account(e) # Missing
    BY <2>1, AccountOfEntry
  <2>6. /\ Account(f) = [stock |-> f.rec.inventory.on_hand,
                         posted |-> PostedTotal(f.hist),
                         revision |-> f.rec.version]
        /\ Account(f) # Missing
    BY <2>2, AccountOfEntry
  <2>7. Account(f) = [Account(e) EXCEPT !.stock = Account(f).stock]
    BY <2>3, <2>5, <2>6
  <2>8. Account(f).stock >= 0
    BY <2>3, <2>6
  <2> QED BY <2>4, <2>5, <2>6, <2>7, <2>8 DEF Ledger!Miscount, Ledger!StaysListed
<1>6. ASSUME NEW s \in Sku, SimulationReplaceHistory(s)
      PROVE  Ledger!Redact(s)
  <2> DEFINE e == shelf[s]
  <2>1. Sealed(e) /\ e \in Entry
    BY <1>1, <1>6 DEF SimulationReplaceHistory
  <2>2. PICK req \in Replacements(e) :
          /\ req \in HistoryRequest /\ HistoryAccepted(e, req)
          /\ shelf' = [shelf EXCEPT ![s] = AfterHistory(e, req)]
    BY <1>6, <2>1 DEF SimulationReplaceHistory
  <2> DEFINE f == AfterHistory(e, req)
  <2>3. f \in Entry /\ f.rec = e.rec
    BY <2>1, <2>2, HistorySeals DEF Sealed, AfterHistory, Entry
  <2> HIDE DEF f
  <2>4. /\ Book(shelf)[s] = Account(e) /\ Book(shelf)'[s] = Account(f)
        /\ Ledger!OthersUnchanged(s)
    BY <1>1, <2>2, OnePageChanges DEF f
  <2>5. /\ Account(e) = [stock |-> e.rec.inventory.on_hand,
                         posted |-> PostedTotal(e.hist),
                         revision |-> e.rec.version]
        /\ Account(e) # Missing
    BY <2>1, AccountOfEntry
  <2>6. /\ Account(f) = [stock |-> f.rec.inventory.on_hand,
                         posted |-> PostedTotal(f.hist),
                         revision |-> f.rec.version]
        /\ Account(f) # Missing
    BY <2>3, AccountOfEntry
  <2>7. Account(f) = [Account(e) EXCEPT !.posted = Account(f).posted]
    BY <2>3, <2>5, <2>6
  <2> QED BY <2>4, <2>5, <2>6, <2>7 DEF Ledger!Redact, Ledger!StaysListed
<1>7. ASSUME SimulationReset \/ Restart
      PROVE  Ledger!Reopen
  BY <1>7 DEF SimulationReset, Restart, Ledger!Reopen, Book
<1> QED BY <1>2, <1>3, <1>4, <1>5, <1>6, <1>7 DEF Next, Ledger!Next

(* Every run of the store is a run of the event-sourced ledger: its        *)
(* methods post exactly what they change, and nothing but a miscount or a  *)
(* redaction opens or closes a gap (store.py:153-155, 256-272).            *)
THEOREM LedgerIsImplemented == Spec => ImplementsLedger
<1>1. Init => Ledger!Init
  BY DEF Init, Ledger!Init, Book
<1>2. StoreInv /\ [Next]_vars => [Ledger!Next]_(Ledger!vars)
  BY StepIsBooked
<1> QED BY <1>1, <1>2, StoreInvariant, PTL DEF Spec, ImplementsLedger, Ledger!Spec

=============================================================================
