------------------------- MODULE KpiCollectorProofs --------------------------
(***************************************************************************)
(* Proofs about the KPI collector, for any number of requests, subdomains  *)
(* and ticks, and any capacity of the channel.                             *)
(*                                                                         *)
(* An orderly shutdown panics no request: the channel is closed only by a  *)
(* collector that main has cancelled (ClosedByMain), main cancels without  *)
(* force only when nobody is sending, and nobody starts to send after that *)
(* (DrainedUnlessForced).  That posts are numbered within bounds takes     *)
(* PostToSpare.                                                            *)
(*                                                                         *)
(* The books add up (Books): every action moves a report from one place to *)
(* the next.  An export finds its post unused, since posts are started in  *)
(* turn (FreshPosts), and what has been handed over can be counted, since  *)
(* requests are made one by one (SentFinite): that there are finitely many *)
(* of them is assumed nowhere.  What the posts carry is a fold over a set, *)
(* whose elements are chosen in an order that the definition leaves open;  *)
(* the lemmas about Sums show that there is such a fold and that the order *)
(* makes no difference.                                                    *)
(***************************************************************************)
EXTENDS KpiCollector, FiniteSetTheorems, WellFoundedInduction, TLAPS

ClosedByMain == closed => main \in {"cancelled", "exited"}

DrainedUnlessForced ==
    main \in {"cancelled", "exited"} /\ ~forced =>
        \A h \in Handlers : handler[h] # "sending"

PostToSpare == collector = "running" => exports <= MaxExports

IInv ==
    TypeOK /\ PostToSpare /\ ClosedByMain /\ DrainedUnlessForced /\ PanicOnlyWhenForced

-----------------------------------------------------------------------------
(* Sums of reports are sums of reports.                                    *)
LEMMA SumTypes ==
    /\ Nothing \in [Subdomains -> Nat]
    /\ \A m, n \in [Subdomains -> Nat] : Plus(m, n) \in [Subdomains -> Nat]
BY DEF Nothing, Plus

(* The initial state is well typed, and everybody is yet to start.         *)
LEMMA InitIInv == Init => IInv
<1> SUFFICES ASSUME Init PROVE IInv
  OBVIOUS
<1>1. <<>> \in Seq(Subdomains) /\ Len(<<>>) = 0
  OBVIOUS
<1>2. ch \in Seq(Subdomains) /\ Len(ch) <= Capacity
  BY <1>1, CollectorAssumption DEF Init
<1>3. 0 \in 0 .. MaxExports + 1 /\ 0 <= MaxExports
  BY CollectorAssumption
<1>4. TypeOK
  BY <1>2, <1>3, SumTypes DEF Init, TypeOK
<1>5. PostToSpare /\ ClosedByMain /\ DrainedUnlessForced /\ PanicOnlyWhenForced
  BY <1>3 DEF Init, PostToSpare, ClosedByMain, DrainedUnlessForced, PanicOnlyWhenForced
<1> QED
  BY <1>4, <1>5 DEF IInv

(* Handing the sums to a post keeps the types.                             *)
LEMMA ExportType ==
    ASSUME TypeOK, exports <= MaxExports, ExportMetrics
    PROVE  /\ exports' \in 0 .. MaxExports + 1
           /\ post' \in [Posts -> {"none", "sending", "stillborn", "over"}]
           /\ data' \in [Posts -> [Subdomains -> Nat]]
           /\ kpiMap' \in [Subdomains -> Nat]
<1>1. exports + 1 \in Posts
  BY CollectorAssumption DEF TypeOK, Posts
<1> QED
  BY <1>1, SumTypes, CollectorAssumption DEF TypeOK, ExportMetrics

(* Every step keeps the types.                                             *)
LEMMA StepType ==
    ASSUME TypeOK, PostToSpare, [Next]_vars
    PROVE  TypeOK'
<1>1. CASE UNCHANGED vars
  BY <1>1 DEF TypeOK, vars, channelVars, postVars, mainVars
<1>2. ASSUME NEW h \in Handlers, StartReport(h) PROVE TypeOK'
  BY <1>2 DEF TypeOK, StartReport, channelVars, postVars, mainVars
<1>3. ASSUME NEW h \in Handlers, AdsHandled(h) PROVE TypeOK'
  <2>1. ch' \in Seq(Subdomains) /\ Len(ch') <= Capacity
    <3>1. CASE UNCHANGED ch
      BY <3>1 DEF TypeOK
    <3>2. CASE HasRoom /\ ch' = Append(ch, SubdomainOf[h])
      BY <3>2, CollectorAssumption DEF TypeOK, HasRoom
    <3> QED
      BY <1>3, <3>1, <3>2 DEF AdsHandled
  <2> QED
    BY <1>3, <2>1 DEF TypeOK, AdsHandled, postVars, mainVars
<1>4. CASE RecordMetrics
  <2>1. ch' \in Seq(Subdomains) /\ Len(ch') <= Capacity /\ Head(ch) \in Subdomains
    BY <1>4, CollectorAssumption DEF TypeOK, RecordMetrics
  <2>2. kpiMap' \in [Subdomains -> Nat]
    BY <1>4, <2>1 DEF TypeOK, RecordMetrics
  <2> QED
    BY <1>4, <2>1, <2>2 DEF TypeOK, RecordMetrics, postVars, mainVars
<1>5. CASE Tick
  BY <1>5, ExportType DEF TypeOK, PostToSpare, Tick, channelVars, mainVars
<1>6. CASE StopCollector
  BY <1>6, ExportType DEF TypeOK, PostToSpare, StopCollector, CloseChannel, mainVars
<1>7. ASSUME NEW i \in Posts, PostMetrics(i) PROVE TypeOK'
  <2>1. /\ received' \in [Subdomains -> Nat]
        /\ lost' \in [Subdomains -> Nat]
    BY <1>7, SumTypes DEF TypeOK, PostMetrics
  <2> QED
    BY <1>7, <2>1 DEF TypeOK, PostMetrics, channelVars, mainVars
<1>8. CASE Signal \/ CancelKpi \/ Exit
  BY <1>8 DEF TypeOK, Signal, CancelKpi, Exit, channelVars, postVars
<1> QED
  BY <1>1, <1>2, <1>3, <1>4, <1>5, <1>6, <1>7, <1>8 DEF Next

(* Every step preserves IInv.                                              *)
LEMMA StepIInv == IInv /\ [Next]_vars => IInv'
<1> SUFFICES ASSUME IInv, [Next]_vars PROVE IInv'
  OBVIOUS
<1> USE DEF IInv
<1>1. TypeOK'
  BY StepType
<1> USE DEF PostToSpare, ClosedByMain, DrainedUnlessForced, PanicOnlyWhenForced
<1>2. CASE UNCHANGED vars
  BY <1>1, <1>2 DEF vars, channelVars, postVars, mainVars
<1>3. ASSUME NEW h \in Handlers, StartReport(h) PROVE IInv'
  BY <1>1, <1>3 DEF TypeOK, StartReport, channelVars, postVars, mainVars
<1>4. ASSUME NEW h \in Handlers, AdsHandled(h) PROVE IInv'
  BY <1>1, <1>4 DEF TypeOK, AdsHandled, postVars, mainVars
<1>5. CASE RecordMetrics
  BY <1>1, <1>5 DEF RecordMetrics, postVars, mainVars
<1>6. CASE Tick
  BY <1>1, <1>6, CollectorAssumption DEF TypeOK, Tick, ExportMetrics, channelVars, mainVars
<1>7. CASE StopCollector
  BY <1>1, <1>7 DEF StopCollector, CloseChannel, mainVars
<1>8. ASSUME NEW i \in Posts, PostMetrics(i) PROVE IInv'
  BY <1>1, <1>8 DEF PostMetrics, channelVars, mainVars
<1>9. CASE Signal \/ CancelKpi \/ Exit
  BY <1>1, <1>9 DEF TypeOK, Signal, CancelKpi, HandlersDone, Exit, channelVars, postVars
<1> QED
  BY <1>2, <1>3, <1>4, <1>5, <1>6, <1>7, <1>8, <1>9 DEF Next

-----------------------------------------------------------------------------
(* Sums over sets of posts.                                                *)

(* What the posts in S carry for subdomain s when they carry d.            *)
Carried(d, S, s) == MapThenSumSet(LAMBDA i : d[i][s], S)

(* The element with which the sum over t goes on.                          *)
Pick(t) == CHOOSE x \in t : TRUE

(* F is the sum over each of the sets in X, element by element.            *)
Sums(F, d, s, X) ==
    F = [t \in X |-> IF t = {} THEN 0 ELSE d[Pick(t)][s] + F[t \ {Pick(t)}]]

(* F is the sum over each of the subsets of S.                             *)
SumsOver(F, d, s, S) == Sums(F, d, s, SUBSET S)

(* Sets of numbers that are not empty have a least element.                *)
LEMMA LeastNumber ==
    ASSUME NEW T, T \subseteq Nat, T # {}
    PROVE  \E n \in T : \A m \in T : n <= m
<1>1. PICK n \in T : \A m \in T : ~(<<m, n>> \in OpToRel(<, Nat))
  BY WFMin, NatLessThanWellFounded
<1>2. ASSUME NEW m \in T PROVE n <= m
  <2>1. m \in Nat /\ n \in Nat
    OBVIOUS
  <2>2. <<m, n>> \notin {ss \in Nat \X Nat : ss[1] < ss[2]}
    BY <1>1 DEF OpToRel
  <2> QED
    BY <2>1, <2>2
<1> QED
  BY <1>2

(* What holds of a set whenever it holds of the smaller ones holds of all. *)
LEMMA BySize ==
    ASSUME NEW S, IsFiniteSet(S), NEW Good, Good \subseteq SUBSET S,
           \A t \in SUBSET S :
              (\A u \in SUBSET S : Cardinality(u) < Cardinality(t) => u \in Good) => t \in Good
    PROVE  Good = SUBSET S
<1> DEFINE T == {n \in Nat : \E t \in SUBSET S : t \notin Good /\ Cardinality(t) = n}
<1>1. SUFFICES ASSUME T # {} PROVE FALSE
  <2>1. \A t \in SUBSET S : Cardinality(t) \in Nat
    BY FS_Subset, FS_CardinalityType
  <2> QED
    BY <1>1, <2>1
<1>2. PICK n \in T : \A m \in T : n <= m
  <2>1. T \subseteq Nat
    OBVIOUS
  <2> HIDE DEF T
  <2> QED
    BY <1>1, <2>1, LeastNumber
<1>3. PICK t \in SUBSET S : t \notin Good /\ Cardinality(t) = n
  OBVIOUS
<1>4. ASSUME NEW u \in SUBSET S, Cardinality(u) < Cardinality(t) PROVE u \in Good
  <2>1. Cardinality(u) \in Nat /\ n \in Nat
    BY FS_Subset, FS_CardinalityType
  <2>2. Cardinality(u) \notin T
    <3> HIDE DEF T
    <3> QED
      BY <1>2, <1>3, <1>4, <2>1
  <2> QED
    BY <2>1, <2>2
<1> QED
  BY <1>3, <1>4

(* A set without one of its elements is smaller.                           *)
LEMMA Smaller ==
    ASSUME NEW S, IsFiniteSet(S), NEW t \in SUBSET S, NEW x \in t
    PROVE  /\ t \ {x} \in SUBSET S
           /\ Cardinality(t \ {x}) < Cardinality(t)
           /\ Cardinality(t) \in Nat
           /\ Cardinality(t \ {x}) = Cardinality(t) - 1
<1>1. IsFiniteSet(t)
  BY FS_Subset
<1>2. Cardinality(t) \in Nat /\ Cardinality(t \ {x}) = Cardinality(t) - 1
  BY <1>1, FS_RemoveElement, FS_CardinalityType
<1> QED
  BY <1>2

(* There are sums over all subsets of a finite set.                        *)
LEMMA SumsExist ==
    ASSUME NEW S, IsFiniteSet(S), NEW d, NEW s
    PROVE  \E F : SumsOver(F, d, s, S)
<1> DEFINE Level(k) == {t \in SUBSET S : Cardinality(t) <= k}
           T == {k \in Nat : ~ \E F : Sums(F, d, s, Level(k))}
<1>1. \A t \in SUBSET S : Cardinality(t) \in Nat /\ (Cardinality(t) = 0 <=> t = {})
  BY FS_Subset, FS_CardinalityType, FS_EmptySet
<1>2. 0 \notin T
  <2> DEFINE F == [t \in Level(0) |-> 0]
  <2>1. \A t \in Level(0) : t = {}
    BY <1>1
  <2>2. F = [t \in Level(0) |-> IF t = {} THEN 0 ELSE d[Pick(t)][s] + F[t \ {Pick(t)}]]
    <3> HIDE DEF Level
    <3> QED
      BY <2>1
  <2>3. Sums(F, d, s, Level(0))
    <3> HIDE DEF Level
    <3> QED
      BY <2>2 DEF Sums
  <2> HIDE DEF F
  <2> QED
    BY <2>3
<1>3. ASSUME NEW k \in Nat, k \notin T PROVE k + 1 \notin T
  <2>1. PICK F : Sums(F, d, s, Level(k))
    BY <1>3
  <2> DEFINE More(t) == IF t = {} THEN 0 ELSE d[Pick(t)][s] + F[t \ {Pick(t)}]
             G == [t \in Level(k + 1) |-> More(t)]
  <2>2. ASSUME NEW t \in Level(k) PROVE F[t] = More(t)
    <3> HIDE DEF Level
    <3> QED
      BY <2>1 DEF Sums
  <2>3. ASSUME NEW t \in Level(k + 1), t # {}
        PROVE  t \ {Pick(t)} \in Level(k) /\ t \ {Pick(t)} \in Level(k + 1)
    <3>1. Pick(t) \in t
      BY <2>3 DEF Pick
    <3>2. /\ t \ {Pick(t)} \in SUBSET S /\ Cardinality(t) \in Nat
          /\ Cardinality(t \ {Pick(t)}) = Cardinality(t) - 1
      BY <3>1, Smaller
    <3>3. Cardinality(t) <= k + 1
      OBVIOUS
    <3>4. Cardinality(t) - 1 <= k /\ Cardinality(t) - 1 <= k + 1
      BY <3>2, <3>3
    <3> QED
      BY <3>2, <3>4
  <2>4. \A t \in Level(k + 1) : G[t] = More(t)
    OBVIOUS
  <2>5. ASSUME NEW t \in Level(k + 1)
        PROVE  More(t) = IF t = {} THEN 0 ELSE d[Pick(t)][s] + G[t \ {Pick(t)}]
    <3>1. CASE t = {}
      BY <3>1
    <3>2. CASE t # {}
      <4>1. t \ {Pick(t)} \in Level(k) /\ t \ {Pick(t)} \in Level(k + 1)
        BY <2>3, <3>2
      <4>2. G[t \ {Pick(t)}] = F[t \ {Pick(t)}]
        <5> HIDE DEF Level, More, G
        <5> QED
          BY <2>2, <2>4, <4>1
      <4> QED
        BY <3>2, <4>2
    <3> QED
      BY <3>1, <3>2
  <2>6. G = [t \in Level(k + 1) |-> IF t = {} THEN 0 ELSE d[Pick(t)][s] + G[t \ {Pick(t)}]]
    <3>1. G = [t \in Level(k + 1) |-> G[t]]
      OBVIOUS
    <3> HIDE DEF Level, G, More
    <3> QED
      BY <2>4, <2>5, <3>1
  <2>7. Sums(G, d, s, Level(k + 1))
    <3> HIDE DEF Level, G
    <3> QED
      BY <2>6 DEF Sums
  <2> HIDE DEF G, Level
  <2> QED
    BY <2>7
<1>4. T = {}
  <2> SUFFICES ASSUME T # {} PROVE FALSE
    OBVIOUS
  <2>1. T \subseteq Nat
    OBVIOUS
  <2> HIDE DEF T
  <2>2. PICK n \in T : \A m \in T : n <= m
    BY <2>1, LeastNumber
  <2>3. n - 1 \in Nat /\ n = (n - 1) + 1 /\ ~(n <= n - 1)
    BY <1>2, <2>1
  <2> QED
    BY <1>3, <2>2, <2>3
<1>5. Cardinality(S) \in Nat /\ Level(Cardinality(S)) = SUBSET S
  <2>1. \A t \in SUBSET S : Cardinality(t) <= Cardinality(S)
    BY FS_Subset
  <2> QED
    BY <2>1, FS_CardinalityType
<1>6. \E F : Sums(F, d, s, Level(Cardinality(S)))
  <2> HIDE DEF Level
  <2> QED
    BY <1>4, <1>5
<1> HIDE DEF Level
<1> QED
  BY <1>5, <1>6 DEF SumsOver

(* Carried is such a sum.                                                  *)
LEMMA CarriedIsSum ==
    ASSUME NEW S, IsFiniteSet(S), NEW d, NEW s
    PROVE  \E F : SumsOver(F, d, s, S) /\ Carried(d, S, s) = F[S]
<1> DEFINE F == CHOOSE it : it = [t \in SUBSET S |->
                    IF t = {} THEN 0
                    ELSE d[CHOOSE x \in t : TRUE][s] + it[t \ {CHOOSE x \in t : TRUE}]]
<1>1. Carried(d, S, s) = F[S]
  BY DEF Carried, MapThenSumSet, MapThenFoldSet
<1>2. SumsOver(F, d, s, S)
  <2>1. \E it : SumsOver(it, d, s, S)
    BY SumsExist
  <2> QED
    BY <2>1 DEF SumsOver, Sums, Pick
<1> HIDE DEF F
<1> QED
  BY <1>1, <1>2

(* The posts in S carry numbers.                                           *)
Numbers(d, S, s) == \A i \in S : d[i][s] \in Nat

(* The posts in S carry the same in d and in e.                            *)
SameFigures(d, e, S, s) == \A i \in S : d[i][s] = e[i][s]

(* The sum goes on with any of the elements, and is a number.              *)
LEMMA AnyOrder ==
    ASSUME NEW S, IsFiniteSet(S), NEW d, NEW s, Numbers(d, S, s),
           NEW F, SumsOver(F, d, s, S)
    PROVE  \A t \in SUBSET S :
              /\ F[t] \in Nat
              /\ t = {} => F[t] = 0
              /\ \A y \in t : F[t] = d[y][s] + F[t \ {y}]
<1> DEFINE Claim(t) == /\ F[t] \in Nat
                       /\ t = {} => F[t] = 0
                       /\ \A y \in t : F[t] = d[y][s] + F[t \ {y}]
           Good == {t \in SUBSET S : Claim(t)}
<1>1. \A t \in SUBSET S : F[t] = IF t = {} THEN 0 ELSE d[Pick(t)][s] + F[t \ {Pick(t)}]
  BY DEF SumsOver, Sums
<1>2. ASSUME NEW t \in SUBSET S,
             \A u \in SUBSET S : Cardinality(u) < Cardinality(t) => u \in Good
      PROVE  t \in Good
  <2>1. CASE t = {}
    <3>1. F[t] = 0
      BY <1>1, <2>1
    <3> QED
      BY <2>1, <3>1
  <2>2. CASE t # {}
    <3> DEFINE x == Pick(t)
    <3>1. x \in t
      BY <2>2 DEF Pick
    <3> HIDE DEF x
    <3>2. F[t] = d[x][s] + F[t \ {x}]
      BY <1>1, <2>2 DEF x
    <3>3. ASSUME NEW y \in t PROVE Claim(t \ {y})
      <4>1. t \ {y} \in SUBSET S /\ Cardinality(t \ {y}) < Cardinality(t)
        BY Smaller
      <4>2. t \ {y} \in Good
        <5> HIDE DEF Good
        <5> QED
          BY <1>2, <4>1
      <4> QED
        BY <4>2
    <3>4. F[t] \in Nat
      <4>1. d[x][s] \in Nat /\ F[t \ {x}] \in Nat
        BY <3>1, <3>3 DEF Numbers
      <4> QED
        BY <3>2, <4>1
    <3>5. ASSUME NEW y \in t PROVE F[t] = d[y][s] + F[t \ {y}]
      <4>1. CASE y = x
        BY <3>2, <4>1
      <4>2. CASE y # x
        <5>1. /\ F[t \ {x}] = d[y][s] + F[(t \ {x}) \ {y}]
              /\ F[t \ {y}] = d[x][s] + F[(t \ {y}) \ {x}]
          <6>1. y \in t \ {x} /\ x \in t \ {y}
            BY <3>1, <4>2
          <6> QED
            BY <3>1, <3>3, <6>1
        <5>2. (t \ {x}) \ {y} = (t \ {y}) \ {x}
          OBVIOUS
        <5>3. d[x][s] \in Nat /\ d[y][s] \in Nat
          BY <3>1 DEF Numbers
        <5>4. F[(t \ {y}) \ {x}] \in Nat
          <6>1. (t \ {y}) \ {x} \in SUBSET S /\ Cardinality((t \ {y}) \ {x}) < Cardinality(t)
            <7>1. t \ {y} \in SUBSET S /\ x \in t \ {y}
              BY <3>1, <4>2
            <7>2. Cardinality((t \ {y}) \ {x}) = Cardinality(t \ {y}) - 1
              BY <7>1, Smaller
            <7>3. Cardinality(t \ {y}) = Cardinality(t) - 1 /\ Cardinality(t) \in Nat
              BY Smaller
            <7> QED
              BY <7>1, <7>2, <7>3
          <6>2. (t \ {y}) \ {x} \in Good
            <7> HIDE DEF Good
            <7> QED
              BY <1>2, <6>1
          <6> QED
            BY <6>2
        <5>5. /\ F[t] = d[x][s] + (d[y][s] + F[(t \ {y}) \ {x}])
              /\ F[t \ {y}] = d[x][s] + F[(t \ {y}) \ {x}]
          BY <3>2, <5>1, <5>2
        <5>6. \A a, b, c \in Nat : a + (b + c) = b + (a + c)
          OBVIOUS
        <5> QED
          BY <5>3, <5>4, <5>5, <5>6
      <4> QED
        BY <4>1, <4>2
    <3> QED
      BY <2>2, <3>4, <3>5
  <2> QED
    BY <2>1, <2>2
<1>3. Good = SUBSET S
  <2>1. Good \subseteq SUBSET S
    OBVIOUS
  <2> HIDE DEF Good
  <2> QED
    BY <1>2, <2>1, BySize
<1> QED
  BY <1>3

(* Sums of the same figures are the same.                                  *)
LEMMA SameSums ==
    ASSUME NEW S, IsFiniteSet(S), NEW T, T \subseteq S, NEW d, NEW e, NEW s,
           SameFigures(d, e, T, s),
           NEW F, SumsOver(F, d, s, S), NEW G, SumsOver(G, e, s, T)
    PROVE  F[T] = G[T]
<1> DEFINE Good == {t \in SUBSET T : F[t] = G[t]}
<1>1. IsFiniteSet(T)
  BY FS_Subset
<1>2. \A t \in SUBSET T : F[t] = IF t = {} THEN 0 ELSE d[Pick(t)][s] + F[t \ {Pick(t)}]
  <2>1. \A t \in SUBSET S : F[t] = IF t = {} THEN 0 ELSE d[Pick(t)][s] + F[t \ {Pick(t)}]
    BY DEF SumsOver, Sums
  <2> QED
    BY <2>1
<1>3. \A t \in SUBSET T : G[t] = IF t = {} THEN 0 ELSE e[Pick(t)][s] + G[t \ {Pick(t)}]
  BY DEF SumsOver, Sums
<1>4. ASSUME NEW t \in SUBSET T,
             \A u \in SUBSET T : Cardinality(u) < Cardinality(t) => u \in Good
      PROVE  t \in Good
  <2>1. CASE t = {}
    BY <1>2, <1>3, <2>1
  <2>2. CASE t # {}
    <3>1. Pick(t) \in t
      BY <2>2 DEF Pick
    <3>2. t \ {Pick(t)} \in SUBSET T /\ Cardinality(t \ {Pick(t)}) < Cardinality(t)
      BY <1>1, <3>1, Smaller
    <3>3. F[t \ {Pick(t)}] = G[t \ {Pick(t)}]
      <4>1. t \ {Pick(t)} \in Good
        <5> HIDE DEF Good
        <5> QED
          BY <1>4, <3>2
      <4> QED
        BY <4>1
    <3>4. d[Pick(t)][s] = e[Pick(t)][s]
      BY <3>1 DEF SameFigures
    <3> QED
      BY <1>2, <1>3, <2>2, <3>3, <3>4
  <2> QED
    BY <2>1, <2>2
<1>5. Good = SUBSET T
  <2>1. Good \subseteq SUBSET T
    OBVIOUS
  <2> HIDE DEF Good
  <2> QED
    BY <1>1, <1>4, <2>1, BySize
<1> QED
  BY <1>5

(* No posts carry nothing; what finitely many carry is a number.           *)
LEMMA CarriedType ==
    ASSUME NEW S, IsFiniteSet(S), NEW d, NEW s, Numbers(d, S, s)
    PROVE  Carried(d, S, s) \in Nat /\ (S = {} => Carried(d, S, s) = 0)
<1>1. PICK F : SumsOver(F, d, s, S) /\ Carried(d, S, s) = F[S]
  BY CarriedIsSum
<1>2. S \in SUBSET S
  OBVIOUS
<1>3. \A t \in SUBSET S : F[t] \in Nat /\ (t = {} => F[t] = 0)
  BY <1>1, AnyOrder
<1>4. F[S] \in Nat /\ (S = {} => F[S] = 0)
  BY <1>2, <1>3
<1> QED
  BY <1>1, <1>4

(* U has one post more than S: i.                                          *)
Adds(U, S, i) == i \notin S /\ U = S \cup {i}

(* One post more carries its own figure more, whatever it is that posts    *)
(* outside the set carry.                                                  *)
LEMMA CarriedOneMore ==
    ASSUME NEW S, IsFiniteSet(S), NEW U, NEW i, Adds(U, S, i), NEW d, NEW e, NEW s,
           Numbers(d, S, s), SameFigures(e, d, S, s), e[i][s] \in Nat
    PROVE  /\ Carried(d, S, s) \in Nat
           /\ Carried(e, U, s) = e[i][s] + Carried(d, S, s)
<1>1. IsFiniteSet(U) /\ S \in SUBSET U /\ U \in SUBSET U /\ i \in U /\ U \ {i} = S
  BY FS_AddElement DEF Adds
<1>2. Numbers(e, U, s)
  BY DEF Numbers, SameFigures, Adds
<1>4. PICK F : SumsOver(F, e, s, U) /\ Carried(e, U, s) = F[U]
  BY <1>1, CarriedIsSum
<1>5. PICK G : SumsOver(G, d, s, S) /\ Carried(d, S, s) = G[S]
  BY CarriedIsSum
<1>6. F[U] = e[i][s] + F[S]
  <2>1. IsFiniteSet(U) /\ Numbers(e, U, s) /\ SumsOver(F, e, s, U)
    BY <1>1, <1>2, <1>4
  <2>2. \A t \in SUBSET U :
           /\ F[t] \in Nat
           /\ t = {} => F[t] = 0
           /\ \A y \in t : F[t] = e[y][s] + F[t \ {y}]
    BY <2>1, AnyOrder
  <2> QED
    BY <1>1, <2>2
<1>7. F[S] = G[S]
  <2>1. SumsOver(F, e, s, U) /\ SumsOver(G, d, s, S) /\ S \subseteq U
    BY <1>1, <1>4, <1>5
  <2> QED
    BY <1>1, <2>1, SameSums
<1>8. Carried(d, S, s) \in Nat
  BY CarriedType
<1> QED
  BY <1>4, <1>5, <1>6, <1>7, <1>8

(* Posts that carry the same carry the same together.                      *)
LEMMA CarriedSame ==
    ASSUME NEW S, IsFiniteSet(S), NEW d, NEW e, NEW s, SameFigures(d, e, S, s)
    PROVE  Carried(d, S, s) = Carried(e, S, s)
<1>1. PICK F : SumsOver(F, d, s, S) /\ Carried(d, S, s) = F[S]
  BY CarriedIsSum
<1>2. PICK G : SumsOver(G, e, s, S) /\ Carried(e, S, s) = G[S]
  BY CarriedIsSum
<1>3. SumsOver(F, d, s, S) /\ SumsOver(G, e, s, S) /\ S \subseteq S
  BY <1>1, <1>2
<1>4. F[S] = G[S]
  BY <1>3, SameSums
<1> QED
  BY <1>1, <1>2, <1>4

-----------------------------------------------------------------------------
(* What is in the channel.                                                 *)

(* The places of the reports of subdomain s in c.                          *)
Places(c, s) == {i \in DOMAIN c : c[i] = s}

(* There are finitely many of them, and none in the empty channel.         *)
LEMMA PlacesFinite ==
    ASSUME NEW c \in Seq(Subdomains), NEW s
    PROVE  /\ IsFiniteSet(Places(c, s)) /\ Cardinality(Places(c, s)) \in Nat
           /\ c = <<>> => Cardinality(Places(c, s)) = 0
<1>1. Len(c) \in Nat /\ DOMAIN c = 1 .. Len(c)
  OBVIOUS
<1>2. IsFiniteSet(1 .. Len(c))
  BY <1>1, FS_Interval
<1>3. Places(c, s) \in SUBSET (1 .. Len(c)) /\ (c = <<>> => Places(c, s) = {})
  BY <1>1 DEF Places
<1>4. IsFiniteSet(Places(c, s))
  BY <1>2, <1>3, FS_Subset
<1> QED
  BY <1>3, <1>4, FS_CardinalityType, FS_EmptySet

(* A report that is sent is one more of its subdomain.                     *)
LEMMA PlacesAppend ==
    ASSUME NEW c \in Seq(Subdomains), NEW x \in Subdomains, NEW s
    PROVE  Cardinality(Places(Append(c, x), s)) =
              Cardinality(Places(c, s)) + (IF x = s THEN 1 ELSE 0)
<1> DEFINE n == Len(c)
           a == Append(c, x)
<1>1. /\ n \in Nat /\ DOMAIN c = 1 .. n /\ DOMAIN a = 1 .. n + 1
      /\ a[n + 1] = x /\ \A i \in 1 .. n : a[i] = c[i]
  OBVIOUS
<1>2. 1 .. n + 1 = (1 .. n) \cup {n + 1} /\ n + 1 \notin 1 .. n
  BY <1>1
<1> HIDE DEF a, n
<1>3. IsFiniteSet(Places(c, s)) /\ Cardinality(Places(c, s)) \in Nat
  BY PlacesFinite
<1>4. CASE x = s
  <2>1. Places(a, s) = Places(c, s) \cup {n + 1} /\ n + 1 \notin Places(c, s)
    BY <1>1, <1>2, <1>4 DEF Places
  <2>2. Cardinality(Places(a, s)) = Cardinality(Places(c, s)) + 1
    BY <1>3, <2>1, FS_AddElement
  <2> QED
    BY <1>4, <2>2 DEF a
<1>5. CASE x # s
  <2>1. Places(a, s) = Places(c, s)
    BY <1>1, <1>2, <1>5 DEF Places
  <2> QED
    BY <1>3, <1>5, <2>1 DEF a
<1> QED
  BY <1>4, <1>5

(* A report that is received is one less of its subdomain.                 *)
LEMMA PlacesTail ==
    ASSUME NEW c \in Seq(Subdomains), c # <<>>, NEW s
    PROVE  Cardinality(Places(c, s)) =
              Cardinality(Places(Tail(c), s)) + (IF Head(c) = s THEN 1 ELSE 0)
<1> DEFINE n == Len(c)
           t == Tail(c)
           Rest == Places(c, s) \ {1}
           f == [i \in Rest |-> i - 1]
<1>1. /\ n \in Nat \ {0} /\ DOMAIN c = 1 .. n /\ t \in Seq(Subdomains)
      /\ DOMAIN t = 1 .. n - 1 /\ \A i \in 1 .. n - 1 : t[i] = c[i + 1]
      /\ Head(c) = c[1] /\ 1 \in 1 .. n
  OBVIOUS
<1> HIDE DEF t, n
<1>2. IsFiniteSet(Places(c, s)) /\ Cardinality(Places(c, s)) \in Nat
  BY PlacesFinite
<1>3. /\ IsFiniteSet(Rest)
      /\ Cardinality(Places(c, s)) = Cardinality(Rest) + (IF Head(c) = s THEN 1 ELSE 0)
  <2>1. 1 \in Places(c, s) <=> Head(c) = s
    BY <1>1 DEF Places
  <2>2. /\ IsFiniteSet(Rest)
        /\ Cardinality(Rest) = IF 1 \in Places(c, s) THEN Cardinality(Places(c, s)) - 1
                               ELSE Cardinality(Places(c, s))
    BY <1>2, FS_RemoveElement
  <2> HIDE DEF Rest
  <2> QED
    BY <1>2, <2>1, <2>2
<1>4. \A i \in Rest : i \in 2 .. n /\ c[i] = s
  BY <1>1 DEF Places
<1>5. \A j \in Places(t, s) : j + 1 \in Rest /\ j \in 1 .. n - 1
  BY <1>1 DEF Places
<1>6. f \in Bijection(Rest, Places(t, s))
  <2>1. \A i \in Rest : f[i] = i - 1 /\ i - 1 \in Places(t, s)
    <3> SUFFICES ASSUME NEW i \in Rest PROVE i - 1 \in Places(t, s)
      OBVIOUS
    <3>1. i \in 2 .. n /\ c[i] = s
      BY <1>4
    <3>2. i - 1 \in 1 .. n - 1 /\ (i - 1) + 1 = i
      BY <1>1, <3>1
    <3> QED
      BY <1>1, <3>1, <3>2 DEF Places
  <2>2. f \in [Rest -> Places(t, s)]
    BY <2>1
  <2>3. \A i, j \in Rest : f[i] = f[j] => i = j
    BY <1>1, <1>4
  <2>4. \A j \in Places(t, s) : \E i \in Rest : f[i] = j
    <3> SUFFICES ASSUME NEW j \in Places(t, s) PROVE \E i \in Rest : f[i] = j
      OBVIOUS
    <3>1. j + 1 \in Rest /\ j \in 1 .. n - 1
      BY <1>5
    <3>2. (j + 1) - 1 = j
      BY <1>1, <3>1
    <3>3. f[j + 1] = j
      BY <2>1, <3>1, <3>2
    <3> QED
      BY <3>1, <3>3
  <2> HIDE DEF f, Rest
  <2> QED
    BY <2>2, <2>3, <2>4 DEF Bijection, Injection, Surjection, IsInjective
<1>7. Cardinality(Places(t, s)) = Cardinality(Rest)
  <2> HIDE DEF f, Rest
  <2>1. ExistsBijection(Rest, Places(t, s))
    BY <1>6 DEF ExistsBijection
  <2> QED
    BY <1>3, <2>1, FS_Bijection
<1> QED
  BY <1>3, <1>7 DEF t

-----------------------------------------------------------------------------
(* The books.                                                              *)

(* A post that has not been started is not under way.                      *)
FreshPosts == \A i \in Posts : i > exports => post[i] = "none"

(* Only finitely many requests have been reported so far, however many     *)
(* there will be.                                                          *)
SentFinite == IsFiniteSet({h \in Handlers : handler[h] = "sent"})

Books == IInv /\ FreshPosts /\ SentFinite /\ EveryReportAccounted

(* The reports of s among those handed over in handlers' state hs.         *)
SentFor(hs, s) == {h \in Handlers : hs[h] = "sent" /\ SubdomainOf[h] = s}

(* The posts under way in posts' state p.                                  *)
Pending(p) == {i \in Posts : p[i] \in {"sending", "stillborn"}}

(* Where the reports of s are, in the terms of the lemmas above.           *)
LEMMA Terms ==
    ASSUME NEW s
    PROVE  /\ Handed(s) = Cardinality(SentFor(handler, s))
           /\ Handed(s)' = Cardinality(SentFor(handler', s))
           /\ InChannel(s) = Cardinality(Places(ch, s))
           /\ InChannel(s)' = Cardinality(Places(ch', s))
           /\ InPosts(s) = Carried(data, Pending(post), s)
           /\ InPosts(s)' = Carried(data', Pending(post'), s)
<1>1. /\ Handed(s) = Cardinality(SentFor(handler, s))
      /\ Handed(s)' = Cardinality(SentFor(handler', s))
  BY DEF Handed, SentFor
<1>2. /\ InChannel(s) = Cardinality(Places(ch, s))
      /\ InChannel(s)' = Cardinality(Places(ch', s))
  BY DEF InChannel, Places
<1>3. /\ InPosts(s) = Carried(data, Pending(post), s)
      /\ InPosts(s)' = Carried(data', Pending(post'), s)
  <2>1. InPosts(s) = Carried(data, Pending(post), s)
    BY DEF InPosts, Carried, Pending, MapThenSumSet, MapThenFoldSet
  <2>2. InPosts(s)' = Carried(data', Pending(post'), s)
    BY DEF InPosts, Carried, Pending, MapThenSumSet, MapThenFoldSet
  <2> QED
    BY <2>1, <2>2
<1> QED
  BY <1>1, <1>2, <1>3

(* There are finitely many posts.                                          *)
LEMMA PendingFinite == \A p : IsFiniteSet(Pending(p)) /\ Pending(p) \subseteq Posts
<1>1. IsFiniteSet(Posts)
  BY CollectorAssumption, FS_Interval DEF Posts
<1>2. \A p : Pending(p) \in SUBSET Posts
  BY DEF Pending
<1> QED
  BY <1>1, <1>2, FS_Subset

(* What is in each place can be counted.                                   *)
LEMMA CountsAreNumbers ==
    ASSUME TypeOK, SentFinite, NEW s \in Subdomains
    PROVE  /\ IsFiniteSet(SentFor(handler, s)) /\ Handed(s) \in Nat
           /\ InChannel(s) \in Nat
           /\ Numbers(data, Pending(post), s) /\ InPosts(s) \in Nat
           /\ kpiMap[s] \in Nat /\ received[s] \in Nat /\ lost[s] \in Nat
<1>1. IsFiniteSet(SentFor(handler, s)) /\ Cardinality(SentFor(handler, s)) \in Nat
  <2>1. SentFor(handler, s) \in SUBSET {h \in Handlers : handler[h] = "sent"}
    BY DEF SentFor
  <2>2. IsFiniteSet(SentFor(handler, s))
    BY <2>1, FS_Subset DEF SentFinite
  <2> QED
    BY <2>2, FS_CardinalityType
<1>2. Cardinality(Places(ch, s)) \in Nat
  BY PlacesFinite DEF TypeOK
<1>3. Numbers(data, Pending(post), s)
  BY DEF TypeOK, Numbers, Pending
<1>4. Carried(data, Pending(post), s) \in Nat
  BY <1>3, PendingFinite, CarriedType
<1> QED
  BY <1>1, <1>2, <1>3, <1>4, Terms DEF TypeOK

(* The books are empty to begin with.                                      *)
LEMMA InitBooks == Init => Books
<1> SUFFICES ASSUME Init PROVE Books
  OBVIOUS
<1>1. IInv
  BY InitIInv
<1>2. FreshPosts
  BY DEF Init, FreshPosts
<1>3. {h \in Handlers : handler[h] = "sent"} = {}
  BY DEF Init
<1>4. SentFinite
  BY <1>3, FS_EmptySet DEF SentFinite
<1>5. ASSUME NEW s \in Subdomains
      PROVE  Handed(s) = InChannel(s) + kpiMap[s] + InPosts(s) + received[s] + lost[s]
  <2>1. Handed(s) = 0
    <3>1. SentFor(handler, s) = {}
      BY <1>3 DEF SentFor
    <3> QED
      BY <3>1, FS_EmptySet, Terms
  <2>2. InChannel(s) = 0
    BY <1>1, PlacesFinite, Terms DEF Init, IInv, TypeOK
  <2>3. InPosts(s) = 0
    <3>1. Pending(post) = {}
      BY DEF Init, Pending
    <3>2. Numbers(data, Pending(post), s)
      BY <3>1 DEF Numbers
    <3>3. Carried(data, Pending(post), s) = 0
      BY <3>1, <3>2, PendingFinite, CarriedType
    <3> QED
      BY <3>3, Terms
  <2>4. kpiMap[s] = 0 /\ received[s] = 0 /\ lost[s] = 0
    BY DEF Init, Nothing
  <2> QED
    BY <2>1, <2>2, <2>3, <2>4
<1> QED
  BY <1>1, <1>2, <1>4, <1>5 DEF Books, EveryReportAccounted

(* Posts are started in turn.                                              *)
LEMMA StepFresh ==
    ASSUME TypeOK, PostToSpare, FreshPosts, [Next]_vars
    PROVE  FreshPosts'
<1> USE DEF FreshPosts
<1>1. CASE UNCHANGED postVars
  BY <1>1 DEF postVars
<1>2. CASE ExportMetrics /\ exports <= MaxExports
  BY <1>2, CollectorAssumption DEF TypeOK, ExportMetrics, Posts
<1>3. ASSUME NEW i \in Posts, PostMetrics(i) PROVE FreshPosts'
  BY <1>3 DEF TypeOK, PostMetrics
<1>4. CASE Tick
  BY <1>2, <1>4, CollectorAssumption DEF TypeOK, PostToSpare, Tick
<1>5. CASE StopCollector
  BY <1>2, <1>5 DEF PostToSpare, StopCollector
<1>6. CASE UNCHANGED vars
  BY <1>1, <1>6 DEF vars
<1>7. ASSUME NEW h \in Handlers, StartReport(h) \/ AdsHandled(h) PROVE FreshPosts'
  BY <1>1, <1>7 DEF StartReport, AdsHandled
<1>8. CASE RecordMetrics \/ Signal \/ CancelKpi \/ Exit
  BY <1>1, <1>8 DEF RecordMetrics, Signal, CancelKpi, Exit
<1> QED
  BY <1>3, <1>4, <1>5, <1>6, <1>7, <1>8 DEF Next

(* Handing a report over makes one more.                                   *)
LEMMA StepSent ==
    ASSUME TypeOK, SentFinite, [Next]_vars
    PROVE  SentFinite'
<1> DEFINE Sent == {h \in Handlers : handler[h] = "sent"}
<1>1. CASE UNCHANGED handler
  BY <1>1 DEF SentFinite
<1>2. ASSUME NEW h \in Handlers, StartReport(h) PROVE SentFinite'
  <2>1. {g \in Handlers : handler'[g] = "sent"} = Sent
    BY <1>2 DEF TypeOK, StartReport
  <2> QED
    BY <2>1 DEF SentFinite
<1>3. ASSUME NEW h \in Handlers, AdsHandled(h) PROVE SentFinite'
  <2>1. \/ {g \in Handlers : handler'[g] = "sent"} = Sent \cup {h}
        \/ {g \in Handlers : handler'[g] = "sent"} = Sent
    BY <1>3 DEF TypeOK, AdsHandled
  <2>2. IsFiniteSet(Sent) /\ IsFiniteSet(Sent \cup {h})
    BY FS_AddElement DEF SentFinite
  <2> QED
    BY <2>1, <2>2 DEF SentFinite
<1>4. CASE UNCHANGED vars
  BY <1>1, <1>4 DEF vars
<1>5. ASSUME NEW i \in Posts, PostMetrics(i) PROVE SentFinite'
  BY <1>1, <1>5 DEF PostMetrics
<1>6. CASE RecordMetrics \/ Tick \/ StopCollector \/ Signal \/ CancelKpi \/ Exit
  BY <1>1, <1>6 DEF RecordMetrics, Tick, StopCollector, Signal, CancelKpi, Exit
<1> QED
  BY <1>2, <1>3, <1>4, <1>5, <1>6 DEF Next

(* A step that leaves every place alone leaves the books alone.            *)
LEMMA BooksUntouched ==
    ASSUME EveryReportAccounted, UNCHANGED <<ch, kpiMap, post, data, received, lost>>,
           \A s \in Subdomains : SentFor(handler', s) = SentFor(handler, s)
    PROVE  EveryReportAccounted'
<1> SUFFICES ASSUME NEW s \in Subdomains
             PROVE  Handed(s)' = InChannel(s)' + kpiMap'[s] + InPosts(s)'
                                 + received'[s] + lost'[s]
  BY DEF EveryReportAccounted
<1>1. Handed(s)' = Handed(s)
  BY Terms
<1>2. InChannel(s)' = InChannel(s) /\ InPosts(s)' = InPosts(s)
  BY Terms
<1>3. kpiMap' = kpiMap /\ received' = received /\ lost' = lost
  OBVIOUS
<1>4. Handed(s) = InChannel(s) + kpiMap[s] + InPosts(s) + received[s] + lost[s]
  BY DEF EveryReportAccounted
<1> QED
  BY <1>1, <1>2, <1>3, <1>4

(* A report that is sent goes to the channel.                              *)
LEMMA SendBooked ==
    ASSUME TypeOK, SentFinite, EveryReportAccounted, NEW h \in Handlers, AdsHandled(h)
    PROVE  EveryReportAccounted'
<1>1. CASE UNCHANGED ch /\ handler' = [handler EXCEPT ![h] = "panicked"]
  <2>1. \A s \in Subdomains : SentFor(handler', s) = SentFor(handler, s)
    BY <1>1 DEF TypeOK, AdsHandled, SentFor
  <2> QED
    BY <1>1, <2>1, BooksUntouched DEF AdsHandled, postVars
<1>2. CASE /\ ch' = Append(ch, SubdomainOf[h])
           /\ handler' = [handler EXCEPT ![h] = "sent"]
  <2> SUFFICES ASSUME NEW s \in Subdomains
               PROVE  Handed(s)' = InChannel(s)' + kpiMap'[s] + InPosts(s)'
                                   + received'[s] + lost'[s]
    BY DEF EveryReportAccounted
  <2> DEFINE more == IF SubdomainOf[h] = s THEN 1 ELSE 0
  <2>1. InChannel(s)' = InChannel(s) + more
    <3>1. ch \in Seq(Subdomains) /\ SubdomainOf[h] \in Subdomains
      BY CollectorAssumption DEF TypeOK
    <3>2. Cardinality(Places(ch', s)) = Cardinality(Places(ch, s)) + more
      BY <1>2, <3>1, PlacesAppend
    <3> QED
      BY <3>2, Terms
  <2>2. Handed(s)' = Handed(s) + more
    <3>1. h \notin SentFor(handler, s)
      BY DEF AdsHandled, SentFor
    <3>2. IsFiniteSet(SentFor(handler, s)) /\ Handed(s) \in Nat
      BY CountsAreNumbers
    <3>3. CASE SubdomainOf[h] = s
      <4>1. SentFor(handler', s) = SentFor(handler, s) \cup {h}
        BY <1>2, <3>3 DEF TypeOK, SentFor
      <4>2. Cardinality(SentFor(handler', s)) = Cardinality(SentFor(handler, s)) + 1
        BY <3>1, <3>2, <4>1, FS_AddElement
      <4> QED
        BY <3>3, <4>2, Terms
    <3>4. CASE SubdomainOf[h] # s
      <4>1. SentFor(handler', s) = SentFor(handler, s)
        BY <1>2, <3>4 DEF TypeOK, SentFor, AdsHandled
      <4> QED
        BY <3>2, <3>4, <4>1, Terms
    <3> QED
      BY <3>3, <3>4
  <2>3. InPosts(s)' = InPosts(s) /\ UNCHANGED <<kpiMap, received, lost>>
    BY Terms DEF AdsHandled, postVars
  <2>4. Handed(s) = InChannel(s) + kpiMap[s] + InPosts(s) + received[s] + lost[s]
    BY DEF EveryReportAccounted
  <2>5. more \in Nat
    OBVIOUS
  <2> HIDE DEF more
  <2> QED
    BY <2>1, <2>2, <2>3, <2>4, <2>5, CountsAreNumbers
<1> QED
  BY <1>1, <1>2 DEF AdsHandled

(* A report that is received goes to the sums.                             *)
LEMMA ReceiptBooked ==
    ASSUME TypeOK, SentFinite, EveryReportAccounted, RecordMetrics
    PROVE  EveryReportAccounted'
<1> SUFFICES ASSUME NEW s \in Subdomains
             PROVE  Handed(s)' = InChannel(s)' + kpiMap'[s] + InPosts(s)'
                                 + received'[s] + lost'[s]
  BY DEF EveryReportAccounted
<1> DEFINE one == IF Head(ch) = s THEN 1 ELSE 0
<1>1. InChannel(s) = InChannel(s)' + one
  <2>1. Cardinality(Places(ch, s)) = Cardinality(Places(ch', s)) + one
    BY PlacesTail DEF TypeOK, RecordMetrics
  <2> QED
    BY <2>1, Terms
<1>2. InChannel(s)' \in Nat
  <2>1. ch' \in Seq(Subdomains)
    BY DEF TypeOK, RecordMetrics
  <2>2. Cardinality(Places(ch', s)) \in Nat
    BY <2>1, PlacesFinite
  <2> QED
    BY <2>2, Terms
<1>3. kpiMap'[s] = kpiMap[s] + one
  <2>1. kpiMap \in [Subdomains -> Nat] /\ kpiMap' = [kpiMap EXCEPT ![Head(ch)] = @ + 1]
    BY DEF TypeOK, RecordMetrics
  <2> QED
    BY <2>1
<1>4. /\ Handed(s)' = Handed(s) /\ InPosts(s)' = InPosts(s)
      /\ UNCHANGED <<received, lost>>
  BY Terms DEF RecordMetrics, postVars
<1>5. Handed(s) = InChannel(s) + kpiMap[s] + InPosts(s) + received[s] + lost[s]
  BY DEF EveryReportAccounted
<1>6. one \in Nat
  OBVIOUS
<1> HIDE DEF one
<1> QED
  BY <1>1, <1>2, <1>3, <1>4, <1>5, <1>6, CountsAreNumbers

(* The sums that are exported go to a post.                                *)
LEMMA ExportBooked ==
    ASSUME TypeOK, SentFinite, FreshPosts, EveryReportAccounted, exports <= MaxExports,
           ExportMetrics, UNCHANGED <<handler, ch, received, lost>>
    PROVE  EveryReportAccounted'
<1> SUFFICES ASSUME NEW s \in Subdomains
             PROVE  Handed(s)' = InChannel(s)' + kpiMap'[s] + InPosts(s)'
                                 + received'[s] + lost'[s]
  BY DEF EveryReportAccounted
<1> DEFINE i == exports + 1
<1>1. i \in Posts /\ i > exports
  BY CollectorAssumption DEF TypeOK, Posts
<1>2. /\ post' \in [Posts -> {"none", "sending", "stillborn", "over"}]
      /\ post'[i] \in {"sending", "stillborn"} /\ \A j \in Posts \ {i} : post'[j] = post[j]
      /\ data'[i] = kpiMap /\ \A j \in Posts \ {i} : data'[j] = data[j]
      /\ kpiMap'[s] = 0
  BY <1>1 DEF TypeOK, ExportMetrics, Nothing
<1> HIDE DEF i
<1>3. Adds(Pending(post'), Pending(post), i)
  BY <1>1, <1>2 DEF FreshPosts, Pending, Adds
<1>4. SameFigures(data', data, Pending(post), s)
  BY <1>2, <1>3 DEF SameFigures, Pending, Adds
<1>5. data'[i][s] = kpiMap[s] /\ kpiMap[s] \in Nat
  BY <1>2 DEF TypeOK
<1>6. InPosts(s)' = kpiMap[s] + InPosts(s)
  <2>1. IsFiniteSet(Pending(post)) /\ Numbers(data, Pending(post), s)
    BY PendingFinite, CountsAreNumbers
  <2>2. Carried(data', Pending(post'), s) = data'[i][s] + Carried(data, Pending(post), s)
    BY <1>3, <1>4, <1>5, <2>1, CarriedOneMore
  <2> QED
    BY <1>5, <2>2, Terms
<1>7. Handed(s)' = Handed(s) /\ InChannel(s)' = InChannel(s)
  BY Terms
<1>8. Handed(s) = InChannel(s) + kpiMap[s] + InPosts(s) + received[s] + lost[s]
  BY DEF EveryReportAccounted
<1> QED
  BY <1>2, <1>6, <1>7, <1>8, CountsAreNumbers

(* A post that is over leaves what it carried at the service, or lost.     *)
LEMMA PostBooked ==
    ASSUME TypeOK, SentFinite, EveryReportAccounted, NEW i \in Posts, PostMetrics(i)
    PROVE  EveryReportAccounted'
<1> SUFFICES ASSUME NEW s \in Subdomains
             PROVE  Handed(s)' = InChannel(s)' + kpiMap'[s] + InPosts(s)'
                                 + received'[s] + lost'[s]
  BY DEF EveryReportAccounted
<1>1. /\ data' = data /\ data[i][s] \in Nat
      /\ Adds(Pending(post), Pending(post'), i)
  BY DEF TypeOK, PostMetrics, Pending, Adds
<1>2. InPosts(s) = data[i][s] + InPosts(s)' /\ InPosts(s)' \in Nat
  <2>1. Numbers(data, Pending(post'), s) /\ SameFigures(data, data, Pending(post'), s)
    BY <1>1, CountsAreNumbers DEF Numbers, SameFigures, Adds
  <2>2. /\ Carried(data, Pending(post), s) = data[i][s] + Carried(data, Pending(post'), s)
        /\ Carried(data, Pending(post'), s) \in Nat
    BY <1>1, <2>1, PendingFinite, CarriedOneMore
  <2> QED
    BY <1>1, <2>2, Terms
<1>3. \/ received'[s] = received[s] + data[i][s] /\ lost'[s] = lost[s]
      \/ lost'[s] = lost[s] + data[i][s] /\ received'[s] = received[s]
  BY DEF PostMetrics, Plus
<1>4. Handed(s)' = Handed(s) /\ InChannel(s)' = InChannel(s) /\ kpiMap' = kpiMap
  BY Terms DEF PostMetrics, channelVars
<1>5. Handed(s) = InChannel(s) + kpiMap[s] + InPosts(s) + received[s] + lost[s]
  BY DEF EveryReportAccounted
<1> QED
  BY <1>1, <1>2, <1>3, <1>4, <1>5, CountsAreNumbers

(* Every step keeps the books.                                             *)
LEMMA StepBooks == Books /\ [Next]_vars => Books'
<1> SUFFICES ASSUME Books, [Next]_vars PROVE Books'
  OBVIOUS
<1>1. TypeOK /\ PostToSpare /\ FreshPosts /\ SentFinite /\ EveryReportAccounted
  BY DEF Books, IInv
<1>2. IInv' /\ FreshPosts' /\ SentFinite'
  BY <1>1, StepIInv, StepFresh, StepSent DEF Books
<1> SUFFICES EveryReportAccounted'
  BY <1>2 DEF Books
<1>3. CASE UNCHANGED <<handler, ch, kpiMap, post, data, received, lost>>
  BY <1>1, <1>3, BooksUntouched DEF SentFor
<1>4. CASE UNCHANGED vars
  BY <1>3, <1>4 DEF vars, channelVars, postVars
<1>5. ASSUME NEW h \in Handlers, StartReport(h) PROVE EveryReportAccounted'
  <2>1. \A s \in Subdomains : SentFor(handler', s) = SentFor(handler, s)
    BY <1>1, <1>5 DEF TypeOK, StartReport, SentFor
  <2> QED
    BY <1>1, <1>5, <2>1, BooksUntouched DEF StartReport, channelVars, postVars
<1>6. ASSUME NEW h \in Handlers, AdsHandled(h) PROVE EveryReportAccounted'
  BY <1>1, <1>6, SendBooked
<1>7. CASE RecordMetrics
  BY <1>1, <1>7, ReceiptBooked
<1>8. CASE Tick
  BY <1>1, <1>8, ExportBooked, CollectorAssumption DEF Tick, PostToSpare, channelVars
<1>9. CASE StopCollector
  BY <1>1, <1>9, ExportBooked DEF StopCollector, PostToSpare
<1>10. ASSUME NEW i \in Posts, PostMetrics(i) PROVE EveryReportAccounted'
  BY <1>1, <1>10, PostBooked
<1>11. CASE Signal \/ CancelKpi \/ Exit
  BY <1>3, <1>11 DEF Signal, CancelKpi, Exit, channelVars, postVars
<1> QED
  BY <1>4, <1>5, <1>6, <1>7, <1>8, <1>9, <1>10, <1>11 DEF Next


-----------------------------------------------------------------------------
(* Every variable keeps its type; the channel never exceeds its capacity.  *)
THEOREM TypeCorrect == Spec => []TypeOK
<1>1. IInv => TypeOK
  BY DEF IInv
<1> QED
  BY <1>1, InitIInv, StepIInv, PTL DEF Spec

(* A send on the closed channel takes a shutdown that did not wait for the *)
(* requests.                                                               *)
THEOREM NoPanicUnlessForced == Spec => []PanicOnlyWhenForced
<1>1. IInv => PanicOnlyWhenForced
  BY DEF IInv
<1> QED
  BY <1>1, InitIInv, StepIInv, PTL DEF Spec
(* Every report handed over is in exactly one place, at any time, for any  *)
(* number of requests, subdomains and ticks, and whatever becomes of the   *)
(* posts.                                                                  *)
THEOREM ReportsAccounted == Spec => []EveryReportAccounted
<1>1. Books => EveryReportAccounted
  BY DEF Books
<1> QED
  BY <1>1, InitBooks, StepBooks, PTL DEF Spec
=============================================================================
