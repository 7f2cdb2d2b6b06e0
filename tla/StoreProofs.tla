--------------------------- MODULE StoreProofs ----------------------------
(***************************************************************************)
(* Proofs about the Valkey store and the job list, for any number of keys, *)
(* clients, jobs, writers and sizes of page.                               *)
(*                                                                         *)
(* The store.  IndexMatchesRecords says nothing of a key somebody is at    *)
(* work on, so it does not explain why the last one to finish leaves index *)
(* and record in agreement.  The reason is that a client which is still    *)
(* alone has no opposite operation beside it (AloneMeansAlone), and hence  *)
(* that what it wrote to the record is there when it comes to write to the *)
(* index (AloneWritesStand).                                               *)
(*                                                                         *)
(* The job list.  Pages shift while the client reads them, so that         *)
(* WalkComplete says nothing of why no job slips through.  The reason is   *)
(* that a job which is left alone never moves towards the front, as long   *)
(* as nothing leaves the list (WriterOrder): what is still owed to the     *)
(* client lies on the page it asks for, or behind it (OwedAhead), and if   *)
(* it lies behind it the page is full, and the client is given a link.     *)
(* List's errors come down to an entry without a record, which somebody is *)
(* deleting or an operation left behind (EntriesExplained).                *)
(***************************************************************************)
EXTENDS Paging, SequenceTheorems, FiniteSetTheorems, TLAPS

-----------------------------------------------------------------------------
(* The store.                                                              *)

AloneMeansAlone ==
    \A p, q \in Clients :
        alone[p] /\ key[p] = key[q] =>
            ~(\/ pc[p] \in Setting /\ pc[q] \in Deleting
              \/ pc[p] \in Deleting /\ pc[q] \in Setting)

AloneWritesStand ==
    \A p \in Clients : alone[p] =>
        /\ pc[p] \in {"persist", "zadd"} => key[p] \in db
        /\ pc[p] = "zrem" => key[p] \notin db

IInv == TypeOK /\ AloneMeansAlone /\ AloneWritesStand /\ IndexMatchesRecords

-----------------------------------------------------------------------------
(* The initial state is well typed and nobody is at work.                  *)
LEMMA InitIInv == Init => IInv
BY DEF Init, IInv, TypeOK, AloneMeansAlone, AloneWritesStand, IndexMatchesRecords,
       Setting, Deleting

(* Every step keeps the types.                                             *)
LEMMA StepType == TypeOK /\ [Next]_vars => TypeOK'
<1> SUFFICES ASSUME TypeOK, [Next]_vars PROVE TypeOK'
  OBVIOUS
<1> USE DEF TypeOK, valkeyVars, clientVars, historyVars, Setting, Deleting
<1>1. CASE UNCHANGED vars
  BY <1>1 DEF vars
<1>2. ASSUME NEW p \in Clients, NEW k \in Keys, StartSet(p, k) \/ StartDelete(p, k)
      PROVE  TypeOK'
  BY <1>2, StoreAssumption DEF StartSet, StartDelete, Start
<1>3. ASSUME NEW p \in Clients, SetStep(p) PROVE TypeOK'
  BY <1>3 DEF SetStep, SetRecord, Persist, UpdateTimeIndex, Continue, Complete, CutShort, Rest
<1>4. ASSUME NEW p \in Clients, DeleteStep(p) PROVE TypeOK'
  BY <1>4 DEF DeleteStep, DeleteRecord, DeleteFromTimeIndex, Continue, Complete, CutShort, Rest
<1> QED
  BY <1>1, <1>2, <1>3, <1>4 DEF Next

-----------------------------------------------------------------------------
(* A client that starts ends the solitude of those it overlaps.            *)
LEMMA StartInvariant ==
    ASSUME IInv, TypeOK', NEW p \in Clients, NEW k \in Keys,
           StartSet(p, k) \/ StartDelete(p, k)
    PROVE  AloneMeansAlone' /\ AloneWritesStand' /\ IndexMatchesRecords'
<1> USE DEF IInv, TypeOK, StartSet, StartDelete, Start, Working, Setting, Deleting,
            valkeyVars
<1>1. AloneMeansAlone'
  BY DEF AloneMeansAlone
<1>2. AloneWritesStand'
  BY DEF AloneWritesStand
<1>3. IndexMatchesRecords'
  <2> SUFFICES ASSUME NEW j \in Keys, j \notin torn,
                      \A q \in Clients : key'[q] = j => pc'[q] \notin Setting \cup Deleting
               PROVE  j \in index <=> j \in db
    BY DEF IndexMatchesRecords
  <2>1. \A q \in Clients : key[q] = j => pc[q] \notin Setting \cup Deleting
    OBVIOUS
  <2> QED
    BY <2>1 DEF IndexMatchesRecords
<1> QED
  BY <1>1, <1>2, <1>3

(* A command of a client at work leaves the invariant in place.            *)
LEMMA WorkInvariant ==
    ASSUME IInv, TypeOK', NEW p \in Clients, SetStep(p) \/ DeleteStep(p)
    PROVE  AloneMeansAlone' /\ AloneWritesStand' /\ IndexMatchesRecords'
<1> USE DEF IInv, TypeOK, Setting, Deleting, valkeyVars, historyVars
<1>1. /\ \A q \in Clients \ {p} :
            pc'[q] = pc[q] /\ key'[q] = key[q] /\ alone'[q] = alone[q]
      /\ pc'[p] # "idle" => key'[p] = key[p] /\ alone'[p] = alone[p]
      /\ key[p] \in Keys
      /\ \/ pc[p] \in Setting /\ pc'[p] \in Setting \cup {"idle"}
         \/ pc[p] \in Deleting /\ pc'[p] \in Deleting \cup {"idle"}
  BY DEF SetStep, DeleteStep, SetRecord, Persist, UpdateTimeIndex, DeleteRecord,
         DeleteFromTimeIndex, Continue, Complete, CutShort, Rest
<1>2. AloneMeansAlone'
  BY <1>1 DEF AloneMeansAlone
<1>3. AloneWritesStand'
  BY <1>1 DEF AloneMeansAlone, AloneWritesStand, SetStep, DeleteStep, SetRecord, Persist,
              UpdateTimeIndex, DeleteRecord, DeleteFromTimeIndex, Continue, Complete, CutShort, Rest
<1>4. IndexMatchesRecords'
  <2> SUFFICES ASSUME NEW k \in Keys, k \notin torn',
                      \A q \in Clients : key[q] = k => pc'[q] \notin Setting \cup Deleting
               PROVE  k \in index' <=> k \in db'
    BY <1>1, StoreAssumption DEF IndexMatchesRecords, Working
  <2>1. CASE key[p] = k
    <3>1. pc'[p] = "idle"
      BY <1>1, <2>1
    <3>2. /\ alone[p]
          /\ \/ pc[p] = "zadd" /\ index' = index \cup {k} /\ db' = db
             \/ pc[p] = "zrem" /\ index' = index \ {k} /\ db' = db
      BY <2>1, <3>1 DEF SetStep, DeleteStep, SetRecord, Persist, UpdateTimeIndex,
                        DeleteRecord, DeleteFromTimeIndex, Continue, Complete, CutShort, Rest
    <3> QED
      BY <2>1, <3>2 DEF AloneWritesStand
  <2>2. CASE key[p] # k
    <3>1. (k \in index' <=> k \in index) /\ (k \in db' <=> k \in db) /\ k \notin torn
      BY <2>2 DEF SetStep, DeleteStep, SetRecord, Persist, UpdateTimeIndex,
                  DeleteRecord, DeleteFromTimeIndex, Continue, Complete, CutShort, Rest
    <3>2. Working(k, Setting \cup Deleting) = {}
      BY <1>1, <2>2 DEF Working
    <3> QED
      BY <3>1, <3>2 DEF IndexMatchesRecords
  <2> QED
    BY <2>1, <2>2
<1> QED
  BY <1>2, <1>3, <1>4

(* Every step preserves IInv.                                              *)
LEMMA StepIInv == IInv /\ [Next]_vars => IInv'
<1> SUFFICES ASSUME IInv, [Next]_vars PROVE IInv'
  OBVIOUS
<1>1. TypeOK'
  BY StepType DEF IInv
<1>2. CASE UNCHANGED vars
  BY <1>1, <1>2 DEF IInv, AloneMeansAlone, AloneWritesStand, IndexMatchesRecords, Working,
                    vars, valkeyVars, clientVars, historyVars
<1> QED
  BY <1>1, <1>2, StartInvariant, WorkInvariant DEF IInv, Next

(* The index lists exactly the keys with a record, whatever the clients    *)
(* are doing, except for keys in use and keys whose last writes were cut   *)
(* short or met an opposite one.                                           *)
THEOREM IndexCorrect == Spec => []IndexMatchesRecords
<1>1. IInv => IndexMatchesRecords
  BY DEF IInv
<1> QED
  BY <1>1, InitIInv, StepIInv, PTL DEF Spec

-----------------------------------------------------------------------------
(* The job list.                                                           *)

(* The order has the members of the index, each once.                      *)
Ordered == order \in Seq(Keys) /\ IsInjective(order) /\ ToSet(order) = index

-----------------------------------------------------------------------------
(* Arithmetic of ints.                                                     *)

(* The range of a remainder.                                               *)
LEMMA ModRange == \A a \in Int, b \in Nat \ {0} : a % b \in 0 .. b - 1
OBVIOUS

(* What is in the range is its own remainder.                              *)
LEMMA ModSmall == \A b \in Nat \ {0} : \A a \in 0 .. b - 1 : a % b = a
OBVIOUS

(* Wrap gives an int.                                                      *)
LEMMA WrapType == \A n \in Int : Wrap(n) \in -(MaxInt + 1) .. MaxInt
<1> SUFFICES ASSUME NEW n \in Int PROVE Wrap(n) \in -(MaxInt + 1) .. MaxInt
  OBVIOUS
<1>1. MaxInt \in Nat
  BY PagingAssumption
<1>2. 2 * (MaxInt + 1) \in Nat \ {0}
  BY <1>1
<1>3. (n + MaxInt + 1) % (2 * (MaxInt + 1)) \in 0 .. 2 * (MaxInt + 1) - 1
  BY <1>1, <1>2, ModRange
<1> QED
  BY <1>1, <1>3 DEF Wrap

(* An int does not overflow.                                               *)
LEMMA WrapSmall == \A n \in 0 .. MaxInt : Wrap(n) = n
<1> SUFFICES ASSUME NEW n \in 0 .. MaxInt PROVE Wrap(n) = n
  OBVIOUS
<1>1. MaxInt \in Nat
  BY PagingAssumption
<1>2. 2 * (MaxInt + 1) \in Nat \ {0} /\ n + MaxInt + 1 \in 0 .. 2 * (MaxInt + 1) - 1
  BY <1>1
<1>3. (n + MaxInt + 1) % (2 * (MaxInt + 1)) = n + MaxInt + 1
  BY <1>2, ModSmall
<1> QED
  BY <1>1, <1>3 DEF Wrap

(* Max and Min of two numbers.                                             *)
LEMMA Extremes ==
    ASSUME NEW a \in Int, NEW b \in Int
    PROVE  /\ Max({a, b}) = IF a >= b THEN a ELSE b
           /\ Min({a, b}) = IF a <= b THEN a ELSE b
BY DEF Max, Min

(* RemoveAt moves what comes later up one place.                           *)
LEMMA RemoveAtProperties ==
    ASSUME NEW S, NEW s \in Seq(S), NEW i \in 1 .. Len(s)
    PROVE  /\ RemoveAt(s, i) \in Seq(S)
           /\ Len(RemoveAt(s, i)) = Len(s) - 1
           /\ \A j \in 1 .. Len(s) - 1 :
                 RemoveAt(s, i)[j] = IF j < i THEN s[j] ELSE s[j + 1]
<1> DEFINE a == SubSeq(s, 1, i - 1)
           b == SubSeq(s, i + 1, Len(s))
<1>1. /\ Len(s) \in Nat /\ i \in Int
      /\ \A j \in 1 .. Len(s) : s[j] \in S
  BY LenProperties
<1>2. a \in Seq(S) /\ Len(a) = i - 1 /\ \A j \in 1 .. i - 1 : a[j] = s[j]
  BY <1>1, SubSeqProperties, i - 1 \in Int
<1>3. b \in Seq(S) /\ Len(b) = Len(s) - i /\ \A j \in 1 .. Len(s) - i : b[j] = s[j + i]
  BY <1>1, SubSeqProperties, i + 1 \in Int
<1>4. /\ a \o b \in Seq(S)
      /\ Len(a \o b) = Len(a) + Len(b)
      /\ \A j \in 1 .. Len(a) + Len(b) :
            (a \o b)[j] = IF j <= Len(a) THEN a[j] ELSE b[j - Len(a)]
  BY <1>2, <1>3, ConcatProperties
<1> HIDE DEF a, b
<1>5. ASSUME NEW j \in 1 .. Len(s) - 1
      PROVE  (a \o b)[j] = IF j < i THEN s[j] ELSE s[j + 1]
  <2>1. CASE j < i
    BY <1>1, <1>2, <1>3, <1>4, <2>1
  <2>2. CASE ~(j < i)
    <3>1. j - (i - 1) \in 1 .. Len(s) - i /\ (j - (i - 1)) + i = j + 1
      BY <1>1, <2>2
    <3>2. (a \o b)[j] = b[j - (i - 1)]
      BY <1>1, <1>2, <1>3, <1>4, <2>2
    <3> QED
      BY <1>3, <2>2, <3>1, <3>2
  <2> QED
    BY <2>1, <2>2
<1>6. RemoveAt(s, i) = a \o b
  BY DEF RemoveAt, a, b
<1>7. Len(a \o b) = Len(s) - 1
  BY <1>1, <1>2, <1>3, <1>4
<1> QED
  BY <1>4, <1>5, <1>6, <1>7
-----------------------------------------------------------------------------
(* What the writers do to the order.                                       *)

(* Taking a key out of the order moves the others up one place at most.    *)
LEMMA WithoutProperties ==
    ASSUME Ordered, NEW k \in Keys
    PROVE  /\ Without(k) \in Seq(Keys) /\ IsInjective(Without(k))
           /\ ToSet(Without(k)) = index \ {k}
           /\ \A j \in DOMAIN order : order[j] # k =>
                 \E m \in DOMAIN Without(k) : Without(k)[m] = order[j] /\ m >= j - 1
           /\ k \notin index => Without(k) = order
<1>1. /\ Len(order) \in Nat /\ DOMAIN order = 1 .. Len(order)
      /\ \A j \in 1 .. Len(order) : order[j] \in Keys
  BY LenProperties DEF Ordered
<1>2. CASE k \notin index
  <2>1. Without(k) = order
    BY <1>2 DEF Without
  <2> QED
    BY <1>1, <1>2, <2>1 DEF Ordered
<1>3. CASE k \in index
  <2> DEFINE i == CHOOSE n \in DOMAIN order : order[n] = k
             t == RemoveAt(order, i)
  <2>1. i \in 1 .. Len(order) /\ order[i] = k
    BY <1>1, <1>3 DEF Ordered, ToSet
  <2>2. Without(k) = t
    BY <1>3 DEF Without
  <2> HIDE DEF i
  <2>3. /\ t \in Seq(Keys) /\ Len(t) = Len(order) - 1
        /\ \A j \in 1 .. Len(order) - 1 : t[j] = IF j < i THEN order[j] ELSE order[j + 1]
    BY <2>1, RemoveAtProperties DEF Ordered
  <2> HIDE DEF t
  <2>4. DOMAIN t = 1 .. Len(order) - 1
    BY <2>3, LenProperties
  <2>5. IsInjective(t)
    BY <1>1, <2>1, <2>3, <2>4 DEF Ordered, IsInjective
  <2>6. ASSUME NEW j \in DOMAIN order, order[j] # k
        PROVE  \E m \in DOMAIN t : t[m] = order[j] /\ m >= j - 1
    <3>1. CASE j < i
      <4>1. j \in DOMAIN t /\ t[j] = order[j]
        BY <1>1, <2>1, <2>3, <2>4, <3>1
      <4> QED
        BY <1>1, <4>1
    <3>2. CASE j > i
      <4>1. j - 1 \in DOMAIN t /\ ~(j - 1 < i) /\ (j - 1) + 1 = j
        BY <1>1, <2>1, <2>3, <2>4, <3>2
      <4>2. t[j - 1] = order[j]
        BY <2>3, <2>4, <4>1
      <4> QED
        BY <1>1, <4>1, <4>2
    <3> QED
      BY <1>1, <2>1, <2>6, <3>1, <3>2
  <2>7. ToSet(t) = index \ {k}
    <3>1. \A m \in DOMAIN t : t[m] \in index \ {k}
      BY <1>1, <2>1, <2>3, <2>4 DEF Ordered, ToSet, IsInjective
    <3>2. \A x \in index \ {k} : \E m \in DOMAIN t : t[m] = x
      BY <2>6 DEF Ordered, ToSet
    <3> QED
      BY <3>1, <3>2 DEF ToSet
  <2> QED
    BY <1>3, <2>2, <2>3, <2>5, <2>6, <2>7
<1> QED
  BY <1>2, <1>3

(* Moving a key to the front moves none of the others forward.             *)
LEMMA FrontProperties ==
    ASSUME Ordered, NEW k \in Keys
    PROVE  LET t == <<k>> \o Without(k)
           IN  /\ t \in Seq(Keys) /\ IsInjective(t) /\ ToSet(t) = index \cup {k}
               /\ \A j \in DOMAIN order : order[j] # k =>
                     \E m \in DOMAIN t : t[m] = order[j] /\ m >= j
<1> DEFINE w == Without(k)
           t == <<k>> \o w
<1>1. /\ w \in Seq(Keys) /\ IsInjective(w) /\ ToSet(w) = index \ {k}
      /\ \A j \in DOMAIN order : order[j] # k =>
            \E m \in DOMAIN w : w[m] = order[j] /\ m >= j - 1
  BY WithoutProperties
<1> HIDE DEF w
<1>2. /\ DOMAIN w = 1 .. Len(w) /\ Len(w) \in Nat
      /\ DOMAIN order = 1 .. Len(order) /\ Len(order) \in Nat
  BY <1>1, LenProperties DEF Ordered
<1>3. <<k>> \in Seq(Keys) /\ Len(<<k>>) = 1 /\ <<k>>[1] = k
  OBVIOUS
<1>4. /\ t \in Seq(Keys) /\ Len(t) = 1 + Len(w)
      /\ \A i \in 1 .. 1 + Len(w) : t[i] = IF i <= 1 THEN <<k>>[i] ELSE w[i - 1]
  BY <1>1, <1>3, ConcatProperties
<1> HIDE DEF t
<1>5. DOMAIN t = 1 .. 1 + Len(w)
  BY <1>4, LenProperties
<1>6. t[1] = k /\ \A i \in 2 .. 1 + Len(w) : t[i] = w[i - 1] /\ i - 1 \in DOMAIN w
  BY <1>2, <1>3, <1>4
<1>7. \A m \in DOMAIN w : m + 1 \in DOMAIN t /\ t[m + 1] = w[m]
  <2> SUFFICES ASSUME NEW m \in DOMAIN w PROVE m + 1 \in DOMAIN t /\ t[m + 1] = w[m]
    OBVIOUS
  <2>1. m + 1 \in 2 .. 1 + Len(w) /\ (m + 1) - 1 = m
    BY <1>2
  <2> QED
    BY <1>2, <1>5, <1>6, <2>1
<1>8. \A m \in DOMAIN w : w[m] # k
  BY <1>1 DEF ToSet
<1>9. IsInjective(t)
  <2> SUFFICES ASSUME NEW a \in DOMAIN t, NEW b \in DOMAIN t, t[a] = t[b] PROVE a = b
    BY DEF IsInjective
  <2>1. CASE a = 1 \/ b = 1
    BY <1>2, <1>5, <1>6, <1>8, <2>1
  <2>2. CASE a # 1 /\ b # 1
    <3>1. a \in 2 .. 1 + Len(w) /\ b \in 2 .. 1 + Len(w)
      BY <1>2, <1>5, <2>2
    <3>2. a - 1 = b - 1
      BY <1>1, <1>6, <3>1 DEF IsInjective
    <3> QED
      BY <3>1, <3>2
  <2> QED
    BY <2>1, <2>2
<1>10. ToSet(t) = index \cup {k}
  <2>1. \A i \in DOMAIN t : t[i] \in index \cup {k}
    <3> SUFFICES ASSUME NEW i \in DOMAIN t PROVE t[i] \in index \cup {k}
      OBVIOUS
    <3>1. i = 1 \/ i \in 2 .. 1 + Len(w)
      BY <1>2, <1>5
    <3> QED
      BY <1>1, <1>6, <3>1 DEF ToSet
  <2>2. \A x \in index \cup {k} : \E i \in DOMAIN t : t[i] = x
    <3> SUFFICES ASSUME NEW x \in index \cup {k} PROVE \E i \in DOMAIN t : t[i] = x
      OBVIOUS
    <3>1. CASE x = k
      BY <1>2, <1>5, <1>6, <3>1, 1 \in DOMAIN t
    <3>2. CASE x # k
      BY <1>1, <1>7, <3>2 DEF ToSet
    <3> QED
      BY <3>1, <3>2
  <2> QED
    BY <2>1, <2>2 DEF ToSet
<1>11. ASSUME NEW j \in DOMAIN order, order[j] # k
       PROVE  \E m \in DOMAIN t : t[m] = order[j] /\ m >= j
  <2>1. PICK n \in DOMAIN w : w[n] = order[j] /\ n >= j - 1
    BY <1>1, <1>11
  <2>2. n + 1 \in DOMAIN t /\ t[n + 1] = order[j] /\ n + 1 >= j
    BY <1>2, <1>7, <2>1
  <2> QED
    BY <2>2
<1> QED
  BY <1>4, <1>9, <1>10, <1>11 DEF t, w
-----------------------------------------------------------------------------
(* What ZREVRANGE gives.                                                   *)

(* There are not more entries than keys.                                   *)
LEMMA ShortOrder ==
    ASSUME Ordered
    PROVE  Len(order) \in Nat /\ Cardinality(Keys) \in Nat /\ Len(order) <= Cardinality(Keys)
<1>1. Len(order) \in Nat /\ order \in [1 .. Len(order) -> Keys]
  BY LenProperties DEF Ordered
<1>2. order \in Injection(1 .. Len(order), Keys)
  BY <1>1 DEF Ordered, Injection, IsInjective
<1>3. IsFiniteSet(Keys) /\ Cardinality(Keys) \in Nat
  BY PagingAssumption, FS_CardinalityType
<1>4. Cardinality(1 .. Len(order)) <= Cardinality(Keys)
  BY <1>2, <1>3, FS_Injection
<1>5. Cardinality(1 .. Len(order)) = Len(order)
  BY <1>1, FS_Interval
<1> QED
  BY <1>1, <1>3, <1>4, <1>5

(* What is needed of page * size.                                          *)
LEMMA Products ==
    \A p \in Nat, n \in Nat \ {0} :
        /\ p * n \in Nat /\ p * n >= p
        /\ (p + 1) * n = p * n + n
        /\ p = 0 => p * n = 0
        /\ p # 0 => p * n >= n
OBVIOUS

(* It is a number, whatever page is.                                       *)
LEMMA ProductType == \A p \in Int, n \in Int : p * n \in Int
OBVIOUS

(* ZREVRANGE gives entries of the list, none past its end, and from a      *)
(* start within the list it leaves out nothing up to the stop.             *)
LEMMA ZrevrangeProperties ==
    ASSUME Ordered, NEW start \in Int, NEW stop \in Int
    PROVE  LET t == Zrevrange(order, start, stop)
           IN  /\ t \in Seq(Keys) /\ ToSet(t) \subseteq index
               /\ start >= Len(order) => t = <<>>
               /\ 0 <= start /\ start <= stop => \A i \in DOMAIN order :
                     i > start => \/ order[i] \in ToSet(t)
                                  \/ Len(t) = stop - start + 1 /\ i > stop + 1
<1> DEFINE fromFront(i) == IF i < 0 THEN Len(order) + i ELSE i
           first == fromFront(start)
           last == fromFront(stop) + 1
           a == Max({first, 0}) + 1
           b == Min({last, Len(order)})
           t == SubSeq(order, a, b)
<1>1. Len(order) \in Nat /\ DOMAIN order = 1 .. Len(order)
      /\ \A i \in 1 .. Len(order) : order[i] \in Keys
  BY LenProperties DEF Ordered
<1>2. /\ first \in Int /\ last \in Int
      /\ start >= 0 => first = start
      /\ stop >= 0 => last = stop + 1
  BY <1>1
<1>5. Zrevrange(order, start, stop) = t
  BY DEF Zrevrange
<1> HIDE DEF first, last
<1>3. /\ a = IF first >= 0 THEN first + 1 ELSE 1
      /\ b = IF last <= Len(order) THEN last ELSE Len(order)
  <2>1. Max({first, 0}) = IF first >= 0 THEN first ELSE 0
    BY <1>2, Extremes
  <2>2. b = IF last <= Len(order) THEN last ELSE Len(order)
    <3>1. last \in Int /\ Len(order) \in Int
      BY <1>1, <1>2
    <3> QED
      BY <3>1, Extremes
  <2>3. a = IF first >= 0 THEN first + 1 ELSE 1
    BY <1>2, <2>1
  <2> QED
    BY <2>2, <2>3
<1>4. a \in Int /\ b \in Int /\ a >= 1 /\ b <= Len(order)
  BY <1>1, <1>2, <1>3
<1>6. start >= Len(order) => b < a
  BY <1>1, <1>2, <1>3
<1>7. 0 <= start /\ start <= stop =>
         a = start + 1 /\ b = IF stop + 1 <= Len(order) THEN stop + 1 ELSE Len(order)
  BY <1>1, <1>2, <1>3
<1> HIDE DEF a, b
<1>8. \A i \in a .. b : i \in 1 .. Len(order) /\ order[i] \in Keys
  BY <1>1, <1>4
<1>9. /\ t \in Seq(Keys)
      /\ Len(t) = IF a <= b THEN b - a + 1 ELSE 0
      /\ \A i \in 1 .. b - a + 1 : t[i] = order[a + i - 1]
  BY <1>4, <1>8, SubSeqProperties
<1>10. b < a => t = <<>>
  BY <1>4, SubSeqEmpty
<1> HIDE DEF t
<1>11. DOMAIN t = 1 .. Len(t)
  BY <1>9, LenProperties
<1>12. ToSet(t) \subseteq index
  <2> SUFFICES ASSUME NEW i \in DOMAIN t PROVE t[i] \in index
    BY DEF ToSet
  <2>1. i \in 1 .. b - a + 1 /\ a + i - 1 \in 1 .. Len(order)
    BY <1>1, <1>4, <1>9, <1>11
  <2>2. t[i] = order[a + i - 1]
    BY <1>9, <2>1
  <2> QED
    BY <1>1, <2>1, <2>2 DEF Ordered, ToSet
<1>13. ASSUME 0 <= start, start <= stop, NEW i \in DOMAIN order, i > start
       PROVE  \/ order[i] \in ToSet(t)
              \/ Len(t) = stop - start + 1 /\ i > stop + 1
  <2>0. /\ i \in Int /\ i <= Len(order) /\ start < i /\ start <= stop
        /\ a = start + 1 /\ b = IF stop + 1 <= Len(order) THEN stop + 1 ELSE Len(order)
    BY <1>1, <1>7, <1>13
  <2>1. CASE i <= b
    <3>1. i - start \in 1 .. b - a + 1 /\ a + (i - start) - 1 = i
      BY <1>4, <2>0, <2>1
    <3>2. t[i - start] = order[i]
      BY <1>9, <3>1
    <3>3. i - start \in DOMAIN t
      BY <1>4, <1>9, <1>11, <3>1
    <3> QED
      BY <3>2, <3>3 DEF ToSet
  <2>2. CASE i > b
    <3>1. stop + 1 <= Len(order) /\ b = stop + 1
      <4>1. Len(order) \in Nat /\ stop + 1 \in Int
        BY <1>1
      <4>2. CASE ~(stop + 1 <= Len(order))
        BY <2>0, <2>2, <4>1, <4>2
      <4> QED
        BY <2>0, <4>2
    <3>2. a <= b
      BY <1>4, <2>0, <3>1
    <3>3. Len(t) = b - a + 1
      BY <1>9, <3>2
    <3> QED
      BY <1>4, <2>0, <2>2, <3>1, <3>3
  <2> QED
    BY <1>4, <2>0, <2>1, <2>2
<1> QED
  BY <1>5, <1>6, <1>9, <1>10, <1>12, <1>13

(* A page leaves out nothing but what comes before it, or after a full one.*)
LEMMA PageProperties ==
    ASSUME Ordered, page \in Int, size \in 1 .. MaxInt
    PROVE  LET t == PageOf(order, page, size)
           IN  /\ t \in Seq(Keys) /\ ToSet(t) \subseteq index
               /\ page * size \in Cardinality(Keys) .. MaxInt => t = <<>>
               /\ page >= 0 => \A i \in DOMAIN order :
                     i > page * size => \/ order[i] \in ToSet(t)
                                        \/ Len(t) = size /\ i > page * size + size
<1> DEFINE start == Wrap(page * size)
           stop == Wrap(start + size - 1)
           t == Zrevrange(order, start, stop)
<1>1. MaxInt \in Nat /\ 2 * Cardinality(Keys) < MaxInt
      /\ Len(order) \in Nat /\ Cardinality(Keys) \in Nat /\ Len(order) <= Cardinality(Keys)
  BY PagingAssumption, ShortOrder
<1>2. page * size \in Int
  BY <1>1, ProductType
<1>3. start \in -(MaxInt + 1) .. MaxInt
  BY <1>2, WrapType
<1>4. start \in Int /\ start + size - 1 \in Int
  BY <1>1, <1>3
<1>5. stop \in Int
  BY <1>1, <1>4, WrapType
<1>6. page * size \in 0 .. MaxInt => start = page * size
  BY WrapSmall
<1>7. start + size - 1 \in 0 .. MaxInt => stop = start + size - 1
  BY WrapSmall
<1>8. PageOf(order, page, size) = t
  BY DEF PageOf
<1> HIDE DEF start, stop
<1>9. /\ t \in Seq(Keys) /\ ToSet(t) \subseteq index
      /\ start >= Len(order) => t = <<>>
      /\ 0 <= start /\ start <= stop => \A i \in DOMAIN order :
            i > start => \/ order[i] \in ToSet(t)
                         \/ Len(t) = stop - start + 1 /\ i > stop + 1
  BY <1>4, <1>5, ZrevrangeProperties
<1> HIDE DEF t
<1>10. page * size \in Cardinality(Keys) .. MaxInt => t = <<>>
  <2> HAVE page * size \in Cardinality(Keys) .. MaxInt
  <2>1. start >= Len(order)
    BY <1>1, <1>2, <1>6
  <2> QED
    BY <1>9, <2>1
<1>11. ASSUME page >= 0, NEW i \in DOMAIN order, i > page * size
       PROVE  \/ order[i] \in ToSet(t)
              \/ Len(t) = size /\ i > page * size + size
  <2>1. i \in 1 .. Len(order)
    BY LenProperties DEF Ordered
  <2>2. /\ page * size \in Nat
        /\ page = 0 => page * size = 0
        /\ page # 0 => page * size >= size
    BY <1>1, <1>11, Products
  <2>3. start = page * size
    BY <1>1, <1>6, <1>11, <2>1, <2>2
  <2>4. start + size - 1 \in 0 .. MaxInt
    BY <1>1, <1>4, <1>11, <2>1, <2>2, <2>3
  <2>5. stop = start + size - 1
    BY <1>7, <2>4
  <2>6. 0 <= start /\ start <= stop /\ stop - start + 1 = size /\ stop + 1 = page * size + size
    BY <1>1, <1>4, <2>2, <2>3, <2>5
  <2> QED
    BY <1>9, <1>11, <2>3, <2>6
<1> QED
  BY <1>8, <1>9, <1>10, <1>11
-----------------------------------------------------------------------------
(* The invariant.                                                          *)

(* A listed key without a record is being deleted, or torn.                *)
EntriesExplained == \A k \in index \ db : k \in torn \/ Working(k, Deleting) # {}

(* A key of the page that has lost its record is known to be gone.         *)
LossesKnown ==
    /\ at = "mget" => ToSet(keys) \ db \subseteq gone
    /\ ListFailsOnlyForGone

(* Key k is in the list, after the first n.                                *)
Behind(k, n) == \E i \in DOMAIN order : order[i] = k /\ i > n

(* What is owed to the client is on the page it asks for, or comes after.  *)
OwedAhead ==
    /\ at \in Reading => page >= 0
    /\ at = "zrevrange" => \A k \in owed : Behind(k, page * size)
    /\ at = "mget" => \A k \in owed :
          k \in ToSet(keys) \/ (Len(keys) = size /\ Behind(k, page * size + size))
    /\ WalkComplete

PagingInv ==
    /\ IInv
    /\ PagingTypeOK
    /\ EntriesExplained
    /\ LossesKnown
    /\ OwedAhead
    /\ FarPagesEmpty

(* Nothing has been asked yet.                                             *)
LEMMA InitPagingInv == PagingInit => PagingInv
<1> SUFFICES ASSUME PagingInit PROVE PagingInv
  OBVIOUS
<1>1. IInv
  BY InitIInv DEF PagingInit
<1>2. MaxInt \in Nat /\ 2 * Cardinality(Keys) < MaxInt /\ Cardinality(Keys) \in Nat
  BY PagingAssumption, FS_CardinalityType
<1>3. <<>> \in Seq(Keys) /\ IsInjective(<<>>) /\ ToSet(<<>>) = {}
  BY DEF IsInjective, ToSet
<1>4. PagingTypeOK
  BY <1>1, <1>2, <1>3 DEF PagingInit, Init, IInv, PagingTypeOK, Reading, Ended
<1> QED
  BY <1>1, <1>4 DEF PagingInit, Init, PagingInv, EntriesExplained, LossesKnown, OwedAhead, Reading,
                    ListFailsOnlyForGone, WalkComplete, FarPagesEmpty

-----------------------------------------------------------------------------
(* The writers.                                                            *)

(* The writers are those of ValkeyStore.                                   *)
LEMMA WriterNext == ASSUME NEW p \in Clients, WriterStep(p) PROVE Next
BY DEF WriterStep, Zadd, Zrem, Next, SetStep, DeleteStep

(* No entry leaves the order unless it leaves the index, and those a Set   *)
(* leaves alone do not move forward.                                       *)
LEMMA WriterOrder ==
    ASSUME Ordered, TypeOK, NEW p \in Clients, WriterStep(p)
    PROVE  /\ Ordered'
           /\ index \subseteq index' => \A j \in DOMAIN order :
                 (order[j] = key[p] /\ pc[p] = "zadd") \/
                    \E m \in DOMAIN order' : order'[m] = order[j] /\ m >= j
<1>1. DOMAIN order \subseteq Nat
  BY LenProperties DEF Ordered
<1>2. CASE order' = order /\ index' = index
  BY <1>1, <1>2 DEF Ordered
<1>3. CASE Zadd(p) /\ order' = <<key[p]>> \o Without(key[p]) /\ key[p] \in index'
  <2>1. key[p] \in Keys /\ pc[p] = "zadd"
    BY <1>3 DEF TypeOK, Zadd, UpdateTimeIndex
  <2>2. index' = index \cup {key[p]}
    BY <1>3 DEF Zadd, UpdateTimeIndex
  <2> QED
    BY <1>3, <2>1, <2>2, FrontProperties DEF Ordered
<1>4. CASE Zrem(p) /\ order' = Without(key[p]) /\ key[p] \notin index'
  <2>1. key[p] \in Keys
    BY <1>4 DEF TypeOK, Zrem, DeleteFromTimeIndex
  <2>2. index' = index \ {key[p]}
    BY <1>4 DEF Zrem, DeleteFromTimeIndex
  <2>3. Ordered'
    BY <1>4, <2>1, <2>2, WithoutProperties DEF Ordered
  <2>4. index \subseteq index' => order' = order
    BY <1>4, <2>1, WithoutProperties
  <2> QED
    BY <1>1, <2>3, <2>4
<1>5. CASE Zrem(p) /\ order' = order /\ key[p] \in index'
  BY <1>1, <1>5 DEF Ordered, Zrem, DeleteFromTimeIndex
<1> QED
  BY <1>2, <1>3, <1>4, <1>5
     DEF WriterStep, Zadd, Zrem, StartSet, StartDelete, Start, SetRecord, Persist, DeleteRecord,
         valkeyVars

(* Writers leave no entry without a record behind, but for a torn key.     *)
LEMMA WriterEntries ==
    ASSUME IInv, EntriesExplained, NEW p \in Clients, WriterStep(p)
    PROVE  EntriesExplained'
<1> SUFFICES ASSUME NEW k \in index' \ db', k \notin torn'
             PROVE  \E q \in Clients : pc'[q] \in Deleting /\ key'[q] = k
  BY DEF EntriesExplained, Working
<1> USE DEF IInv, TypeOK, Continue, Complete, CutShort, Rest, valkeyVars, historyVars
<1>1. CASE k \in index \ db /\ k \notin torn
  <2>1. PICK q \in Clients : pc[q] \in Deleting /\ key[q] = k
    BY <1>1 DEF EntriesExplained, Working
  <2>2. CASE \E j \in Keys : StartSet(p, j) \/ StartDelete(p, j)
    BY <2>1, <2>2 DEF StartSet, StartDelete, Start, Deleting
  <2>3. CASE SetRecord(p) \/ Persist(p) \/ Zadd(p)
    BY <2>1, <2>3 DEF SetRecord, Persist, Zadd, UpdateTimeIndex, Deleting
  <2>4. CASE DeleteRecord(p)
    BY <2>1, <2>4 DEF DeleteRecord, Deleting
  <2>5. CASE Zrem(p)
    BY <2>1, <2>5 DEF Zrem, DeleteFromTimeIndex, Deleting
  <2> QED
    BY <2>2, <2>3, <2>4, <2>5 DEF WriterStep
<1>2. CASE k \notin index
  BY <1>2 DEF WriterStep, StartSet, StartDelete, Start, SetRecord, Persist, DeleteRecord, Zadd,
              Zrem, UpdateTimeIndex, DeleteFromTimeIndex, AloneWritesStand
<1>3. CASE k \in index /\ k \in db
  BY <1>3 DEF WriterStep, StartSet, StartDelete, Start, SetRecord, Persist, DeleteRecord, Zadd,
              Zrem, UpdateTimeIndex, DeleteFromTimeIndex, Deleting
<1>4. CASE k \in index /\ k \notin db /\ k \in torn
  BY <1>4 DEF WriterStep, StartSet, StartDelete, Start, SetRecord, Persist, DeleteRecord, Zadd,
              Zrem, UpdateTimeIndex, DeleteFromTimeIndex, AloneWritesStand
<1> QED
  BY <1>1, <1>2, <1>3, <1>4

(* A step of a writer preserves the invariant.                             *)
LEMMA WriteInvariant ==
    ASSUME PagingInv, NEW p \in Clients, Write(p)
    PROVE  PagingInv'
<1> USE DEF PagingInv
<1>1. IInv'
  BY WriterNext, StepIInv DEF Write
<1>2. TypeOK /\ TypeOK' /\ Ordered
  BY <1>1 DEF IInv, PagingTypeOK, Ordered
<1>3. /\ Ordered'
      /\ index \subseteq index' => \A j \in DOMAIN order :
            (order[j] = key[p] /\ pc[p] = "zadd") \/
               \E m \in DOMAIN order' : order'[m] = order[j] /\ m >= j
  BY <1>2, WriterOrder DEF Write
<1>4. /\ at' = at /\ page' = page /\ size' = size /\ keys' = keys
      /\ pc[p] \in {"idle"} \cup Setting \cup Deleting
  BY <1>2 DEF Write, TypeOK
<1>5. db \ db' \subseteq {k \in {key[p]} : pc[p] = "del"}
  BY DEF Write, WriterStep, StartSet, StartDelete, Start, SetRecord, Persist, DeleteRecord,
         Zadd, Zrem, UpdateTimeIndex, DeleteFromTimeIndex, valkeyVars
<1>6. PagingTypeOK'
  <2>1. owed' \subseteq index' \cap db'
    BY <1>5 DEF Write, Watch, PagingTypeOK
  <2>2. gone' \subseteq Keys
    BY DEF Write, Watch, PagingTypeOK, ToSet
  <2> QED
    BY <1>2, <1>3, <1>4, <2>1, <2>2 DEF PagingTypeOK, Ordered
<1>7. EntriesExplained'
  BY WriterEntries DEF Write
<1>8. LossesKnown'
  <2>1. gone \subseteq gone'
    BY DEF Write, Watch
  <2>2. ASSUME NEW k \in ToSet(keys), k \in db, k \notin db' PROVE k \in gone'
    BY <1>5, <2>2 DEF Write, Watch
  <2> QED
    BY <1>4, <2>1, <2>2 DEF LossesKnown, ListFailsOnlyForGone
<1>9. OwedAhead'
  <2>1. ASSUME NEW k \in owed', NEW n \in Int, Behind(k, n)
        PROVE  Behind(k, n)'
    <3>1. PICK j \in DOMAIN order : order[j] = k /\ j > n
      BY <2>1 DEF Behind
    <3>2. index \subseteq index' /\ ~(k = key[p] /\ pc[p] = "zadd")
      BY DEF Write, Watch
    <3>3. PICK m \in DOMAIN order' : order'[m] = k /\ m >= j
      BY <1>3, <3>1, <3>2
    <3>4. j \in Nat /\ m \in Nat
      BY <1>2, <1>3, LenProperties DEF Ordered
    <3> QED
      BY <3>1, <3>3, <3>4 DEF Behind
  <2>2. page \in Int /\ size \in Int /\ page * size \in Int /\ page * size + size \in Int
    BY ProductType, PagingAssumption DEF PagingTypeOK
  <2>3. owed' \subseteq owed
    BY DEF Write, Watch
  <2> QED
    BY <1>4, <2>1, <2>2, <2>3 DEF OwedAhead, WalkComplete
<1>10. FarPagesEmpty'
  BY <1>4 DEF FarPagesEmpty
<1> QED
  BY <1>1, <1>6, <1>7, <1>8, <1>9, <1>10

-----------------------------------------------------------------------------
(* The client.                                                             *)

(* What holds of the store goes on to hold while the client is at work.    *)
LEMMA StoreUntouched ==
    ASSUME PagingInv, UNCHANGED <<vars, order>>
    PROVE  IInv' /\ Ordered' /\ EntriesExplained'
<1>1. IInv'
  BY StepIInv DEF PagingInv
<1> QED
  BY <1>1 DEF PagingInv, PagingTypeOK, Ordered, EntriesExplained, Working, vars, valkeyVars,
              clientVars, historyVars

(* The client's first request preserves it.                                *)
LEMMA BeginInvariant ==
    ASSUME PagingInv, NEW query \in Queries, BeginWalk(query[1], query[2])
    PROVE  PagingInv'
<1> USE DEF PagingInv, BeginWalk
<1>1. IInv' /\ Ordered' /\ EntriesExplained'
  BY StoreUntouched
<1>2. MaxInt \in Nat /\ query[1] \in 0 .. MaxInt /\ query[2] \in 1 .. MaxInt
  BY PagingAssumption
<1>3. <<>> \in Seq(Keys) /\ ToSet(<<>>) = {}
  BY DEF ToSet
<1>4. query[1] * query[2] \in Nat
  BY <1>2, Products
<1>5. \A k \in owed' : k \in index' \cap db' /\ Behind(k, page * size)'
  <2> SUFFICES ASSUME NEW k \in owed' PROVE k \in index' \cap db' /\ Behind(k, page * size)'
    OBVIOUS
  <2>1. Len(order) \in Nat /\ DOMAIN order = 1 .. Len(order) /\ ToSet(order) = index
    BY LenProperties DEF PagingTypeOK
  <2>2. PICK i \in query[1] * query[2] + 1 .. Len(order) : order[i] = k
    OBVIOUS
  <2>3. i \in DOMAIN order /\ i > query[1] * query[2]
    BY <1>4, <2>1
  <2>4. k \in index
    BY <2>1, <2>2, <2>3 DEF ToSet
  <2> QED
    BY <2>2, <2>3, <2>4 DEF Behind, vars, valkeyVars
<1>6. PagingTypeOK'
  BY <1>1, <1>2, <1>3, <1>5 DEF PagingTypeOK, Ordered, IInv, Reading
<1> QED
  BY <1>1, <1>2, <1>5, <1>6 DEF LossesKnown, ListFailsOnlyForGone, OwedAhead,
                                      WalkComplete, FarPagesEmpty, Reading

(* So does reading the index,                                              *)
LEMMA ReadIndexInvariant ==
    ASSUME PagingInv, ReadIndex
    PROVE  PagingInv'
<1> USE DEF PagingInv, ReadIndex
<1>1. IInv' /\ Ordered' /\ EntriesExplained'
  BY StoreUntouched
<1>2. Ordered /\ page \in Int /\ size \in 1 .. MaxInt /\ page >= 0
  BY PagingAssumption DEF PagingTypeOK, Ordered, OwedAhead, Reading
<1>3. /\ keys' \in Seq(Keys) /\ ToSet(keys') \subseteq index
      /\ page * size \in Cardinality(Keys) .. MaxInt => keys' = <<>>
      /\ \A i \in DOMAIN order : i > page * size =>
            order[i] \in ToSet(keys') \/ (Len(keys') = size /\ i > page * size + size)
  <2> DEFINE t == PageOf(order, page, size)
  <2>1. /\ t \in Seq(Keys) /\ ToSet(t) \subseteq index
        /\ page * size \in Cardinality(Keys) .. MaxInt => t = <<>>
        /\ \A i \in DOMAIN order : i > page * size =>
              order[i] \in ToSet(t) \/ (Len(t) = size /\ i > page * size + size)
    BY <1>2, PageProperties
  <2>2. keys' = t
    OBVIOUS
  <2> HIDE DEF t
  <2> QED
    BY <2>1, <2>2
<1>4. gone' \subseteq Keys
  BY <1>3 DEF IInv, TypeOK
<1>5. PagingTypeOK'
  BY <1>1, <1>3, <1>4 DEF PagingTypeOK, Ordered, IInv, Reading, vars, valkeyVars
<1>6. LossesKnown'
  <2> SUFFICES ASSUME NEW k \in ToSet(keys') \ db PROVE k \in gone'
    BY DEF LossesKnown, ListFailsOnlyForGone, vars, valkeyVars
  <2>1. k \in torn \/ \E p \in Clients : pc[p] \in Deleting /\ key[p] = k
    BY <1>3 DEF EntriesExplained, Working
  <2> QED
    BY <2>1
<1>7. OwedAhead'
  <2>1. ASSUME NEW k \in owed
        PROVE  \/ k \in ToSet(keys')
               \/ Len(keys') = size /\ Behind(k, page * size + size)'
    <3>1. PICK i \in DOMAIN order : order[i] = k /\ i > page * size
      BY DEF OwedAhead, Behind
    <3> QED
      BY <1>3, <3>1 DEF Behind
  <2>2. at' = "mget" /\ owed' = owed /\ page' = page /\ size' = size
    OBVIOUS
  <2> QED
    BY <1>2, <2>1, <2>2 DEF OwedAhead, WalkComplete, Behind
<1>8. FarPagesEmpty'
  BY <1>3 DEF FarPagesEmpty
<1> QED
  BY <1>1, <1>5, <1>6, <1>7, <1>8

(* reading the records and following the link,                             *)
LEMMA ReadRecordsInvariant ==
    ASSUME PagingInv, ReadRecords
    PROVE  PagingInv'
<1> USE DEF PagingInv
<1>1. UNCHANGED <<vars, order>> /\ size' = size
  BY DEF ReadRecords, GiveUp, Show
<1>2. IInv' /\ Ordered' /\ EntriesExplained'
  BY <1>1, StoreUntouched
<1>3. MaxInt \in Nat /\ page \in Int /\ page >= 0 /\ size \in 1 .. MaxInt /\ at = "mget"
      /\ keys \in Seq(Keys) /\ DOMAIN keys = 1 .. Len(keys) /\ Len(keys) \in Nat
  BY LenProperties, PagingAssumption DEF PagingTypeOK, OwedAhead, ReadRecords, Reading
<1>4. <<>> \in Seq(Keys)
  OBVIOUS
<1>5. CASE MGetFails /\ GiveUp
  <2>1. PagingTypeOK'
    BY <1>2, <1>5 DEF GiveUp, PagingTypeOK, IInv, Ordered, Ended
  <2>2. Last(keys) \in gone
    BY <1>3, <1>5 DEF MGetFails, LossesKnown, Last, ToSet
  <2> QED
    BY <1>2, <1>5, <2>1, <2>2 DEF GiveUp, LossesKnown, ListFailsOnlyForGone, OwedAhead, Reading,
                                  WalkComplete, FarPagesEmpty
<1>6. ASSUME NEW k \in owed, k \notin ToSet(keys), Found = DOMAIN keys
      PROVE  HasNext /\ Behind(k, page * size + size)
  <2>1. Len(keys) = size /\ Behind(k, page * size + size)
    BY <1>3, <1>6 DEF OwedAhead
  <2>2. Cardinality(1 .. Len(keys)) = size
    BY <1>3, <2>1, FS_Interval
  <2> QED
    BY <1>3, <1>6, <2>1, <2>2 DEF HasNext
<1>7. CASE ~HasNext /\ Show("done") /\ page' = page
  <2>1. PagingTypeOK'
    BY <1>1, <1>2, <1>3, <1>4, <1>7
       DEF Show, PagingTypeOK, IInv, Ordered, Ended, vars, valkeyVars
  <2>2. owed' = {}
    BY <1>6, <1>7 DEF Show
  <2> QED
    BY <1>2, <1>7, <2>1, <2>2 DEF Show, LossesKnown, ListFailsOnlyForGone, OwedAhead, Reading,
                                  WalkComplete, FarPagesEmpty
<1>8. CASE page' = Wrap(page + 1) /\ Show(IF page' < 0 THEN "none" ELSE "zrevrange")
  <2>1. page' \in -(MaxInt + 1) .. MaxInt
    BY <1>3, <1>8, WrapType
  <2>2. PagingTypeOK'
    BY <1>1, <1>2, <1>3, <1>4, <1>8, <2>1
       DEF Show, PagingTypeOK, IInv, Ordered, Ended, Reading, vars, valkeyVars
  <2>3. ASSUME NEW k \in owed' PROVE Behind(k, page * size)'
    <3>1. k \in owed /\ k \notin ToSet(keys) /\ Found = DOMAIN keys
      BY <1>8 DEF Show
    <3>2. PICK i \in DOMAIN order : order[i] = k /\ i > page * size + size
      BY <1>6, <3>1 DEF Behind
    <3>3. i \in Nat /\ i <= Cardinality(Keys) /\ Cardinality(Keys) \in Nat
      BY ShortOrder, LenProperties DEF PagingTypeOK, Ordered
    <3>4. /\ page * size \in Nat /\ page * size >= page
          /\ (page + 1) * size = page * size + size
      BY <1>3, Products
    <3>5. page + 1 \in 0 .. MaxInt
      BY <1>3, <3>2, <3>3, <3>4, PagingAssumption
    <3>6. page' * size' = page * size + size
      BY <1>1, <1>8, <3>4, <3>5, WrapSmall
    <3> QED
      BY <1>1, <3>2, <3>6 DEF Behind
  <2>4. at' \in {"none", "zrevrange"} /\ (at' = "zrevrange" => page' >= 0) /\ keys' = <<>>
    BY <1>8, <2>1 DEF Show
  <2>5. OwedAhead'
    BY <2>3, <2>4 DEF OwedAhead, Reading, WalkComplete
  <2> QED
    BY <1>2, <2>2, <2>4, <2>5 DEF LossesKnown, ListFailsOnlyForGone, FarPagesEmpty
<1> QED
  BY <1>5, <1>7, <1>8 DEF ReadRecords

(* and an error.                                                           *)
LEMMA ListFailsInvariant ==
    ASSUME PagingInv, ListFails
    PROVE  PagingInv'
<1> USE DEF PagingInv, ListFails
<1>1. IInv' /\ Ordered' /\ EntriesExplained'
  BY StoreUntouched
<1>2. <<>> \in Seq(Keys)
  OBVIOUS
<1>3. PagingTypeOK'
  BY <1>1, <1>2 DEF PagingTypeOK, IInv, Ordered, Ended
<1> QED
  BY <1>1, <1>3 DEF LossesKnown, ListFailsOnlyForGone, OwedAhead, Reading, WalkComplete,
                    FarPagesEmpty

(* Every step preserves the invariant.                                     *)
LEMMA StepPagingInv == PagingInv /\ [PagingNext]_pagingVars => PagingInv'
<1> SUFFICES ASSUME PagingInv, [PagingNext]_pagingVars PROVE PagingInv'
  OBVIOUS
<1>1. CASE UNCHANGED pagingVars
  <2>1. UNCHANGED <<vars, order>> /\ UNCHANGED walkVars
    BY <1>1 DEF pagingVars
  <2>2. IInv' /\ Ordered' /\ EntriesExplained'
    BY <2>1, StoreUntouched
  <2> QED
    BY <2>1, <2>2 DEF walkVars, vars, valkeyVars, PagingInv, PagingTypeOK, IInv, Ordered,
                      LossesKnown, ListFailsOnlyForGone, OwedAhead, Behind, WalkComplete,
                      FarPagesEmpty
<1> QED
  BY <1>1, WriteInvariant, BeginInvariant, ReadIndexInvariant, ReadRecordsInvariant,
     ListFailsInvariant DEF PagingNext, ListStep

(* The invariant holds in every reachable state.                           *)
LEMMA PagingInvariance == PagingSpec => []PagingInv
BY InitPagingInv, StepPagingInv, PTL DEF PagingSpec

-----------------------------------------------------------------------------
(* Every variable of the list and of the walk keeps its type; the order    *)
(* has the members of the index, each once.                                *)
THEOREM PagingTypeCorrect == PagingSpec => []PagingTypeOK
<1>1. PagingInv => PagingTypeOK
  BY DEF PagingInv
<1> QED
  BY <1>1, PagingInvariance, PTL

(* The list has no part in the writes: beside it, too, the index lists the *)
(* keys with a record.                                                     *)
THEOREM IndexCorrectWhileListing == PagingSpec => []IndexMatchesRecords
<1>1. PagingInv => IndexMatchesRecords
  BY DEF PagingInv, IInv
<1> QED
  BY <1>1, PagingInvariance, PTL

(* Whoever follows the next links to the end has seen every job that was   *)
(* listed when the walk began and left alone since, with any page size,    *)
(* number of jobs and number of writers, as long as the jobs are fewer     *)
(* than half the ints.                                                     *)
THEOREM NothingSkipped == PagingSpec => []WalkComplete
<1>1. PagingInv => WalkComplete
  BY DEF PagingInv, OwedAhead
<1> QED
  BY <1>1, PagingInvariance, PTL

(* List gives up on a page only for a key whose record may be missing.     *)
THEOREM ListErrorsExplained == PagingSpec => []ListFailsOnlyForGone
<1>1. PagingInv => ListFailsOnlyForGone
  BY DEF PagingInv, LossesKnown
<1> QED
  BY <1>1, PagingInvariance, PTL

(* Pages past the end are empty as long as page*size does not overflow.    *)
THEOREM PastTheEnd == PagingSpec => []FarPagesEmpty
<1>1. PagingInv => FarPagesEmpty
  BY DEF PagingInv
<1> QED
  BY <1>1, PagingInvariance, PTL
=============================================================================
