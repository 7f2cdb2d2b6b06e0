----------------------------- MODULE DataProofs -----------------------------
(***************************************************************************)
(* What the operators on documents and jobs compute, for any data.         *)
(***************************************************************************)
EXTENDS VastTransform, JobData, FiniteSetTheorems, WellFoundedInduction, TLAPS

-----------------------------------------------------------------------------
(* Sequences.                                                              *)

(* A function on the first numbers is a sequence.                          *)
LEMMA IsSequenceIf ==
    ASSUME NEW n \in Nat, NEW t, t = [i \in 1 .. n |-> t[i]]
    PROVE  IsSequence(t) /\ Len(t) = n /\ DOMAIN t = 1 .. n
<1>1. DOMAIN t = 1 .. n
  OBVIOUS
<1>2. \A i \in 1 .. n : t[i] \in ToSet(t)
  BY <1>1 DEF ToSet
<1>3. t \in Seq(ToSet(t)) /\ Len(t) = n
  BY <1>2
<1> QED
  BY <1>1, <1>3 DEF IsSequence

(* So is a sequence whose elements are of one kind.                        *)
LEMMA TypedSequence ==
    ASSUME NEW X, NEW s \in Seq(X)
    PROVE  IsSequence(s)
<1>1. Len(s) \in Nat /\ s = [i \in 1 .. Len(s) |-> s[i]]
  OBVIOUS
<1> QED
  BY <1>1, IsSequenceIf

(* A function on the places of a sequence is one.                          *)
LEMMA SequenceOf ==
    ASSUME NEW s, IsSequence(s), NEW t, t = [i \in DOMAIN s |-> t[i]]
    PROVE  IsSequence(t)
BY DEF IsSequence, ToSet

(* So is a sequence with an element more.                                  *)
LEMMA Appended ==
    ASSUME NEW s, IsSequence(s), NEW x
    PROVE  /\ IsSequence(Append(s, x))
           /\ \A i \in DOMAIN Append(s, x) :
                 Append(s, x)[i] = IF i \in DOMAIN s THEN s[i] ELSE x
<1> DEFINE t == Append(s, x)
<1>1. s \in Seq(ToSet(s) \cup {x})
  BY DEF IsSequence
<1>2. /\ t \in Seq(ToSet(s) \cup {x})
      /\ Len(t) = Len(s) + 1 /\ Len(s) \in Nat
      /\ DOMAIN s = 1 .. Len(s) /\ DOMAIN t = 1 .. Len(t)
      /\ \A i \in DOMAIN t : t[i] = IF i \in DOMAIN s THEN s[i] ELSE x
  BY <1>1
<1>3. \A i \in 1 .. Len(t) : t[i] \in ToSet(t)
  BY <1>2 DEF ToSet
<1>4. IsSequence(t)
  BY <1>2, <1>3 DEF IsSequence
<1> QED
  BY <1>2, <1>4

(* A set of numbers has a smallest.                                        *)
LEMMA Least ==
    ASSUME NEW T, T \subseteq Nat, T # {}
    PROVE  \E n \in T : \A m \in T : n <= m
<1>1. PICK n \in T : \A m \in T : ~(<<m, n>> \in OpToRel(<, Nat))
  BY WFMin, NatLessThanWellFounded
<1>2. ASSUME NEW m \in T PROVE n <= m
  <2>1. m \in Nat /\ n \in Nat
    OBVIOUS
  <2>2. <<m, n>> \notin {ss \in Nat \X Nat : ss[1] < ss[2]}
    BY <1>1 DEF OpToRel
  <2> QED
    BY <2>1, <2>2
<1> QED
  BY <1>2

(* A set of places has a last one.                                         *)
LEMMA LastPlace ==
    ASSUME NEW n \in Nat, NEW I \in SUBSET (1 .. n), I # {}
    PROVE  /\ Max(I) \in I
           /\ \A i \in I : i <= Max(I)
<1> DEFINE T == {n - i : i \in I}
<1>1. \A i \in I : i \in Int /\ n - i \in Nat
  OBVIOUS
<1>2. T \subseteq Nat /\ T # {}
  BY <1>1
<1>3. PICK x \in T : \A y \in T : x <= y
  BY <1>2, Least
<1>4. PICK i \in I : x = n - i
  OBVIOUS
<1>5. ASSUME NEW j \in I PROVE i >= j
  <2>1. n - i <= n - j
    BY <1>3, <1>4
  <2>2. n \in Int /\ i \in Int /\ j \in Int
    BY <1>1
  <2> HIDE DEF T
  <2>3. \A a, b, m \in Int : m - a <= m - b => a >= b
    OBVIOUS
  <2> QED
    BY <2>1, <2>2, <2>3
<1>6. Max(I) \in I /\ \A j \in I : Max(I) >= j
  BY <1>5 DEF Max
<1> QED
  BY <1>1, <1>6

(* Each value comes from a place that has its key.                         *)
LEMMA MapProperties ==
    ASSUME NEW keys, IsSequence(keys), NEW values, NEW k \in DOMAIN MapOf(keys, values)
    PROVE  \E i \in DOMAIN keys : keys[i] = k /\ MapOf(keys, values)[k] = values[i]
<1> DEFINE I == {i \in 1 .. Len(keys) : keys[i] = k}
<1>1. Len(keys) \in Nat /\ DOMAIN keys = 1 .. Len(keys)
  BY DEF IsSequence
<1>2. k \in ToSet(keys)
  BY DEF MapOf
<1>3. I # {}
  BY <1>1, <1>2 DEF ToSet
<1>4. Max(I) \in I
  BY <1>1, <1>3, LastPlace
<1>5. SelectLastInSeq(keys, LAMBDA x : x = k) = Max(I)
  BY <1>3 DEF SelectLastInSeq
<1>6. MapOf(keys, values)[k] = values[SelectLastInSeq(keys, LAMBDA x : x = k)]
  BY <1>2 DEF MapOf
<1> QED
  BY <1>1, <1>4, <1>5, <1>6

-----------------------------------------------------------------------------
(* Places in an order.                                                     *)

(* Counting who is not behind gives each element of a finite set a place   *)
(* of its own, and takes up all places.                                    *)
LEMMA Ranks ==
    ASSUME NEW S, IsFiniteSet(S), NEW ahead \in [S -> SUBSET S],
           \A i \in S : i \in ahead[i],
           \A i, j \in S : i # j =>
              \/ ahead[i] \subseteq ahead[j] /\ j \notin ahead[i]
              \/ ahead[j] \subseteq ahead[i] /\ i \notin ahead[j]
    PROVE  /\ \A i \in S : Cardinality(ahead[i]) \in 1 .. Cardinality(S)
           /\ \A i, j \in S : j \notin ahead[i] => Cardinality(ahead[i]) < Cardinality(ahead[j])
           /\ \A i, j \in S : Cardinality(ahead[i]) = Cardinality(ahead[j]) => i = j
           /\ \A n \in 1 .. Cardinality(S) : \E i \in S : Cardinality(ahead[i]) = n
<1> DEFINE rank == [i \in S |-> Cardinality(ahead[i])]
           N == Cardinality(S)
<1>1. \A i \in S : /\ ahead[i] \in SUBSET S /\ IsFiniteSet(ahead[i])
                   /\ Cardinality(ahead[i]) \in Nat /\ Cardinality(ahead[i]) <= N
  BY FS_Subset, FS_CardinalityType
<1>2. N \in Nat
  BY FS_CardinalityType
<1>3. \A i \in S : Cardinality(ahead[i]) \in 1 .. N
  <2> SUFFICES ASSUME NEW i \in S PROVE Cardinality(ahead[i]) \in 1 .. N
    OBVIOUS
  <2>1. Cardinality(ahead[i]) # 0
    BY <1>1, FS_EmptySet
  <2> QED
    BY <1>1, <1>2, <2>1
<1>4. ASSUME NEW i \in S, NEW j \in S, j \notin ahead[i]
      PROVE  Cardinality(ahead[i]) < Cardinality(ahead[j])
  <2>1. i # j /\ j \in ahead[j]
    BY <1>4
  <2>2. ahead[i] \subseteq ahead[j] /\ ahead[i] # ahead[j]
    BY <1>4, <2>1
  <2>3. /\ Cardinality(ahead[i]) <= Cardinality(ahead[j])
        /\ Cardinality(ahead[i]) # Cardinality(ahead[j])
    BY <1>1, <2>2, FS_Subset
  <2> QED
    BY <1>1, <2>3
<1>5. ASSUME NEW i \in S, NEW j \in S, Cardinality(ahead[i]) = Cardinality(ahead[j])
      PROVE  i = j
  <2>1. CASE j \notin ahead[i]
    BY <1>1, <1>4, <1>5, <2>1
  <2>2. CASE i \notin ahead[j]
    BY <1>1, <1>4, <1>5, <2>2
  <2> QED
    BY <2>1, <2>2
<1>6. rank \in Injection(S, 1 .. N)
  <2>1. rank \in [S -> 1 .. N]
    BY <1>3
  <2> QED
    BY <1>5, <2>1 DEF Injection, IsInjective
<1>7. rank \in Surjection(S, 1 .. N)
  <2>1. IsFiniteSet(1 .. N) /\ Cardinality(1 .. N) = N
    BY <1>2, FS_Interval
  <2> QED
    BY <1>6, <2>1, FS_Injection
<1>8. \A n \in 1 .. N : \E i \in S : Cardinality(ahead[i]) = n
  BY <1>7 DEF Surjection
<1> QED
  BY <1>3, <1>4, <1>5, <1>8

(* The n-th smallest of a set of numbers.                                  *)
LEMMA NthProperties ==
    ASSUME NEW S, S \subseteq Int, IsFiniteSet(S)
    PROVE  /\ Cardinality(S) \in Nat
           /\ \A n \in 1 .. Cardinality(S) : Nth(S, n) \in S
           /\ \A i \in S : \E n \in 1 .. Cardinality(S) : Nth(S, n) = i
           /\ \A m, n \in 1 .. Cardinality(S) : m < n => Nth(S, m) < Nth(S, n)
<1> DEFINE ahead == [i \in S |-> {j \in S : j <= i}]
           N == Cardinality(S)
<1>1. \A i \in S : i \in Int
  OBVIOUS
<1>2. ahead \in [S -> SUBSET S]
  OBVIOUS
<1>3. \A i, j \in S : j \in ahead[i] <=> j <= i
  OBVIOUS
<1> HIDE DEF ahead
<1>4. \A i \in S : i \in ahead[i]
  BY <1>1, <1>3
<1>5. ASSUME NEW i \in S, NEW j \in S, i < j
      PROVE  ahead[i] \subseteq ahead[j] /\ j \notin ahead[i]
  <2>1. ASSUME NEW x \in S, x <= i PROVE x <= j
    BY <1>1, <1>5, <2>1
  <2>2. ~(j <= i)
    BY <1>1, <1>5
  <2>3. ahead[i] \subseteq S
    BY <1>2
  <2> QED
    BY <1>3, <2>1, <2>2, <2>3
<1>6. \A i, j \in S : i # j => i < j \/ j < i
  BY <1>1
<1>7. \A i, j \in S : i # j =>
         \/ ahead[i] \subseteq ahead[j] /\ j \notin ahead[i]
         \/ ahead[j] \subseteq ahead[i] /\ i \notin ahead[j]
  BY <1>5, <1>6
<1>8. /\ \A i \in S : Cardinality(ahead[i]) \in 1 .. Cardinality(S)
      /\ \A i, j \in S : j \notin ahead[i] => Cardinality(ahead[i]) < Cardinality(ahead[j])
      /\ \A i, j \in S : Cardinality(ahead[i]) = Cardinality(ahead[j]) => i = j
      /\ \A n \in 1 .. Cardinality(S) : \E i \in S : Cardinality(ahead[i]) = n
  <2> HIDE DEF N
  <2> QED
    BY ONLY IsFiniteSet(S), <1>2, <1>4, <1>7, Ranks
<1>9. \A i, j \in S : Cardinality(ahead[i]) = Cardinality(ahead[j]) => i = j
  BY <1>8
<1>10. ASSUME NEW n \in 1 .. N
       PROVE  Nth(S, n) \in S /\ Cardinality(ahead[Nth(S, n)]) = n
  <2>1. \A i \in S : ahead[i] = {j \in S : j <= i}
    BY DEF ahead
  <2>2. \E i \in S : Cardinality({j \in S : j <= i}) = n
    BY <1>8, <2>1
  <2>3. Nth(S, n) \in S /\ Cardinality({j \in S : j <= Nth(S, n)}) = n
    BY <2>2 DEF Nth
  <2> QED
    BY <2>1, <2>3
<1>11. ASSUME NEW i \in S
       PROVE  \E n \in 1 .. N : Nth(S, n) = i
  <2>1. Cardinality(ahead[i]) \in 1 .. N
    BY <1>8
  <2>2. Nth(S, Cardinality(ahead[i])) = i
    BY <1>9, <1>10, <2>1
  <2> QED
    BY <2>1, <2>2
<1>12. N \in Nat
  BY FS_CardinalityType
<1>13. ASSUME NEW m \in 1 .. N, NEW n \in 1 .. N, m < n
       PROVE  Nth(S, m) < Nth(S, n)
  <2> DEFINE i == Nth(S, m)
             j == Nth(S, n)
  <2>1. i \in S /\ j \in S /\ Cardinality(ahead[i]) = m /\ Cardinality(ahead[j]) = n
    BY <1>10
  <2>2. i # j
    BY <1>12, <1>13, <2>1
  <2>3. ~(j < i)
    <3>1. SUFFICES ASSUME j < i PROVE FALSE
      OBVIOUS
    <3>2. i \notin ahead[j]
      BY <1>5, <2>1, <3>1
    <3>3. Cardinality(ahead[j]) < Cardinality(ahead[i])
      <4> HIDE DEF i, j
      <4> QED
        BY <1>8, <2>1, <3>2
    <3>4. n < m
      BY <2>1, <3>3
    <3> QED
      BY <1>12, <1>13, <3>4
  <2> QED
    BY <1>6, <2>1, <2>2, <2>3
<1> QED
  BY <1>10, <1>11, <1>12, <1>13

(* A filtered sequence has the elements that are kept, in their order.     *)
LEMMA KeepProperties ==
    ASSUME NEW s, IsSequence(s), NEW I \in SUBSET DOMAIN s
    PROVE  /\ IsSequence(Keep(s, I))
           /\ DOMAIN Keep(s, I) = 1 .. Cardinality(I) /\ Cardinality(I) \in Nat
           /\ \A n \in DOMAIN Keep(s, I) : Nth(I, n) \in I /\ Keep(s, I)[n] = s[Nth(I, n)]
           /\ \A i \in I : \E n \in DOMAIN Keep(s, I) : Nth(I, n) = i
           /\ \A m, n \in DOMAIN Keep(s, I) : m < n => Nth(I, m) < Nth(I, n)
<1>1. Len(s) \in Nat /\ DOMAIN s = 1 .. Len(s)
  BY DEF IsSequence
<1>2. IsFiniteSet(I) /\ I \subseteq Int
  <2>1. IsFiniteSet(1 .. Len(s))
    BY <1>1, FS_Interval
  <2>2. I \in SUBSET (1 .. Len(s)) /\ I \subseteq Int
    BY <1>1
  <2> QED
    BY <2>1, <2>2, FS_Subset
<1>3. /\ Cardinality(I) \in Nat
      /\ \A n \in 1 .. Cardinality(I) : Nth(I, n) \in I
      /\ \A i \in I : \E n \in 1 .. Cardinality(I) : Nth(I, n) = i
      /\ \A m, n \in 1 .. Cardinality(I) : m < n => Nth(I, m) < Nth(I, n)
  BY <1>2, NthProperties
<1>4. /\ DOMAIN Keep(s, I) = 1 .. Cardinality(I)
      /\ \A n \in DOMAIN Keep(s, I) : Keep(s, I)[n] = s[Nth(I, n)]
  BY DEF Keep
<1>5. IsSequence(Keep(s, I))
  <2>1. Keep(s, I) = [n \in 1 .. Cardinality(I) |-> Keep(s, I)[n]]
    BY DEF Keep
  <2> QED
    BY <1>3, <2>1, IsSequenceIf
<1> QED
  BY <1>3, <1>4, <1>5

-----------------------------------------------------------------------------
(* Counting.                                                               *)

(* Two sets without a common element have the elements of both.            *)
LEMMA CountedTogether ==
    ASSUME NEW S, IsFiniteSet(S), NEW T, IsFiniteSet(T), S \cap T = {}
    PROVE  /\ IsFiniteSet(S \cup T)
           /\ Cardinality(S \cup T) = Cardinality(S) + Cardinality(T)
           /\ Cardinality(S) \in Nat /\ Cardinality(T) \in Nat
<1>1. Cardinality(S \cap T) = 0
  BY FS_EmptySet
<1>2. Cardinality(S) \in Nat /\ Cardinality(T) \in Nat
  BY FS_CardinalityType
<1>3. /\ IsFiniteSet(S \cup T)
      /\ Cardinality(S \cup T) = Cardinality(S) + Cardinality(T) - Cardinality(S \cap T)
  BY FS_Union
<1> QED
  BY <1>1, <1>2, <1>3

(* Pairs with the same first element are as many as there are second ones. *)
LEMMA CountedPairs ==
    ASSUME NEW b, NEW D, IsFiniteSet(D)
    PROVE  IsFiniteSet({b} \X D) /\ Cardinality({b} \X D) = Cardinality(D)
<1>1. IsFiniteSet({b}) /\ Cardinality({b}) = 1
  BY FS_Singleton
<1>2. IsFiniteSet({b} \X D) /\ Cardinality({b} \X D) = Cardinality({b}) * Cardinality(D)
  BY <1>1, FS_Product
<1>3. Cardinality(D) \in Nat
  BY FS_CardinalityType
<1> QED
  BY <1>1, <1>2, <1>3

(* Values are not more than there are arguments, and as many if different  *)
(* arguments have different ones.                                          *)
LEMMA CountedValues ==
    ASSUME NEW S, IsFiniteSet(S), NEW f, DOMAIN f = S
    PROVE  /\ IsFiniteSet({f[x] : x \in S})
           /\ Cardinality({f[x] : x \in S}) <= Cardinality(S)
           /\ (\A x, y \in S : f[x] = f[y] => x = y) =>
                 Cardinality({f[x] : x \in S}) = Cardinality(S)
<1> DEFINE T == {f[x] : x \in S}
           g == [x \in S |-> f[x]]
<1>1. g \in Surjection(S, T)
  BY DEF Surjection
<1>2. (\A x, y \in S : f[x] = f[y] => x = y) => g \in Injection(S, T)
  BY DEF Injection, IsInjective
<1> HIDE DEF g, T
<1>3. /\ IsFiniteSet(T)
      /\ Cardinality(T) <= Cardinality(S)
      /\ Cardinality(T) = Cardinality(S) <=> g \in Injection(S, T)
  BY <1>1, FS_Surjection
<1> QED
  BY <1>2, <1>3 DEF T

-----------------------------------------------------------------------------
(* Sequences of sequences.                                                 *)

(* Concatenation up to the n-th.                                           *)
Concatenates(f, seqs, n) ==
    f = [i \in 1 .. n |-> IF i = 1 THEN seqs[i] ELSE f[i - 1] \o seqs[i]]

(* There is something that the recursive definition of FlattenSeq defines. *)
LEMMA ConcatenationExists ==
    ASSUME NEW seqs, NEW N \in Nat \ {0}
    PROVE  \E f : Concatenates(f, seqs, N)
<1> DEFINE T == {n \in 1 .. N : ~\E f : Concatenates(f, seqs, n)}
<1>1. SUFFICES ASSUME T # {} PROVE FALSE
  <2>1. N \in 1 .. N
    OBVIOUS
  <2> QED
    BY <2>1
<1>2. PICK n \in T : \A m \in T : n <= m
  <2>1. T \subseteq Nat
    OBVIOUS
  <2> HIDE DEF T
  <2> QED
    BY <1>1, <2>1, Least
<1>3. n \in 1 .. N /\ ~\E f : Concatenates(f, seqs, n)
  OBVIOUS
<1>4. n # 1
  <2> SUFFICES ASSUME n = 1 PROVE FALSE
    OBVIOUS
  <2> DEFINE f == [i \in 1 .. 1 |-> seqs[i]]
  <2>1. f = [i \in 1 .. 1 |-> IF i = 1 THEN seqs[i] ELSE f[i - 1] \o seqs[i]]
    OBVIOUS
  <2>2. Concatenates(f, seqs, 1)
    BY <2>1 DEF Concatenates
  <2> QED
    BY <1>3, <2>2
<1>5. n - 1 \in 1 .. N /\ ~(n <= n - 1)
  BY <1>3, <1>4
<1>6. PICK f : Concatenates(f, seqs, n - 1)
  <2>1. n - 1 \notin T
    BY <1>2, <1>5
  <2> QED
    BY <1>5, <2>1
<1> DEFINE g == [i \in 1 .. n |-> IF i = n THEN f[n - 1] \o seqs[n] ELSE f[i]]
<1>7. ASSUME NEW i \in 1 .. n
      PROVE  g[i] = IF i = 1 THEN seqs[i] ELSE g[i - 1] \o seqs[i]
  <2>1. CASE i = n
    <3>1. i # 1 /\ i - 1 \in 1 .. n /\ i - 1 # n
      BY <1>3, <1>4, <2>1
    <3> QED
      BY <2>1, <3>1
  <2>2. CASE i # n
    <3>1. i \in 1 .. n - 1 /\ (i # 1 => i - 1 \in 1 .. n /\ i - 1 # n)
      BY <1>3, <2>2
    <3>2. f[i] = IF i = 1 THEN seqs[i] ELSE f[i - 1] \o seqs[i]
      BY <1>6, <3>1 DEF Concatenates
    <3> QED
      BY <2>2, <3>1, <3>2
  <2> QED
    BY <2>1, <2>2
<1>8. g = [i \in 1 .. n |-> IF i = 1 THEN seqs[i] ELSE g[i - 1] \o seqs[i]]
  <2>1. g = [i \in 1 .. n |-> g[i]]
    OBVIOUS
  <2> HIDE DEF g
  <2> QED
    BY <1>7, <2>1
<1>9. Concatenates(g, seqs, n)
  BY <1>8 DEF Concatenates
<1> QED
  BY <1>3, <1>9

(* Two sequences in a row: by its name, the provers do not look inside.    *)
Concatenation(s, t) == s \o t

(* All of u comes from s or t, all of t is there, and s comes first.       *)
IsRow(X, s, t, u) ==
    /\ u \in Seq(X)
    /\ DOMAIN s \subseteq DOMAIN u
    /\ \A i \in DOMAIN s : u[i] = s[i]
    /\ \A j \in DOMAIN t : \E i \in DOMAIN u : u[i] = t[j]
    /\ \A i \in DOMAIN u :
          (\E j \in DOMAIN s : u[i] = s[j]) \/ (\E j \in DOMAIN t : u[i] = t[j])

(* It has the elements of both, those of the first one first.              *)
LEMMA InARow ==
    ASSUME NEW X, NEW s \in Seq(X), NEW t \in Seq(X), NEW u, u = Concatenation(s, t)
    PROVE  IsRow(X, s, t, u)
<1>1. /\ u \in Seq(X) /\ Len(s) \in Nat /\ Len(t) \in Nat
      /\ DOMAIN s = 1 .. Len(s) /\ DOMAIN t = 1 .. Len(t)
      /\ DOMAIN u = 1 .. Len(s) + Len(t)
      /\ \A i \in 1 .. Len(s) + Len(t) :
            u[i] = IF i <= Len(s) THEN s[i] ELSE t[i - Len(s)]
  BY DEF Concatenation
<1>2. /\ DOMAIN s \subseteq DOMAIN u
      /\ \A i \in DOMAIN s : u[i] = s[i]
  BY <1>1
<1>3. ASSUME NEW j \in DOMAIN t
      PROVE  \E i \in DOMAIN u : u[i] = t[j]
  <2>1. /\ Len(s) + j \in DOMAIN u /\ ~(Len(s) + j <= Len(s))
        /\ Len(s) + j - Len(s) = j
    BY <1>1
  <2>2. u[Len(s) + j] = t[j]
    BY <1>1, <2>1
  <2> QED
    BY <2>1, <2>2
<1>4. ASSUME NEW i \in DOMAIN u
      PROVE  (\E j \in DOMAIN s : u[i] = s[j]) \/ (\E j \in DOMAIN t : u[i] = t[j])
  <2>1. CASE i <= Len(s)
    BY <1>1, <2>1
  <2>2. CASE ~(i <= Len(s))
    <3>1. i - Len(s) \in DOMAIN t
      BY <1>1, <2>2
    <3> QED
      BY <1>1, <2>2, <3>1
  <2> QED
    BY <2>1, <2>2
<1> QED
  BY <1>1, <1>2, <1>3, <1>4 DEF IsRow

(* What is concatenated comes from the parts, all of it, and the first     *)
(* part comes first.                                                       *)
LEMMA FlattenProperties ==
    ASSUME NEW X, NEW seqs \in Seq(Seq(X))
    PROVE  /\ FlattenSeq(seqs) \in Seq(X)
           /\ \A i \in DOMAIN FlattenSeq(seqs) : \E c \in DOMAIN seqs : \E j \in DOMAIN seqs[c] :
                 FlattenSeq(seqs)[i] = seqs[c][j]
           /\ \A c \in DOMAIN seqs : \A j \in DOMAIN seqs[c] : \E i \in DOMAIN FlattenSeq(seqs) :
                 FlattenSeq(seqs)[i] = seqs[c][j]
           /\ seqs # <<>> => \A j \in DOMAIN seqs[1] :
                 j \in DOMAIN FlattenSeq(seqs) /\ FlattenSeq(seqs)[j] = seqs[1][j]
<1> DEFINE N == Len(seqs)
           flat == FlattenSeq(seqs)
           Right(s, n) ==
               /\ s \in Seq(X)
               /\ \A i \in DOMAIN s : \E c \in 1 .. n : \E j \in DOMAIN seqs[c] :
                     s[i] = seqs[c][j]
               /\ \A c \in 1 .. n : \A j \in DOMAIN seqs[c] : \E i \in DOMAIN s :
                     s[i] = seqs[c][j]
               /\ n # 0 => \A j \in DOMAIN seqs[1] : j \in DOMAIN s /\ s[j] = seqs[1][j]
<1>1. N \in Nat /\ DOMAIN seqs = 1 .. N /\ \A n \in 1 .. N : seqs[n] \in Seq(X)
  OBVIOUS
<1> HIDE DEF Right
<1>2. CASE N = 0
  <2>1. seqs = <<>> /\ 1 .. N = {} /\ DOMAIN seqs = {}
    BY <1>1, <1>2
  <2>2. flat = <<>>
    BY <1>2, <2>1 DEF FlattenSeq
  <2>3. DOMAIN flat = {} /\ flat \in Seq(X)
    <3> HIDE DEF flat
    <3> QED
      BY <2>2
  <2> QED
    BY <2>1, <2>3, Zenon
<1>3. CASE N # 0
  <2> DEFINE flatten == CHOOSE f : f = [i \in 1 .. Len(seqs) |->
                                           IF i = 1 THEN seqs[i] ELSE f[i - 1] \o seqs[i]]
  <2>1. flat = flatten[N]
    BY <1>3 DEF FlattenSeq
  <2>2. flatten = [i \in 1 .. N |-> IF i = 1 THEN seqs[i] ELSE flatten[i - 1] \o seqs[i]]
    <3>1. \E f : f = [i \in 1 .. N |-> IF i = 1 THEN seqs[i] ELSE f[i - 1] \o seqs[i]]
      <4> N \in Nat \ {0}
        BY <1>1, <1>3
      <4> HIDE DEF N
      <4> QED
        BY ConcatenationExists DEF Concatenates
    <3> QED
      BY <3>1
  <2> HIDE DEF flatten, flat, N
  <2>3. \A i \in 1 .. N : flatten[i] = IF i = 1 THEN seqs[i] ELSE flatten[i - 1] \o seqs[i]
    BY <2>2
  <2> DEFINE T == {n \in 1 .. N : ~Right(flatten[n], n)}
  <2>4. T = {}
    <3>1. SUFFICES ASSUME T # {} PROVE FALSE
      OBVIOUS
    <3>2. PICK n \in T : \A m \in T : n <= m
      <4>1. T \subseteq Nat
        BY <1>1
      <4> HIDE DEF T
      <4> QED
        BY <3>1, <4>1, Least
    <3>3. n \in 1 .. N /\ ~Right(flatten[n], n)
      OBVIOUS
    <3>4. CASE n = 1
      <4>1. flatten[1] = seqs[1] /\ seqs[1] \in Seq(X) /\ 1 .. 1 = {1}
        BY <1>1, <2>3, <3>3, <3>4
      <4>2. Right(seqs[1], 1)
        BY <4>1 DEF Right
      <4> QED
        BY <3>3, <3>4, <4>1, <4>2
    <3>5. CASE n # 1
      <4> DEFINE s == flatten[n - 1]
                 t == seqs[n]
                 u == flatten[n]
      <4>1. n - 1 \in 1 .. N /\ ~(n <= n - 1) /\ 1 .. n = (1 .. n - 1) \cup {n} /\ 1 \in 1 .. n - 1
        BY <1>1, <3>3, <3>5
      <4>2. Right(s, n - 1) /\ n # 0 /\ n - 1 # 0
        BY <1>1, <3>2, <3>3, <3>5, <4>1
      <4>3. u = s \o t /\ t \in Seq(X)
        BY <1>1, <2>3, <3>3, <3>5
      <4> HIDE DEF s, u
      <4>4. s \in Seq(X)
        BY <4>2 DEF Right
      <4>5. /\ u \in Seq(X)
            /\ DOMAIN s \subseteq DOMAIN u
            /\ \A i \in DOMAIN s : u[i] = s[i]
            /\ \A j \in DOMAIN t : \E i \in DOMAIN u : u[i] = t[j]
            /\ \A i \in DOMAIN u :
                  \/ \E j \in DOMAIN s : u[i] = s[j]
                  \/ \E j \in DOMAIN t : u[i] = t[j]
        <5> HIDE DEF t
        <5>1. u = Concatenation(s, t) /\ t \in Seq(X)
          BY <4>3 DEF Concatenation
        <5>2. IsRow(X, s, t, u)
          BY <4>4, <5>1, InARow
        <5> QED
          BY <5>2 DEF IsRow
      <4>6. \A i \in DOMAIN u : \E c \in 1 .. n : \E j \in DOMAIN seqs[c] : u[i] = seqs[c][j]
        <5> SUFFICES ASSUME NEW i \in DOMAIN u
                     PROVE  \E c \in 1 .. n : \E j \in DOMAIN seqs[c] : u[i] = seqs[c][j]
          OBVIOUS
        <5>1. CASE \E k \in DOMAIN s : u[i] = s[k]
          <6>1. PICK k \in DOMAIN s : u[i] = s[k]
            BY <5>1
          <6>2. PICK c \in 1 .. n - 1 : \E j \in DOMAIN seqs[c] : s[k] = seqs[c][j]
            BY <4>2, <6>1 DEF Right
          <6>3. c \in 1 .. n
            BY <4>1, <6>2
          <6> QED
            BY <6>1, <6>2, <6>3
        <5>2. CASE \E j \in DOMAIN t : u[i] = t[j]
          <6>1. n \in 1 .. n
            BY <4>1
          <6> QED
            BY <5>2, <6>1
        <5> QED
          BY <4>5, <5>1, <5>2
      <4>7. ASSUME NEW c \in 1 .. n, NEW j \in DOMAIN seqs[c]
            PROVE  \E i \in DOMAIN u : u[i] = seqs[c][j]
        <5>1. CASE c = n
          BY <4>5, <5>1
        <5>2. CASE c \in 1 .. n - 1
          <6>1. PICK i \in DOMAIN s : s[i] = seqs[c][j]
            BY <4>2, <5>2 DEF Right
          <6> QED
            BY <4>5, <6>1
        <5> QED
          BY <4>1, <5>1, <5>2
      <4>8. \A j \in DOMAIN seqs[1] : j \in DOMAIN u /\ u[j] = seqs[1][j]
        BY <4>2, <4>5 DEF Right
      <4>9. Right(u, n)
        BY <4>5, <4>6, <4>7, <4>8 DEF Right
      <4> QED
        BY <3>3, <4>9 DEF u
    <3> QED
      BY <3>4, <3>5
  <2>5. Right(flat, N)
    <3>1. N \in 1 .. N
      BY <1>1, <1>3
    <3> QED
      BY <2>1, <2>4, <3>1
  <2>6. seqs # <<>> => N # 0
    BY <1>3
  <2> QED
    BY <1>1, <2>5, <1>3 DEF Right, flat
<1> QED
  BY <1>2, <1>3

-----------------------------------------------------------------------------
(* The best media file.                                                    *)

(* A finite set of numbers has a largest.                                  *)
LEMMA Greatest ==
    ASSUME NEW S, S \subseteq Int, IsFiniteSet(S), S # {}
    PROVE  \E x \in S : \A y \in S : y <= x
<1> DEFINE N == Cardinality(S)
<1>1. /\ N \in Nat
      /\ \A n \in 1 .. N : Nth(S, n) \in S
      /\ \A i \in S : \E n \in 1 .. N : Nth(S, n) = i
      /\ \A m, n \in 1 .. N : m < n => Nth(S, m) < Nth(S, n)
  BY NthProperties
<1>2. N \in 1 .. N
  <2>1. N # 0
    BY FS_EmptySet
  <2> QED
    BY <1>1, <2>1
<1>3. ASSUME NEW y \in S
      PROVE  y <= Nth(S, N)
  <2>1. PICK n \in 1 .. N : Nth(S, n) = y
    BY <1>1
  <2>2. n = N \/ n < N
    BY <1>1
  <2>3. Nth(S, N) \in Int /\ y \in Int
    BY <1>1, <1>2
  <2> HIDE DEF N
  <2>4. CASE n = N
    BY <2>1, <2>3, <2>4
  <2>5. CASE n < N
    BY <1>1, <1>2, <2>1, <2>3, <2>5
  <2> QED
    BY <2>2, <2>4, <2>5
<1> QED
  BY <1>1, <1>2, <1>3

(* What every media file has, whatever else it has.                        *)
HaveBitrates(files) == \A m \in files : m.bitrate \in Int

(* The first of the highest bitrate among the places s, above zero.        *)
IsBest(files, s, i) ==
    /\ i \in s /\ files[i].bitrate > 0
    /\ \A j \in s : \/ files[j].bitrate < files[i].bitrate
                    \/ files[j].bitrate = files[i].bitrate /\ i <= j

BestOf(files, s) ==
    IF \E i \in s : IsBest(files, s, i)
    THEN files[CHOOSE i \in s : IsBest(files, s, i)] ELSE NoMediaFile

(* There is a best one unless all bitrates are zero, or below.             *)
LEMMA BestExists ==
    ASSUME NEW X, HaveBitrates(X), NEW files \in Seq(X), NEW s \in SUBSET DOMAIN files,
           NEW p \in s, files[p].bitrate > 0
    PROVE  \E i \in s : IsBest(files, s, i)
<1> DEFINE rate == [i \in s |-> files[i].bitrate]
           T == {rate[i] : i \in s}
<1>1. s \subseteq 1 .. Len(files) /\ Len(files) \in Nat
  OBVIOUS
<1>2. \A i \in s : i \in Nat /\ rate[i] \in Int /\ rate[i] = files[i].bitrate
  <2>1. \A i \in s : i \in Nat /\ files[i] \in X
    OBVIOUS
  <2> QED
    BY <2>1 DEF HaveBitrates
<1> HIDE DEF rate
<1>3. IsFiniteSet(s)
  <2>1. IsFiniteSet(1 .. Len(files))
    BY <1>1, FS_Interval
  <2> QED
    BY <1>1, <2>1, FS_Subset
<1>4. IsFiniteSet(T) /\ T \subseteq Int /\ T # {}
  <2>1. rate \in Surjection(s, T)
    <3>1. rate = [i \in s |-> rate[i]]
      BY DEF rate
    <3> QED
      BY <3>1 DEF Surjection
  <2> QED
    BY <1>2, <1>3, <2>1, FS_Surjection
<1>5. PICK x \in T : \A y \in T : y <= x
  <2> HIDE DEF T
  <2> QED
    BY <1>4, Greatest
<1> DEFINE A == {i \in s : rate[i] = x}
<1>6. PICK i \in A : \A j \in A : i <= j
  <2>1. A \subseteq Nat /\ A # {}
    BY <1>2
  <2> HIDE DEF A
  <2> QED
    BY <2>1, Least
<1>7. i \in s /\ rate[i] = x /\ x \in Int
  BY <1>2
<1>8. \A j \in s : rate[j] < x \/ (rate[j] = x /\ i <= j)
  <2>1. \A j \in s : rate[j] <= x /\ rate[j] \in Int
    BY <1>2, <1>5
  <2>2. \A j \in s : rate[j] = x => i <= j
    BY <1>6
  <2> HIDE DEF A, T
  <2> QED
    BY <1>7, <2>1, <2>2
<1>9. x > 0
  <2>1. rate[p] > 0 /\ rate[p] <= x /\ rate[p] \in Int
    BY <1>2, <1>5
  <2> HIDE DEF A, T
  <2> QED
    BY <1>7, <2>1
<1> HIDE DEF A, T
<1>10. IsBest(files, s, i)
  BY <1>2, <1>7, <1>8, <1>9 DEF IsBest
<1> QED
  BY <1>7, <1>10

(* Nothing but the best one is chosen.                                     *)
LEMMA BestIs ==
    ASSUME NEW X, HaveBitrates(X), NEW files \in Seq(X), NEW s \in SUBSET DOMAIN files
    PROVE  /\ \A i : IsBest(files, s, i) => BestOf(files, s) = files[i]
           /\ (\A i \in s : ~(files[i].bitrate > 0)) => BestOf(files, s) = NoMediaFile
<1>1. \A i \in s : i \in Nat /\ files[i].bitrate \in Int
  <2>1. \A i \in s : i \in Nat /\ files[i] \in X
    OBVIOUS
  <2> QED
    BY <2>1 DEF HaveBitrates
<1>2. ASSUME NEW i, NEW j, IsBest(files, s, i), IsBest(files, s, j)
      PROVE  i = j
  <2>1. /\ i \in s /\ j \in s
        /\ \/ files[j].bitrate < files[i].bitrate
           \/ files[j].bitrate = files[i].bitrate /\ i <= j
        /\ \/ files[i].bitrate < files[j].bitrate
           \/ files[i].bitrate = files[j].bitrate /\ j <= i
    BY <1>2 DEF IsBest
  <2>2. files[i].bitrate \in Int /\ files[j].bitrate \in Int /\ i \in Nat /\ j \in Nat
    BY <1>1, <2>1
  <2> QED
    BY <2>1, <2>2
<1>3. ASSUME NEW i, IsBest(files, s, i)
      PROVE  BestOf(files, s) = files[i]
  <2>1. i \in s
    BY <1>3 DEF IsBest
  <2>2. IsBest(files, s, CHOOSE k \in s : IsBest(files, s, k))
    BY <1>3, <2>1
  <2>3. (CHOOSE k \in s : IsBest(files, s, k)) = i
    BY <1>2, <1>3, <2>2
  <2> QED
    BY <1>3, <2>1, <2>3 DEF BestOf
<1>4. (\A i \in s : ~(files[i].bitrate > 0)) => ~\E i \in s : IsBest(files, s, i)
  BY DEF IsBest
<1> QED
  BY <1>3, <1>4 DEF BestOf

(* One step of the search.                                                 *)
LEMMA BestStep ==
    ASSUME NEW X, HaveBitrates(X), NEW files \in Seq(X), NEW s \in SUBSET DOMAIN files, NEW m \in s,
           \A j \in s : j <= m
    PROVE  BestOf(files, s) =
              IF files[m].bitrate > BestOf(files, s \ {m}).bitrate
              THEN files[m] ELSE BestOf(files, s \ {m})
<1> DEFINE rest == s \ {m}
<1>1. \A i \in s : i \in Nat /\ files[i].bitrate \in Int
  <2>1. \A i \in s : i \in Nat /\ files[i] \in X
    OBVIOUS
  <2> QED
    BY <2>1 DEF HaveBitrates
<1>2. rest \in SUBSET DOMAIN files /\ \A j \in s : j \in rest \/ j = m
  OBVIOUS
<1>3. CASE \E p \in rest : files[p].bitrate > 0
  <2>1. PICK i \in rest : IsBest(files, rest, i)
    <3> HIDE DEF rest
    <3> QED
      BY <1>2, <1>3, BestExists
  <2>2. BestOf(files, rest) = files[i]
    <3> HIDE DEF rest
    <3> QED
      BY <1>2, <2>1, BestIs
  <2>3. \A j \in rest : \/ files[j].bitrate < files[i].bitrate
                        \/ files[j].bitrate = files[i].bitrate /\ i <= j
    BY <2>1 DEF IsBest
  <2>4. files[i].bitrate > 0 /\ i \in s /\ i <= m
    BY <2>1 DEF IsBest
  <2>5. CASE files[m].bitrate > files[i].bitrate
    <3>1. IsBest(files, s, m)
      <4>1. files[m].bitrate > 0
        BY <1>1, <2>4, <2>5
      <4>2. \A j \in s : j = m \/ files[j].bitrate < files[m].bitrate
        BY <1>1, <1>2, <2>3, <2>4, <2>5
      <4>3. m <= m
        BY <1>1
      <4> QED
        BY <4>1, <4>2, <4>3 DEF IsBest
    <3>2. BestOf(files, s) = files[m]
      BY <3>1, BestIs
    <3> QED
      BY <2>2, <2>5, <3>2
  <2>6. CASE ~(files[m].bitrate > files[i].bitrate)
    <3>1. IsBest(files, s, i)
      <4>1. files[m].bitrate < files[i].bitrate \/ files[m].bitrate = files[i].bitrate
        BY <1>1, <2>4, <2>6
      <4> QED
        BY <1>2, <2>3, <2>4, <4>1 DEF IsBest
    <3>2. BestOf(files, s) = files[i]
      BY <3>1, BestIs
    <3> QED
      BY <2>2, <2>6, <3>2
  <2> QED
    BY <2>5, <2>6
<1>4. CASE \A p \in rest : ~(files[p].bitrate > 0)
  <2>1. BestOf(files, rest) = NoMediaFile
    <3> HIDE DEF rest
    <3> QED
      BY <1>2, <1>4, BestIs
  <2>2. NoMediaFile.bitrate = 0
    BY DEF NoMediaFile
  <2>3. CASE files[m].bitrate > 0
    <3>1. \A j \in s : j = m \/ files[j].bitrate < files[m].bitrate
      BY <1>1, <1>2, <1>4, <2>3
    <3>2. m <= m
      BY <1>1
    <3>3. IsBest(files, s, m)
      BY <2>3, <3>1, <3>2 DEF IsBest
    <3>4. BestOf(files, s) = files[m]
      BY <3>3, BestIs
    <3> QED
      BY <2>1, <2>2, <2>3, <3>4
  <2>4. CASE ~(files[m].bitrate > 0)
    <3>1. BestOf(files, s) = NoMediaFile
      BY <1>2, <1>4, <2>4, BestIs
    <3> QED
      BY <2>1, <2>2, <2>4, <3>1
  <2> QED
    BY <2>3, <2>4
<1> QED
  BY <1>3, <1>4

(* What the loop over the media files finds, place by place.               *)
Searches(g, files) ==
    g = [s \in SUBSET DOMAIN files |->
            IF s = {} THEN NoMediaFile
            ELSE IF files[Max(s)].bitrate > g[s \ {Max(s)}].bitrate
                 THEN files[Max(s)] ELSE g[s \ {Max(s)}]]

(* It finds the best of them.                                              *)
LEMMA SearchFindsBest ==
    ASSUME NEW X, HaveBitrates(X), NEW files \in Seq(X), NEW g, Searches(g, files)
    PROVE  g[DOMAIN files] = BestOf(files, DOMAIN files)
<1> DEFINE N == Len(files)
           T == {n \in 0 .. N : g[1 .. n] # BestOf(files, 1 .. n)}
<1>1. N \in Nat /\ DOMAIN files = 1 .. N
  OBVIOUS
<1> HIDE DEF N
<1>2. SUFFICES ASSUME T # {} PROVE FALSE
  <2>1. N \in 0 .. N
    BY <1>1
  <2> QED
    BY <1>1, <2>1
<1>3. PICK n \in T : \A m \in T : n <= m
  <2>1. T \subseteq Nat
    BY <1>1
  <2> HIDE DEF T
  <2> QED
    BY <1>2, <2>1, Least
<1>4. n \in 0 .. N /\ g[1 .. n] # BestOf(files, 1 .. n)
  OBVIOUS
<1>5. \A s \in SUBSET DOMAIN files :
         g[s] = IF s = {} THEN NoMediaFile
                ELSE IF files[Max(s)].bitrate > g[s \ {Max(s)}].bitrate
                     THEN files[Max(s)] ELSE g[s \ {Max(s)}]
  BY DEF Searches
<1>6. 1 .. n \in SUBSET DOMAIN files
  BY <1>1, <1>4
<1>7. n # 0
  <2> SUFFICES ASSUME n = 0 PROVE FALSE
    OBVIOUS
  <2>1. 1 .. n = {}
    OBVIOUS
  <2>2. {} \in SUBSET DOMAIN files /\ BestOf(files, {}) = NoMediaFile
    BY DEF BestOf
  <2> QED
    BY <1>4, <1>5, <2>1, <2>2
<1> HIDE DEF T
<1>8. n - 1 \in 0 .. N /\ ~(n <= n - 1) /\ (1 .. n) \ {n} = 1 .. n - 1 /\ 1 .. n # {}
  <2>1. n \in Nat \ {0} /\ N \in Nat /\ n <= N
    BY <1>1, <1>4, <1>7
  <2>2. n - 1 \in 0 .. N /\ ~(n <= n - 1) /\ 1 \in 1 .. n
    BY <2>1
  <2>3. 1 .. n = (1 .. n - 1) \cup {n} /\ n \notin 1 .. n - 1
    BY <2>1
  <2>4. (1 .. n) \ {n} = 1 .. n - 1
    BY <2>3, Zenon
  <2> QED
    BY <2>2, <2>4
<1>9. g[1 .. n - 1] = BestOf(files, 1 .. n - 1)
  <2>1. n - 1 \notin T
    BY <1>3, <1>8
  <2> QED
    BY <1>8, <2>1 DEF T
<1>10. Max(1 .. n) = n
  <2>1. n \in Nat /\ 1 .. n \in SUBSET (1 .. n) /\ n \in 1 .. n
    BY <1>1, <1>4, <1>7
  <2>2. Max(1 .. n) \in 1 .. n /\ \A i \in 1 .. n : i <= Max(1 .. n)
    BY <1>8, <2>1, LastPlace
  <2>3. n <= Max(1 .. n) /\ Max(1 .. n) <= n /\ Max(1 .. n) \in Int
    BY <2>1, <2>2
  <2> QED
    BY <2>1, <2>3
<1>11. g[1 .. n] = IF files[n].bitrate > g[1 .. n - 1].bitrate
                   THEN files[n] ELSE g[1 .. n - 1]
  BY <1>5, <1>6, <1>8, <1>10
<1>12. BestOf(files, 1 .. n) = IF files[n].bitrate > BestOf(files, (1 .. n) \ {n}).bitrate
                               THEN files[n] ELSE BestOf(files, (1 .. n) \ {n})
  <2>1. n \in 1 .. n /\ \A j \in 1 .. n : j <= n
    BY <1>1, <1>4, <1>7
  <2> QED
    BY <1>6, <2>1, BestStep
<1> QED
  BY <1>4, <1>8, <1>9, <1>11, <1>12

(* There is something to find.                                             *)
LEMMA SearchExists ==
    ASSUME NEW X, HaveBitrates(X), NEW files \in Seq(X)
    PROVE  \E g : Searches(g, files)
<1> DEFINE g == [s \in SUBSET DOMAIN files |-> BestOf(files, s)]
<1>1. ASSUME NEW s \in SUBSET DOMAIN files
      PROVE  g[s] = IF s = {} THEN NoMediaFile
                    ELSE IF files[Max(s)].bitrate > g[s \ {Max(s)}].bitrate
                         THEN files[Max(s)] ELSE g[s \ {Max(s)}]
  <2>1. CASE s = {}
    BY <2>1 DEF BestOf
  <2>2. CASE s # {}
    <3>1. Len(files) \in Nat /\ s \in SUBSET (1 .. Len(files))
      OBVIOUS
    <3>2. Max(s) \in s /\ \A i \in s : i <= Max(s)
      BY <2>2, <3>1, LastPlace
    <3>3. s \ {Max(s)} \in SUBSET DOMAIN files
      OBVIOUS
    <3>4. g[s \ {Max(s)}] = BestOf(files, s \ {Max(s)}) /\ g[s] = BestOf(files, s)
      BY <3>3
    <3>5. BestOf(files, s) = IF files[Max(s)].bitrate > BestOf(files, s \ {Max(s)}).bitrate
                             THEN files[Max(s)] ELSE BestOf(files, s \ {Max(s)})
      BY <3>2, BestStep
    <3> HIDE DEF g
    <3> QED
      BY <2>2, <3>4, <3>5
  <2> QED
    BY <2>1, <2>2
<1>2. g = [s \in SUBSET DOMAIN files |-> g[s]]
  OBVIOUS
<1> HIDE DEF g
<1>3. Searches(g, files)
  BY <1>1, <1>2 DEF Searches
<1> QED
  BY <1>3

(* An ad has a sequence of media files in each of its creatives.           *)
HasMediaFiles(ad, X) ==
    /\ IsSequence(ad.creatives)
    /\ \A i \in DOMAIN ad.creatives : ad.creatives[i].mediaFiles \in Seq(X)

(* The media files of such an ad.                                          *)
LEMMA MediaFilesOfAd ==
    ASSUME NEW X, NEW ad, HasMediaFiles(ad, X)
    PROVE  /\ MediaFiles(ad) \in Seq(X)
           /\ \A i \in DOMAIN MediaFiles(ad) :
                 \E c \in DOMAIN ad.creatives : \E j \in DOMAIN ad.creatives[c].mediaFiles :
                     MediaFiles(ad)[i] = ad.creatives[c].mediaFiles[j]
           /\ \A c \in DOMAIN ad.creatives : \A j \in DOMAIN ad.creatives[c].mediaFiles :
                 \E i \in DOMAIN MediaFiles(ad) :
                     MediaFiles(ad)[i] = ad.creatives[c].mediaFiles[j]
           /\ ad.creatives # <<>> => \A j \in DOMAIN ad.creatives[1].mediaFiles :
                 /\ j \in DOMAIN MediaFiles(ad)
                 /\ MediaFiles(ad)[j] = ad.creatives[1].mediaFiles[j]
<1> DEFINE lists == [i \in DOMAIN ad.creatives |-> ad.creatives[i].mediaFiles]
<1>1. lists \in Seq(Seq(X))
  BY DEF HasMediaFiles, IsSequence
<1>2. /\ DOMAIN lists = DOMAIN ad.creatives
      /\ \A i \in DOMAIN lists : lists[i] = ad.creatives[i].mediaFiles
      /\ ad.creatives # <<>> => lists # <<>> /\ 1 \in DOMAIN lists
  BY DEF HasMediaFiles, IsSequence
<1>3. MediaFiles(ad) = FlattenSeq(lists)
  BY DEF MediaFiles
<1> HIDE DEF lists
<1>4. /\ FlattenSeq(lists) \in Seq(X)
      /\ \A i \in DOMAIN FlattenSeq(lists) : \E c \in DOMAIN lists : \E j \in DOMAIN lists[c] :
            FlattenSeq(lists)[i] = lists[c][j]
      /\ \A c \in DOMAIN lists : \A j \in DOMAIN lists[c] : \E i \in DOMAIN FlattenSeq(lists) :
            FlattenSeq(lists)[i] = lists[c][j]
      /\ lists # <<>> => \A j \in DOMAIN lists[1] :
            j \in DOMAIN FlattenSeq(lists) /\ FlattenSeq(lists)[j] = lists[1][j]
  BY <1>1, FlattenProperties
<1> QED
  BY <1>2, <1>3, <1>4

(* The loop finds the best media file of an ad.                            *)
LEMMA BestMediaFile ==
    ASSUME NEW X, HaveBitrates(X), NEW ad, MediaFiles(ad) \in Seq(X)
    PROVE  GetBestMediaFileFromVastAd(ad) = BestOf(MediaFiles(ad), DOMAIN MediaFiles(ad))
<1> DEFINE files == MediaFiles(ad)
           g == CHOOSE it : it = [s \in SUBSET DOMAIN files |->
                    IF s = {} THEN NoMediaFile
                    ELSE IF files[Max(s)].bitrate > it[s \ {Max(s)}].bitrate
                         THEN files[Max(s)] ELSE it[s \ {Max(s)}]]
<1>1. GetBestMediaFileFromVastAd(ad) = g[DOMAIN files]
  BY DEF GetBestMediaFileFromVastAd, FoldLeft, MapThenFoldSet
<1>2. Searches(g, files)
  <2>1. files \in Seq(X)
    OBVIOUS
  <2>2. \E it : Searches(it, files)
    <3> HIDE DEF files
    <3> QED
      BY <2>1, SearchExists
  <2> HIDE DEF files
  <2> QED
    BY <2>2 DEF Searches
<1> HIDE DEF g, files
<1>3. g[DOMAIN files] = BestOf(files, DOMAIN files)
  BY <1>2, SearchFindsBest DEF files
<1> QED
  BY <1>1, <1>3 DEF files

(* The ads of documents have bitrates.                                     *)
LEMMA BestOfAd ==
    ASSUME NEW ad \in Ad
    PROVE  /\ ad.creatives \in Seq(Creative)
           /\ HasMediaFiles(ad, MediaFile) /\ HaveBitrates(MediaFile)
           /\ MediaFiles(ad) \in Seq(MediaFile)
           /\ GetBestMediaFileFromVastAd(ad) = BestOf(MediaFiles(ad), DOMAIN MediaFiles(ad))
           /\ GetBestMediaFileFromVastAd(ad) \in MediaFile \cup {NoMediaFile}
<1>1. ad.creatives \in Seq(Creative)
  BY DEF Ad
<1>2. \A i \in DOMAIN ad.creatives : ad.creatives[i].mediaFiles \in Seq(MediaFile)
  <2>1. \A i \in DOMAIN ad.creatives : ad.creatives[i] \in Creative
    BY <1>1
  <2> QED
    BY <2>1 DEF Creative
<1>3. HasMediaFiles(ad, MediaFile) /\ MediaFiles(ad) \in Seq(MediaFile)
  <2>1. IsSequence(ad.creatives)
    BY <1>1, TypedSequence
  <2> QED
    BY <1>2, <2>1, MediaFilesOfAd DEF HasMediaFiles
<1>4. HaveBitrates(MediaFile)
  BY DEF HaveBitrates, MediaFile
<1>5. GetBestMediaFileFromVastAd(ad) = BestOf(MediaFiles(ad), DOMAIN MediaFiles(ad))
  BY <1>3, <1>4, BestMediaFile
<1>6. BestOf(MediaFiles(ad), DOMAIN MediaFiles(ad)) \in MediaFile \cup {NoMediaFile}
  <2> DEFINE files == MediaFiles(ad)
  <2>1. \A i \in DOMAIN files : files[i] \in MediaFile
    BY <1>3
  <2>2. BestOf(files, DOMAIN files) \in MediaFile \cup {NoMediaFile}
    <3> HIDE DEF files
    <3> QED
      BY <2>1 DEF BestOf
  <2> QED
    BY <2>2
<1> QED
  BY <1>1, <1>3, <1>4, <1>5, <1>6

(* An ad with a playlist lists the playlist only.                          *)
LEMMA PlaylistListed ==
    ASSUME NEW ad \in Ad, ad.creatives # <<>>, NEW playlist
    PROVE  LET new == NewMediaFile(ad, playlist)
               listed == PlaylistAd(ad, playlist)
           IN /\ new.text = playlist
              /\ new.bitrate = GetBestMediaFileFromVastAd(ad).bitrate
              /\ listed.id = ad.id
              /\ DOMAIN listed.creatives = DOMAIN ad.creatives
              /\ listed.creatives = [c \in DOMAIN ad.creatives |-> listed.creatives[c]]
              /\ listed.creatives[1].mediaFiles = <<new>>
              /\ \A c \in DOMAIN ad.creatives \ {1} : listed.creatives[c] = ad.creatives[c]
<1> DEFINE new == NewMediaFile(ad, playlist)
           listed == PlaylistAd(ad, playlist)
           best == GetBestMediaFileFromVastAd(ad)
<1>1. DOMAIN best = {"text", "bitrate", "size"}
  <2>1. best \in MediaFile \cup {NoMediaFile}
    BY BestOfAd
  <2> HIDE DEF best
  <2> QED
    BY <2>1 DEF MediaFile, NoMediaFile
<1>2. new.text = playlist /\ new.bitrate = best.bitrate
  <2> HIDE DEF best
  <2>1. new = [best EXCEPT !.text = playlist]
    BY DEF NewMediaFile, best
  <2> QED
    BY <1>1, <2>1
<1> HIDE DEF new
<1>3. ad.creatives \in Seq(Creative) /\ 1 \in DOMAIN ad.creatives
  BY BestOfAd
<1>4. ad.creatives[1] \in Creative
  BY <1>3
<1>5. listed = [ad EXCEPT !.creatives[1].mediaFiles = <<new>>]
  BY DEF PlaylistAd, new
<1>6. /\ listed.id = ad.id
      /\ listed.creatives = [ad.creatives EXCEPT ![1].mediaFiles = <<new>>]
  BY <1>5 DEF Ad
<1> HIDE DEF listed
<1>7. /\ DOMAIN listed.creatives = DOMAIN ad.creatives
      /\ listed.creatives = [c \in DOMAIN ad.creatives |-> listed.creatives[c]]
      /\ listed.creatives[1].mediaFiles = <<new>>
      /\ \A c \in DOMAIN ad.creatives \ {1} : listed.creatives[c] = ad.creatives[c]
  BY <1>3, <1>4, <1>6 DEF Creative
<1> QED
  BY <1>2, <1>6, <1>7 DEF new, listed, best

(* It is the best media file of the ad unless there were no bitrates,      *)
(* although the other creatives keep theirs.                               *)
LEMMA PlaylistBest ==
    ASSUME NEW ad \in Ad, ad.creatives # <<>>, NEW playlist,
           GetBestMediaFileFromVastAd(ad) # NoMediaFile
    PROVE  GetBestMediaFileFromVastAd(PlaylistAd(ad, playlist)) = NewMediaFile(ad, playlist)
<1> DEFINE new == NewMediaFile(ad, playlist)
           listed == PlaylistAd(ad, playlist)
           best == GetBestMediaFileFromVastAd(ad)
           files == MediaFiles(ad)
           X == MediaFile \cup {new}
<1>1. /\ new.bitrate = best.bitrate
      /\ DOMAIN listed.creatives = DOMAIN ad.creatives
      /\ listed.creatives = [c \in DOMAIN ad.creatives |-> listed.creatives[c]]
      /\ listed.creatives[1].mediaFiles = <<new>>
      /\ \A c \in DOMAIN ad.creatives \ {1} : listed.creatives[c] = ad.creatives[c]
  BY PlaylistListed
<1>2. /\ ad.creatives \in Seq(Creative) /\ 1 \in DOMAIN ad.creatives
      /\ HasMediaFiles(ad, MediaFile) /\ HaveBitrates(MediaFile)
      /\ files \in Seq(MediaFile)
      /\ best = BestOf(files, DOMAIN files) /\ best.bitrate \in Int
  <2>1. best \in MediaFile \cup {NoMediaFile}
    BY BestOfAd
  <2>2. best.bitrate \in Int
    <3>1. best \in MediaFile
      BY <2>1
    <3> HIDE DEF best
    <3> QED
      BY <3>1 DEF MediaFile
  <2> QED
    BY <2>2, BestOfAd
<1>3. \A c \in DOMAIN ad.creatives : ad.creatives[c].mediaFiles \in Seq(MediaFile)
  BY <1>2 DEF HasMediaFiles
<1>4. \A c \in DOMAIN ad.creatives : \A j \in DOMAIN ad.creatives[c].mediaFiles :
         \E i \in DOMAIN files : files[i] = ad.creatives[c].mediaFiles[j]
  <2> HIDE DEF X, best, new, listed
  <2> QED
    BY <1>2, MediaFilesOfAd
<1>5. best.bitrate > 0 /\ \A i \in DOMAIN files : files[i].bitrate <= best.bitrate
  <2>1. PICK i \in DOMAIN files : IsBest(files, DOMAIN files, i)
    <3> HIDE DEF files
    <3> QED
      BY <1>2, BestExists, BestIs
  <2>2. best = files[i]
    <3> HIDE DEF files, best
    <3> QED
      BY <1>2, <2>1, BestIs
  <2>3. \A j \in DOMAIN files : files[j].bitrate \in Int
    BY <1>2 DEF HaveBitrates
  <2> HIDE DEF files, best
  <2> QED
    BY <2>1, <2>2, <2>3 DEF IsBest
<1> HIDE DEF new, listed, best, files
<1>6. /\ HaveBitrates(X) /\ new \in X /\ MediaFile \subseteq X
  BY <1>1, <1>2 DEF HaveBitrates
<1>7. IsSequence(listed.creatives)
  <2>1. IsSequence(ad.creatives)
    BY <1>2 DEF HasMediaFiles
  <2> QED
    BY <1>1, <2>1, SequenceOf
<1>8. HasMediaFiles(listed, X)
  <2>1. <<new>> \in Seq(X)
    BY <1>6
  <2>2. Seq(MediaFile) \subseteq Seq(X)
    BY <1>6
  <2>3. \A c \in DOMAIN listed.creatives : listed.creatives[c].mediaFiles \in Seq(X)
    <3> HIDE DEF X
    <3> QED
      BY <1>1, <1>3, <2>1, <2>2
  <2> QED
    BY <1>7, <2>3 DEF HasMediaFiles
<1> DEFINE now == MediaFiles(listed)
<1> HIDE DEF X, now
<1>9. /\ now \in Seq(X)
      /\ \A i \in DOMAIN now :
            \E c \in DOMAIN listed.creatives : \E j \in DOMAIN listed.creatives[c].mediaFiles :
                now[i] = listed.creatives[c].mediaFiles[j]
      /\ \A j \in DOMAIN listed.creatives[1].mediaFiles :
            j \in DOMAIN now /\ now[j] = listed.creatives[1].mediaFiles[j]
  <2>1. listed.creatives # <<>>
    BY <1>1, <1>2
  <2> QED
    BY <1>8, <2>1, MediaFilesOfAd DEF now
<1>10. 1 \in DOMAIN now /\ now[1] = new
  <2>1. 1 \in DOMAIN <<new>> /\ <<new>>[1] = new
    OBVIOUS
  <2> QED
    BY <1>1, <1>9, <2>1
<1>11. ASSUME NEW i \in DOMAIN now
       PROVE  now[i].bitrate \in Int /\ now[i].bitrate <= new.bitrate
  <2>1. PICK c \in DOMAIN listed.creatives : \E j \in DOMAIN listed.creatives[c].mediaFiles :
           now[i] = listed.creatives[c].mediaFiles[j]
    BY <1>9
  <2>2. PICK j \in DOMAIN listed.creatives[c].mediaFiles :
           now[i] = listed.creatives[c].mediaFiles[j]
    BY <2>1
  <2>3. best.bitrate \in Int /\ \A k \in DOMAIN files : files[k].bitrate \in Int
    BY <1>2 DEF HaveBitrates
  <2>4. CASE c = 1
    <3>1. \A k \in DOMAIN <<new>> : <<new>>[k] = new
      OBVIOUS
    <3>2. listed.creatives[c].mediaFiles = <<new>>
      BY <1>1, <2>4
    <3>3. now[i] = new
      BY <2>2, <3>1, <3>2
    <3> QED
      BY <1>1, <2>3, <3>3
  <2>5. CASE c # 1
    <3>1. c \in DOMAIN ad.creatives /\ listed.creatives[c] = ad.creatives[c]
      BY <1>1, <2>5
    <3>2. PICK k \in DOMAIN files : files[k] = now[i]
      BY <1>4, <2>2, <3>1
    <3> QED
      BY <1>1, <1>5, <2>3, <3>2
  <2> QED
    BY <2>4, <2>5
<1>12. IsBest(now, DOMAIN now, 1)
  <2>1. new.bitrate \in Int /\ new.bitrate > 0
    BY <1>1, <1>2, <1>5 DEF HaveBitrates
  <2>2. \A j \in DOMAIN now : 1 <= j
    BY <1>9
  <2> QED
    BY <1>10, <1>11, <2>1, <2>2 DEF IsBest
<1>13. BestOf(now, DOMAIN now) = new
  BY <1>6, <1>9, <1>10, <1>12, BestIs
<1>14. GetBestMediaFileFromVastAd(listed) = BestOf(now, DOMAIN now)
  BY <1>6, <1>9, BestMediaFile DEF now
<1> QED
  BY <1>13, <1>14 DEF new, listed

-----------------------------------------------------------------------------
(* Aspect ratios.                                                          *)

(* Division with a remainder.                                              *)
LEMMA Division ==
    ASSUME NEW a \in Nat, NEW b \in Nat, b # 0
    PROVE  /\ a % b \in Nat /\ a % b < b
           /\ a \div b \in Nat /\ a = b * (a \div b) + (a % b)
OBVIOUS

Divides(d, n) == \E k \in Nat : n = d * k

(* A multiple has no remainder, and the other way round.                   *)
LEMMA Multiple ==
    ASSUME NEW d \in Nat, d # 0, NEW n \in Nat
    PROVE  /\ Divides(d, n) <=> n % d = 0
           /\ Divides(d, n) => n = d * (n \div d)
<1>1. ASSUME NEW k \in Nat, n = d * k
      PROVE  n % d = 0
  BY <1>1
<1>2. n \div d \in Nat /\ n % d \in Nat /\ n = d * (n \div d) + (n % d)
  BY Division
<1>3. ASSUME n % d = 0 PROVE n = d * (n \div d)
  BY <1>2, <1>3
<1>4. Divides(d, n) => n % d = 0
  BY <1>1 DEF Divides
<1>5. n % d = 0 => Divides(d, n)
  BY <1>2, <1>3 DEF Divides
<1> QED
  BY <1>3, <1>4, <1>5

(* Euclid's step leaves the common divisors alone.                         *)
LEMMA CommonDivisors ==
    ASSUME NEW a \in Nat, NEW b \in Nat, b # 0, NEW d \in Nat
    PROVE  Divides(d, a) /\ Divides(d, b) <=> Divides(d, b) /\ Divides(d, a % b)
<1> DEFINE q == a \div b
           r == a % b
<1>1. q \in Nat /\ r \in Nat /\ a = b * q + r
  BY Division
<1> HIDE DEF q, r
<1>2. ASSUME NEW k \in Nat, b = d * k, NEW m \in Nat, r = d * m
      PROVE  Divides(d, a)
  <2>1. a = d * (k * q + m) /\ k * q + m \in Nat
    BY <1>1, <1>2
  <2> QED
    BY <2>1 DEF Divides
<1>3. ASSUME NEW k \in Nat, b = d * k, NEW m \in Nat, a = d * m
      PROVE  Divides(d, r)
  <2>1. r = d * (m - k * q)
    <3>1. d * m = (d * k) * q + r
      BY <1>1, <1>3
    <3> QED
      BY <1>1, <3>1
  <2>2. CASE m - k * q \in Nat
    BY <2>1, <2>2 DEF Divides
  <2>3. CASE m - k * q \notin Nat
    <3>1. m - k * q \in Int /\ m - k * q < 0
      BY <1>1, <2>3
    <3>2. r = 0
      BY <1>1, <2>1, <3>1
    <3>3. r = d * 0 /\ 0 \in Nat
      BY <3>2
    <3> QED
      BY <3>3 DEF Divides
  <2> QED
    BY <2>2, <2>3
<1> QED
  BY <1>2, <1>3 DEF Divides, r

(* The greatest common divisor has just the common divisors as its own.    *)
IsGcd(g, p) ==
    /\ g \in Nat
    /\ \A d \in Nat : Divides(d, p[1]) /\ Divides(d, p[2]) <=> Divides(d, g)

(* There are no two of them.                                               *)
LEMMA GcdUnique ==
    ASSUME NEW p, NEW g, IsGcd(g, p), NEW h, IsGcd(h, p)
    PROVE  g = h
<1>1. g \in Nat /\ h \in Nat
  BY DEF IsGcd
<1>2. Divides(g, g) /\ Divides(h, h)
  BY <1>1 DEF Divides
<1>3. Divides(g, h) /\ Divides(h, g)
  BY <1>1, <1>2 DEF IsGcd
<1>4. PICK j \in Nat : g = h * j
  BY <1>3 DEF Divides
<1>5. PICK k \in Nat : h = g * k
  BY <1>3 DEF Divides
<1>6. CASE g = 0
  BY <1>5, <1>6
<1>7. CASE g > 0
  BY <1>1, <1>4, <1>5, <1>7
<1> QED
  BY <1>1, <1>6, <1>7

(* Euclid's step leaves the greatest common divisor alone, and it is the   *)
(* first number if the second is 0.                                        *)
LEMMA GcdStep ==
    ASSUME NEW a \in Nat, NEW b \in Nat, NEW g
    PROVE  /\ b = 0 => IsGcd(a, <<a, b>>)
           /\ b # 0 => (IsGcd(g, <<b, a % b>>) <=> IsGcd(g, <<a, b>>))
<1>1. ASSUME b = 0 PROVE IsGcd(a, <<a, b>>)
  <2>1. \A d \in Nat : b = d * 0
    BY <1>1
  <2>2. \A d \in Nat : Divides(d, b)
    BY <2>1 DEF Divides
  <2> QED
    BY <2>2 DEF IsGcd
<1>2. ASSUME b # 0 PROVE IsGcd(g, <<b, a % b>>) <=> IsGcd(g, <<a, b>>)
  <2>1. \A d \in Nat : Divides(d, a) /\ Divides(d, b) <=> Divides(d, b) /\ Divides(d, a % b)
    BY <1>2, CommonDivisors
  <2> QED
    BY <2>1 DEF IsGcd
<1> QED
  BY <1>1, <1>2

(* What holds after Euclid's steps down to 0, and is kept by a step back,  *)
(* holds of all pairs.                                                     *)
LEMMA Euclid ==
    ASSUME NEW Good, Good \subseteq Nat \X Nat,
           \A a \in Nat : <<a, 0>> \in Good,
           \A a, b \in Nat : b # 0 /\ <<b, a % b>> \in Good => <<a, b>> \in Good
    PROVE  Good = Nat \X Nat
<1> DEFINE T == {b \in Nat : \E a \in Nat : <<a, b>> \notin Good}
<1>1. SUFFICES ASSUME T # {} PROVE FALSE
  <2>1. \A a, b \in Nat : <<a, b>> \in Good
    OBVIOUS
  <2> QED
    BY <2>1
<1>2. PICK b \in T : \A m \in T : b <= m
  <2>1. T \subseteq Nat
    OBVIOUS
  <2> HIDE DEF T
  <2> QED
    BY <1>1, <2>1, Least
<1>3. PICK a \in Nat : <<a, b>> \notin Good
  OBVIOUS
<1>4. b \in Nat /\ b # 0
  BY <1>3
<1>5. a % b \in Nat /\ a % b < b
  BY <1>4, Division
<1>6. <<b, a % b>> \notin Good
  BY <1>3, <1>4
<1>7. a % b \in T
  BY <1>4, <1>5, <1>6
<1> HIDE DEF T
<1>8. b <= a % b
  BY <1>2, <1>7
<1> QED
  BY <1>4, <1>5, <1>8

(* Every pair has a greatest common divisor.                               *)
LEMMA GcdExists ==
    ASSUME NEW a \in Nat, NEW b \in Nat
    PROVE  \E g : IsGcd(g, <<a, b>>)
<1> DEFINE Good == {p \in Nat \X Nat : \E g : IsGcd(g, p)}
<1>1. \A x \in Nat : <<x, 0>> \in Good
  BY GcdStep
<1>2. ASSUME NEW x \in Nat, NEW y \in Nat, y # 0, <<y, x % y>> \in Good
      PROVE  <<x, y>> \in Good
  <2>1. PICK g : IsGcd(g, <<y, x % y>>)
    BY <1>2
  <2>2. IsGcd(g, <<x, y>>)
    BY <1>2, <2>1, GcdStep
  <2> QED
    BY <2>2
<1>3. Good \subseteq Nat \X Nat
  OBVIOUS
<1>4. Good = Nat \X Nat
  <2> HIDE DEF Good
  <2> QED
    BY <1>1, <1>2, <1>3, Euclid
<1> QED
  BY <1>4

(* There is something that the recursive definition of gcd defines.        *)
LEMMA GcdDefined ==
    gcd = [p \in Nat \X Nat |-> IF p[2] = 0 THEN p[1] ELSE gcd[<<p[2], p[1] % p[2]>>]]
<1> DEFINE f == [p \in Nat \X Nat |-> CHOOSE g : IsGcd(g, p)]
<1>1. \A a, b \in Nat : IsGcd(f[<<a, b>>], <<a, b>>)
  <2> SUFFICES ASSUME NEW a \in Nat, NEW b \in Nat
               PROVE  IsGcd(f[<<a, b>>], <<a, b>>)
    OBVIOUS
  <2>1. f[<<a, b>>] = CHOOSE g : IsGcd(g, <<a, b>>)
    OBVIOUS
  <2> QED
    BY <2>1, GcdExists
<1>2. f = [p \in Nat \X Nat |-> f[p]]
  OBVIOUS
<1> HIDE DEF f
<1>3. ASSUME NEW a \in Nat, NEW b \in Nat
      PROVE  f[<<a, b>>] = IF b = 0 THEN a ELSE f[<<b, a % b>>]
  <2>1. CASE b = 0
    <3>1. IsGcd(a, <<a, b>>)
      BY <2>1, GcdStep
    <3> QED
      BY <1>1, <2>1, <3>1, GcdUnique
  <2>2. CASE b # 0
    <3>1. a % b \in Nat
      BY <2>2, Division
    <3>2. IsGcd(f[<<b, a % b>>], <<b, a % b>>)
      BY <1>1, <3>1
    <3>3. IsGcd(f[<<b, a % b>>], <<a, b>>)
      BY <2>2, <3>2, GcdStep
    <3> QED
      BY <1>1, <2>2, <3>3, GcdUnique
  <2> QED
    BY <2>1, <2>2
<1>4. ASSUME NEW p \in Nat \X Nat
      PROVE  f[p] = IF p[2] = 0 THEN p[1] ELSE f[<<p[2], p[1] % p[2]>>]
  <2>1. p = <<p[1], p[2]>> /\ p[1] \in Nat /\ p[2] \in Nat
    OBVIOUS
  <2> QED
    BY <1>3, <2>1
<1>5. f = [p \in Nat \X Nat |-> IF p[2] = 0 THEN p[1] ELSE f[<<p[2], p[1] % p[2]>>]]
  BY <1>2, <1>4
<1> QED
  BY <1>5 DEF gcd

(* Euclid's algorithm finds the greatest common divisor.                   *)
LEMMA GcdFound ==
    ASSUME NEW a \in Nat, NEW b \in Nat
    PROVE  IsGcd(gcd[<<a, b>>], <<a, b>>)
<1> DEFINE Good == {p \in Nat \X Nat : IsGcd(gcd[p], p)}
<1>1. ASSUME NEW x \in Nat, NEW y \in Nat
      PROVE  gcd[<<x, y>>] = IF y = 0 THEN x ELSE gcd[<<y, x % y>>]
  <2> DEFINE p == <<x, y>>
  <2>1. p \in Nat \X Nat /\ p[1] = x /\ p[2] = y
    OBVIOUS
  <2> HIDE DEF p
  <2>2. gcd[p] = IF p[2] = 0 THEN p[1] ELSE gcd[<<p[2], p[1] % p[2]>>]
    BY <2>1, GcdDefined
  <2> QED
    BY <2>1, <2>2 DEF p
<1>2. \A x \in Nat : <<x, 0>> \in Good
  BY <1>1, GcdStep
<1>3. ASSUME NEW x \in Nat, NEW y \in Nat, y # 0, <<y, x % y>> \in Good
      PROVE  <<x, y>> \in Good
  <2>1. IsGcd(gcd[<<y, x % y>>], <<y, x % y>>)
    BY <1>3
  <2>2. IsGcd(gcd[<<x, y>>], <<x, y>>)
    BY <1>1, <1>3, <2>1, GcdStep
  <2> QED
    BY <2>2
<1>4. Good \subseteq Nat \X Nat
  OBVIOUS
<1>5. Good = Nat \X Nat
  <2> HIDE DEF Good
  <2> QED
    BY <1>2, <1>3, <1>4, Euclid
<1> QED
  BY <1>5

(* The aspect ratio is that of the size, in lowest terms.                  *)
LEMMA LowestTerms ==
    ASSUME NEW w \in Nat, NEW h \in Nat, w # 0, h # 0
    PROVE  LET ratio == AspectRatio(w, h)
           IN /\ ratio[1] \in Nat /\ ratio[2] \in Nat
              /\ ratio[1] * h = ratio[2] * w
              /\ \A d \in Nat : d > 1 => ~(ratio[1] % d = 0 /\ ratio[2] % d = 0)
<1> DEFINE g == gcd[<<w, h>>]
           x == w \div g
           y == h \div g
<1>1. /\ g \in Nat
      /\ \A d \in Nat : Divides(d, w) /\ Divides(d, h) <=> Divides(d, g)
  BY GcdFound DEF IsGcd
<1>2. AspectRatio(w, h) = <<x, y>>
  BY DEF AspectRatio
<1> HIDE DEF g
<1>3. Divides(g, w) /\ Divides(g, h)
  <2>1. g = g * 1
    BY <1>1
  <2>2. Divides(g, g)
    BY <2>1 DEF Divides
  <2> QED
    BY <1>1, <2>2
<1>4. g # 0
  BY <1>3 DEF Divides
<1>5. x \in Nat /\ y \in Nat /\ w = g * x /\ h = g * y
  BY <1>1, <1>3, <1>4, Multiple, Division
<1> HIDE DEF x, y
<1>6. x * h = y * w
  BY <1>1, <1>5
<1>7. ASSUME NEW d \in Nat, d > 1, x % d = 0, y % d = 0
      PROVE  FALSE
  <2>1. d # 0 /\ Divides(d, x) /\ Divides(d, y)
    BY <1>5, <1>7, Multiple
  <2>2. PICK j \in Nat : x = d * j
    BY <2>1 DEF Divides
  <2>3. PICK k \in Nat : y = d * k
    BY <2>1 DEF Divides
  <2>4. g * d \in Nat /\ w = (g * d) * j /\ h = (g * d) * k
    BY <1>1, <1>5, <2>2, <2>3
  <2>5. PICK m \in Nat : g = (g * d) * m
    BY <1>1, <2>4 DEF Divides
  <2>6. m # 0
    BY <1>4, <2>4, <2>5
  <2>7. d * m > 1 /\ d * m \in Nat
    BY <1>7, <2>6
  <2>8. g * (d * m) > g
    BY <1>1, <1>4, <2>7
  <2>9. (g * d) * m = g * (d * m)
    <3>1. \A a, b, c \in Nat : (a * b) * c = a * (b * c)
      OBVIOUS
    <3>2. g \in Nat /\ d \in Nat /\ m \in Nat
      BY <1>1, <1>7, <2>5
    <3> QED
      BY <3>1, <3>2
  <2> QED
    BY <1>1, <2>5, <2>8, <2>9
<1>8. AspectRatio(w, h)[1] = x /\ AspectRatio(w, h)[2] = y
  BY <1>2
<1>9. \A d \in Nat : d > 1 => ~(x % d = 0 /\ y % d = 0)
  BY <1>7
<1> QED
  BY <1>5, <1>6, <1>8, <1>9

-----------------------------------------------------------------------------
(* Frame rates.                                                            *)

(* A sorted sequence has the elements it had, in ascending order.          *)
LEMMA SortedProperties ==
    ASSUME NEW s \in Seq(Int)
    PROVE  /\ Sorted(s) \in Seq(Int)
           /\ ToSet(Sorted(s)) = ToSet(s)
           /\ \A m, n \in DOMAIN Sorted(s) : m < n => Sorted(s)[m] <= Sorted(s)[n]
<1> DEFINE S == DOMAIN s
           ahead == [i \in S |-> NotBehind(s, i)]
           place == [n \in S |-> CHOOSE i \in S : Cardinality(NotBehind(s, i)) = n]
<1>1. Len(s) \in Nat /\ S = 1 .. Len(s) /\ \A i \in S : i \in Int /\ s[i] \in Int
  OBVIOUS
<1>2. IsFiniteSet(S) /\ Cardinality(S) = Len(s)
  <2> HIDE DEF S
  <2>1. /\ IsFiniteSet(1 .. Len(s))
        /\ Cardinality(1 .. Len(s)) = IF 1 > Len(s) THEN 0 ELSE Len(s) - 1 + 1
    BY <1>1, FS_Interval
  <2> QED
    BY <1>1, <2>1
<1>3. ahead \in [S -> SUBSET S]
  BY DEF NotBehind
<1>4. \A i, j \in S : j \in ahead[i] <=> s[j] < s[i] \/ (s[j] = s[i] /\ j <= i)
  BY DEF NotBehind
<1>5. Sorted(s) = [n \in S |-> s[place[n]]]
  BY DEF Sorted
<1> HIDE DEF ahead, S
<1>6. \A i \in S : i \in ahead[i]
  BY <1>1, <1>4
<1>7. ASSUME NEW i \in S, NEW j \in S, j \notin ahead[i]
      PROVE  ahead[i] \subseteq ahead[j]
  <2>1. s[i] < s[j] \/ (s[i] = s[j] /\ i < j)
    BY <1>1, <1>4, <1>7
  <2>2. ASSUME NEW x \in S, x \in ahead[i] PROVE x \in ahead[j]
    BY <1>1, <1>4, <2>1, <2>2
  <2> QED
    BY <1>3, <2>2
<1>8. \A i, j \in S : i # j => j \notin ahead[i] \/ i \notin ahead[j]
  BY <1>1, <1>4
<1>9. /\ \A i \in S : Cardinality(ahead[i]) \in 1 .. Cardinality(S)
      /\ \A i, j \in S : j \notin ahead[i] => Cardinality(ahead[i]) < Cardinality(ahead[j])
      /\ \A i, j \in S : Cardinality(ahead[i]) = Cardinality(ahead[j]) => i = j
      /\ \A n \in 1 .. Cardinality(S) : \E i \in S : Cardinality(ahead[i]) = n
  <2>1. \A i, j \in S : i # j =>
           \/ ahead[i] \subseteq ahead[j] /\ j \notin ahead[i]
           \/ ahead[j] \subseteq ahead[i] /\ i \notin ahead[j]
    BY <1>7, <1>8
  <2> QED
    BY ONLY <1>2, <1>3, <1>6, <2>1, Ranks
<1>10. ASSUME NEW n \in S
       PROVE  place[n] \in S /\ Cardinality(ahead[place[n]]) = n
  <2>1. \A i \in S : ahead[i] = NotBehind(s, i)
    BY DEF ahead
  <2>2. PICK i \in S : Cardinality(ahead[i]) = n
    <3> HIDE DEF place
    <3> QED
      BY <1>1, <1>2, <1>9
  <2>3. \E j \in S : Cardinality(NotBehind(s, j)) = n
    BY <2>1, <2>2
  <2> QED
    BY <2>1, <2>3
<1>11. ASSUME NEW i \in S
       PROVE  \E n \in S : place[n] = i
  <2>1. Cardinality(ahead[i]) \in S
    BY <1>1, <1>2, <1>9
  <2>2. place[Cardinality(ahead[i])] = i
    BY <1>9, <1>10, <2>1
  <2> QED
    BY <2>1, <2>2
<1> HIDE DEF place
<1>12. Sorted(s) \in Seq(Int)
  <2>1. \A n \in 1 .. Len(s) : s[place[n]] \in Int
    BY <1>1, <1>10
  <2>2. Sorted(s) = [n \in 1 .. Len(s) |-> s[place[n]]]
    BY <1>1, <1>5
  <2> QED
    BY <1>1, <2>1, <2>2
<1>13. ToSet(Sorted(s)) = ToSet(s)
  <2>1. \A n \in S : \E i \in S : Sorted(s)[n] = s[i]
    BY <1>5, <1>10
  <2>2. \A i \in S : \E n \in S : Sorted(s)[n] = s[i]
    BY <1>5, <1>11
  <2>3. DOMAIN Sorted(s) = S
    BY <1>5
  <2>4. DOMAIN s = S
    BY DEF S
  <2> QED
    BY <2>1, <2>2, <2>3, <2>4 DEF ToSet
<1>14. ASSUME NEW m \in S, NEW n \in S, m < n
       PROVE  Sorted(s)[m] <= Sorted(s)[n]
  <2> DEFINE i == place[m]
             j == place[n]
  <2>1. i \in S /\ j \in S /\ Cardinality(ahead[i]) = m /\ Cardinality(ahead[j]) = n
    BY <1>10
  <2>2. Sorted(s)[m] = s[i] /\ Sorted(s)[n] = s[j]
    BY <1>5
  <2> HIDE DEF i, j
  <2>3. SUFFICES ASSUME s[j] < s[i] PROVE FALSE
    BY <1>1, <2>1, <2>2
  <2>4. i \notin ahead[j]
    <3>1. ~(s[i] < s[j]) /\ s[i] # s[j]
      BY <1>1, <2>1, <2>3
    <3> QED
      BY <1>4, <2>1, <3>1
  <2>5. Cardinality(ahead[j]) < Cardinality(ahead[i])
    BY <1>9, <2>1, <2>4
  <2>6. n < m
    BY <2>1, <2>5
  <2> QED
    BY <1>1, <1>14, <2>6
<1> QED
  BY <1>5, <1>12, <1>13, <1>14

(* In ascending order, equal elements are neighbours: what is left of them *)
(* is one, unless they are no numbers.                                     *)
LEMMA CompactProperties ==
    ASSUME NEW s \in Seq(Int), \A m, n \in DOMAIN s : m < n => s[m] <= s[n]
    PROVE  /\ IsSequence(Compact(s))
           /\ ToSet(Compact(s)) = ToSet(s)
           /\ NaN \notin ToSet(s) =>
                 \A m, n \in DOMAIN Compact(s) : m < n => Compact(s)[m] < Compact(s)[n]
<1> DEFINE I == {i \in DOMAIN s : i = 1 \/ s[i] # s[i - 1] \/ s[i] = NaN}
           t == Compact(s)
<1>1. /\ Len(s) \in Nat /\ DOMAIN s = 1 .. Len(s)
      /\ \A i \in DOMAIN s : i \in Int /\ s[i] \in Int
  OBVIOUS
<1>2. t = Keep(s, I) /\ I \in SUBSET DOMAIN s
  BY DEF Compact
<1>3. \A i \in DOMAIN s : i = 1 \/ s[i] # s[i - 1] => i \in I
  OBVIOUS
<1>4. \A i \in I : i \in DOMAIN s /\ (i = 1 \/ s[i] # s[i - 1] \/ s[i] = NaN)
  OBVIOUS
<1> HIDE DEF I, t
<1>5. /\ IsSequence(t)
      /\ \A n \in DOMAIN t : Nth(I, n) \in I /\ t[n] = s[Nth(I, n)]
      /\ \A i \in I : \E n \in DOMAIN t : Nth(I, n) = i
      /\ \A m, n \in DOMAIN t : m < n => Nth(I, m) < Nth(I, n)
  BY <1>2, TypedSequence, KeepProperties
<1>6. ASSUME NEW i \in DOMAIN s
      PROVE  \E n \in DOMAIN t : t[n] = s[i]
  <2> DEFINE E == {j \in DOMAIN s : s[j] = s[i]}
  <2>1. E \subseteq Nat /\ E # {}
    BY <1>1
  <2>2. PICK j \in E : \A m \in E : j <= m
    BY <2>1, Least
  <2>3. j \in DOMAIN s /\ s[j] = s[i]
    OBVIOUS
  <2>4. ASSUME j # 1, s[j] = s[j - 1] PROVE FALSE
    <3>1. j - 1 \in E /\ ~(j <= j - 1)
      BY <1>1, <2>3, <2>4
    <3> HIDE DEF E
    <3> QED
      BY <2>2, <3>1
  <2>5. j \in I
    BY <1>3, <2>3, <2>4
  <2> QED
    BY <1>5, <2>3, <2>5
<1>7. ToSet(t) = ToSet(s)
  BY <1>4, <1>5, <1>6 DEF ToSet
<1>8. ASSUME NaN \notin ToSet(s), NEW m \in DOMAIN t, NEW n \in DOMAIN t, m < n
      PROVE  t[m] < t[n]
  <2> DEFINE a == Nth(I, m)
             b == Nth(I, n)
  <2>1. a \in DOMAIN s /\ b \in I /\ b \in DOMAIN s /\ a < b /\ t[m] = s[a] /\ t[n] = s[b]
    BY <1>4, <1>5, <1>8
  <2> HIDE DEF a, b
  <2>2. b # 1 /\ b - 1 \in DOMAIN s /\ a <= b - 1 /\ b - 1 < b
    BY <1>1, <2>1
  <2>3. s[b] # NaN
    BY <1>8, <2>1 DEF ToSet
  <2>4. s[b] # s[b - 1]
    BY <1>4, <2>1, <2>2, <2>3
  <2>5. s[b - 1] <= s[b]
    BY <2>1, <2>2
  <2>6. s[a] <= s[b - 1]
    <3>1. CASE a = b - 1
      BY <1>1, <2>1, <3>1
    <3>2. CASE a < b - 1
      BY <2>1, <2>2, <3>2
    <3> QED
      BY <1>1, <2>1, <2>2, <3>1, <3>2
  <2> QED
    BY <1>1, <2>1, <2>2, <2>4, <2>5, <2>6
<1> QED
  BY <1>5, <1>7, <1>8 DEF t

(* A frame rate is a number or not a number.                               *)
LEMMA FrameRate ==
    ASSUME NEW parts \in Seq(Nat \cup {Unparsed}), parts # <<>>
    PROVE  ParseFrameRate(parts) \in Nat \cup {NaN}
<1> DEFINE d == IF Len(parts) = 2 /\ parts[2] # Unparsed THEN parts[2] ELSE 1
           n == parts[1]
<1>1. n \in Nat \cup {Unparsed} /\ d \in Nat
  OBVIOUS
<1>2. ParseFrameRate(parts) = IF n = Unparsed THEN 0 ELSE Hundredths(n, d)
  BY DEF ParseFrameRate
<1> HIDE DEF n, d
<1>3. ASSUME n \in Nat, d # 0
      PROVE  (200 * n + d) \div (2 * d) \in Nat
  <2>1. 200 * n + d \in Nat /\ 2 * d \in Nat /\ 2 * d # 0
    BY <1>1, <1>3
  <2> QED
    BY <2>1, Division
<1> QED
  BY <1>1, <1>2, <1>3 DEF Hundredths, Infinite

(* The frame rates of the streams that give one.                           *)
LEMMA RatesParsed ==
    ASSUME NEW streams \in Seq(VideoStream)
    PROVE  /\ ParsedRates(streams) \in Seq(Int)
           /\ ToSet(ParsedRates(streams)) =
                 {ParseFrameRate(streams[i].frameRate) :
                     i \in {j \in DOMAIN streams : streams[j].frameRate # <<>>}}
           /\ ToSet(ParsedRates(streams)) \subseteq Nat \cup {NaN}
<1> DEFINE I == {j \in DOMAIN streams : streams[j].frameRate # <<>>}
           given == Keep(streams, I)
           rates == ParsedRates(streams)
<1>1. \A i \in DOMAIN streams : streams[i].frameRate \in Seq(Nat \cup {Unparsed})
  <2>1. \A i \in DOMAIN streams : streams[i] \in VideoStream
    OBVIOUS
  <2> QED
    BY <2>1 DEF VideoStream
<1>2. I \in SUBSET DOMAIN streams
  OBVIOUS
<1>3. ASSUME NEW i \in I
      PROVE  ParseFrameRate(streams[i].frameRate) \in Nat \cup {NaN}
  BY <1>1, FrameRate
<1>4. rates = [n \in DOMAIN given |-> ParseFrameRate(given[n].frameRate)]
  BY DEF ParsedRates
<1>5. {ParseFrameRate(streams[i].frameRate) : i \in I} \subseteq Nat \cup {NaN}
  BY <1>3
<1> HIDE DEF I
<1>6. /\ IsSequence(given)
      /\ \A n \in DOMAIN given : Nth(I, n) \in I /\ given[n] = streams[Nth(I, n)]
      /\ \A i \in I : \E n \in DOMAIN given : Nth(I, n) = i
  BY <1>2, TypedSequence, KeepProperties
<1> HIDE DEF given, rates
<1>7. ToSet(rates) = {ParseFrameRate(streams[i].frameRate) : i \in I}
  BY <1>4, <1>6 DEF ToSet
<1>8. rates \in Seq(Int)
  <2>1. Len(given) \in Nat /\ DOMAIN given = 1 .. Len(given)
    BY <1>6 DEF IsSequence
  <2>2. \A n \in DOMAIN rates : rates[n] \in Int
    BY <1>5, <1>7 DEF ToSet, NaN
  <2>3. rates = [n \in 1 .. Len(given) |-> rates[n]]
    BY <1>4, <2>1
  <2> QED
    BY <2>1, <2>2, <2>3
<1> QED
  BY <1>5, <1>7, <1>8 DEF I, rates

(* The frame rates of a job: once each and in ascending order, if they are *)
(* numbers.                                                                *)
LEMMA RatesFound ==
    ASSUME NEW outputs \in Outputs
    PROVE  LET rates == GetFrameRates(outputs)
               streams == VideoStreams(outputs)
           IN /\ IsSequence(rates)
              /\ ToSet(rates) = {ParseFrameRate(streams[i].frameRate) :
                                    i \in {j \in DOMAIN streams : streams[j].frameRate # <<>>}}
              /\ ToSet(rates) \subseteq Nat \cup {NaN}
              /\ NaN \notin ToSet(rates) =>
                    \A m, n \in DOMAIN rates : m < n => rates[m] < rates[n]
<1> DEFINE lists == [i \in DOMAIN outputs |-> outputs[i].videoStreams]
           parsed == ParsedRates(VideoStreams(outputs))
<1>1. lists \in Seq(Seq(VideoStream))
  <2>1. \A i \in DOMAIN outputs : outputs[i].videoStreams \in Seq(VideoStream)
    <3> DEFINE Output == [videoStreams : Seq(VideoStream), audio : BOOLEAN]
    <3>1. outputs \in Seq(Output)
      BY DEF Outputs
    <3>2. \A output \in Output : output.videoStreams \in Seq(VideoStream)
      OBVIOUS
    <3> HIDE DEF Output
    <3>3. \A i \in DOMAIN outputs : outputs[i] \in Output
      BY <3>1
    <3> QED
      BY <3>2, <3>3
  <2>2. Len(outputs) \in Nat /\ DOMAIN outputs = 1 .. Len(outputs)
    BY DEF Outputs
  <2> HIDE DEF parsed
  <2> QED
    BY <2>1, <2>2
<1>2. VideoStreams(outputs) = FlattenSeq(lists)
  BY DEF VideoStreams
<1> HIDE DEF lists
<1>3. VideoStreams(outputs) \in Seq(VideoStream)
  BY <1>1, <1>2, FlattenProperties
<1>4. GetFrameRates(outputs) = Compact(Sorted(parsed))
  BY DEF GetFrameRates
<1> DEFINE streams == VideoStreams(outputs)
<1>5. /\ parsed \in Seq(Int)
      /\ ToSet(parsed) = {ParseFrameRate(streams[i].frameRate) :
                             i \in {j \in DOMAIN streams : streams[j].frameRate # <<>>}}
      /\ ToSet(parsed) \subseteq Nat \cup {NaN}
  BY <1>3, RatesParsed
<1> HIDE DEF parsed, streams
<1>6. /\ Sorted(parsed) \in Seq(Int) /\ ToSet(Sorted(parsed)) = ToSet(parsed)
      /\ \A m, n \in DOMAIN Sorted(parsed) : m < n => Sorted(parsed)[m] <= Sorted(parsed)[n]
  BY <1>5, SortedProperties
<1>7. /\ IsSequence(Compact(Sorted(parsed)))
      /\ ToSet(Compact(Sorted(parsed))) = ToSet(Sorted(parsed))
      /\ NaN \notin ToSet(Sorted(parsed)) =>
            \A m, n \in DOMAIN Compact(Sorted(parsed)) :
                m < n => Compact(Sorted(parsed))[m] < Compact(Sorted(parsed))[n]
  BY <1>6, CompactProperties
<1> QED
  BY <1>4, <1>5, <1>6, <1>7 DEF streams
=============================================================================
