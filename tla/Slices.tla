------------------------------- MODULE Slices -------------------------------
(***************************************************************************)
(* What loops over Go's slices leave of a sequence: the elements they      *)
(* keep, in their order, and the same elements sorted.                     *)
(*                                                                         *)
(* Both are given by where an element goes: its place is the number of     *)
(* those that are not behind it.                                           *)
(***************************************************************************)
EXTENDS Naturals, SequencesExt

(* Whatever its elements are.                                              *)
IsSequence(s) == s \in Seq(ToSet(s))

(* The n-th smallest of a set of numbers.                                  *)
Nth(S, n) == CHOOSE i \in S : Cardinality({j \in S : j <= i}) = n

(* The elements of s at the places I.                                      *)
Keep(s, I) == [n \in 1 .. Cardinality(I) |-> s[Nth(I, n)]]

(* slices.Sort: equal elements keep their order.                           *)
NotBehind(s, i) == {j \in DOMAIN s : s[j] < s[i] \/ (s[j] = s[i] /\ j <= i)}
Sorted(s) ==
    [n \in DOMAIN s |-> s[CHOOSE i \in DOMAIN s : Cardinality(NotBehind(s, i)) = n]]
=============================================================================
