------------------------------- MODULE Order -------------------------------
(***************************************************************************)
(* What the programs get from Go's sort and from a loop that takes entries *)
(* out of a slice: the same things in another order, or fewer of them in   *)
(* the same order.                                                         *)
(***************************************************************************)
EXTENDS Naturals, Sequences, FiniteSets

\* A sequence with its values in another order.
Arrangements(s) ==
  {[k \in DOMAIN s |-> s[p[k]]] :
     p \in {q \in [DOMAIN s -> DOMAIN s] : \A i, j \in DOMAIN s : q[i] = q[j] => i = j}}

\* sort.Strings: the arrangement in which no value stands behind a greater one.
Sorted(s, Less(_, _)) ==
  CHOOSE t \in Arrangements(s) : \A i, j \in DOMAIN t : i < j => ~Less(t[j], t[i])

\* The numbers of a finite set, the least one first.
Ascending(S) ==
  CHOOSE s \in [1 .. Cardinality(S) -> S] : \A i, j \in DOMAIN s : i < j => s[i] < s[j]

\* The entries of a sequence at these places, in the order they are in.
Entries(s, places) == [k \in 1 .. Cardinality(places) |-> s[Ascending(places)[k]]]
=============================================================================
