---------------------------- MODULE OrderProofs ----------------------------
(***************************************************************************)
(* Proofs about Order: what sorting and taking out give, for every finite  *)
(* set, sequence and order.  The induction is over finite sets, of which   *)
(* the library says that strict inclusion is well-founded.                 *)
(***************************************************************************)
EXTENDS Order, Integers, FiniteSetTheorems, WellFoundedInduction, TLAPS

\* Among finite sets there is one that includes no other.
LEMMA LeastSet ==
  ASSUME NEW S, NEW F \in SUBSET FiniteSubsetsOf(S), F # {}
  PROVE  \E T \in F : \A U \in F : U \subseteq T => U = T
<1>1. PICK T \in F : \A U \in F : ~ (<<U, T>> \in StrictSubsetOrdering(S))
  BY FS_StrictSubsetOrderingWellFounded, WFMin
<1>2. ASSUME NEW U \in F, U \subseteq T, U # T PROVE FALSE
  <2>1. T \in SUBSET S /\ U \in SUBSET S
    BY DEF FiniteSubsetsOf
  <2>2. <<U, T>> \in StrictSubsetOrdering(S)
    BY <1>2, <2>1 DEF StrictSubsetOrdering
  <2> QED
    BY <1>1, <2>2
<1> QED
  BY <1>2

\* A set of natural numbers has a least one.
LEMMA Least ==
  ASSUME NEW T \in SUBSET Nat, T # {}
  PROVE  \E x \in T : \A y \in T : x <= y
<1> DEFINE F == {0 .. n : n \in T}
<1>1. F \in SUBSET FiniteSubsetsOf(Nat) /\ F # {}
  <2>1. \A n \in T : IsFiniteSet(0 .. n) /\ 0 .. n \in SUBSET Nat
    BY FS_Interval
  <2> QED
    BY <2>1 DEF FiniteSubsetsOf
<1>2. PICK A \in F : \A B \in F : B \subseteq A => B = A
  <2> HIDE DEF F
  <2> QED
    BY <1>1, LeastSet
<1>3. PICK x \in T : A = 0 .. x
  OBVIOUS
<1>4. ASSUME NEW y \in T, ~ x <= y PROVE FALSE
  <2>1. 0 .. y \subseteq 0 .. x /\ x \in 0 .. x /\ x \notin 0 .. y
    BY <1>4
  <2> QED
    BY <2>1, <1>2, <1>3
<1> QED
  BY <1>4

\* Induction over the natural numbers.
LEMMA Induct ==
  ASSUME NEW T, 0 \in T, \A n \in Nat : n \in T => n + 1 \in T
  PROVE  Nat \subseteq T
<1>1. ASSUME Nat \ T # {} PROVE FALSE
  <2>1. PICK x \in Nat \ T : \A y \in Nat \ T : x <= y
    BY <1>1, Least
  <2>2. x - 1 \in Nat /\ x - 1 \in T
    BY <2>1
  <2> QED
    BY <2>1, <2>2
<1> QED
  BY <1>1

\* A finite set of numbers has a greatest one.
LEMMA Greatest ==
  ASSUME NEW S \in SUBSET Nat, IsFiniteSet(S), S # {}
  PROVE  \E x \in S : \A y \in S : y <= x
<1> DEFINE F == {T \in FiniteSubsetsOf(Nat) : T # {} /\ ~ \E x \in T : \A y \in T : y <= x}
<1>1. ASSUME F # {} PROVE FALSE
  <2>1. PICK T \in F : \A U \in F : U \subseteq T => U = T
    <3>1. F \in SUBSET FiniteSubsetsOf(Nat)
      OBVIOUS
    <3> HIDE DEF F
    <3> QED
      BY <1>1, <3>1, LeastSet
  <2>2. PICK x \in T : TRUE
    OBVIOUS
  <2>3. T \ {x} \in FiniteSubsetsOf(Nat) /\ T \in SUBSET Nat
    BY FS_RemoveElement DEF FiniteSubsetsOf
  <2>4. PICK z \in T \ {x} : \A y \in T \ {x} : y <= z
    <3>1. T \ {x} # {}
      <4>1. ASSUME T \ {x} = {} PROVE FALSE
        <5>1. \A y \in T : y <= x
          BY <4>1, <2>3
        <5> QED
          BY <5>1
      <4> QED
        BY <4>1
    <3>2. T \ {x} \notin F
      BY <2>1, <2>2
    <3> QED
      BY <3>1, <3>2, <2>3
  <2>5. \E g \in T : \A y \in T : y <= g
    <3>1. CASE x <= z
      BY <3>1, <2>4, <2>3
    <3>2. CASE ~ x <= z
      BY <3>2, <2>4, <2>3
    <3> QED
      BY <3>1, <3>2
  <2> QED
    BY <2>5
<1>2. S \in FiniteSubsetsOf(Nat)
  BY DEF FiniteSubsetsOf
<1> QED
  BY <1>1, <1>2
-----------------------------------------------------------------------------
(***************************************************************************)
(* Ascending.                                                              *)
(***************************************************************************)

\* A finite set of numbers can be put in order: without its greatest number by
\* induction, and then the greatest one behind the others.
LEMMA AscendingExists ==
  ASSUME NEW S \in SUBSET Nat, IsFiniteSet(S)
  PROVE  \E s \in [1 .. Cardinality(S) -> S] : \A i, j \in DOMAIN s : i < j => s[i] < s[j]
<1> DEFINE Ordered(T) ==
             \E s \in [1 .. Cardinality(T) -> T] : \A i, j \in DOMAIN s : i < j => s[i] < s[j]
           F == {T \in FiniteSubsetsOf(Nat) : ~ Ordered(T)}
<1>1. ASSUME F # {} PROVE FALSE
  <2>1. PICK T \in F : \A U \in F : U \subseteq T => U = T
    <3>1. F \in SUBSET FiniteSubsetsOf(Nat)
      OBVIOUS
    <3> HIDE DEF F
    <3> QED
      BY <1>1, <3>1, LeastSet
  <2>2. T \in SUBSET Nat /\ IsFiniteSet(T) /\ ~ Ordered(T)
    BY DEF FiniteSubsetsOf
  <2>3. T # {}
    <3>1. ASSUME T = {} PROVE Ordered(T)
      <4>1. Cardinality(T) = 0
        BY <3>1, FS_EmptySet
      <4>2. [i \in 1 .. 0 |-> 0] \in [1 .. Cardinality(T) -> T]
        BY <4>1
      <4>3. \A i, j \in DOMAIN [i \in 1 .. 0 |-> 0] : FALSE
        OBVIOUS
      <4> HIDE DEF F
      <4> QED
        BY <4>2, <4>3
    <3> QED
      BY <2>2, <3>1
  <2>4. PICK g \in T : \A y \in T : y <= g
    BY <2>2, <2>3, Greatest
  <2> DEFINE U == T \ {g}
             n == Cardinality(U)
  <2>5. /\ U \in SUBSET Nat /\ IsFiniteSet(U) /\ n \in Nat /\ Cardinality(T) = n + 1
        /\ \A y \in U : y < g
    <3>1. IsFiniteSet(U) /\ Cardinality(U) = Cardinality(T) - 1
      BY <2>2, FS_RemoveElement
    <3>2. n \in Nat /\ Cardinality(T) \in Nat
      BY <2>2, <3>1, FS_CardinalityType
    <3>3. \A y \in U : y < g
      BY <2>2, <2>4
    <3> QED
      BY <2>2, <3>1, <3>2, <3>3
  <2>6. Ordered(U)
    <3>1. U \in FiniteSubsetsOf(Nat)
      BY <2>5 DEF FiniteSubsetsOf
    <3>2. U \notin F
      BY <2>1, <2>4
    <3> QED
      BY <3>1, <3>2
  <2>7. PICK s \in [1 .. n -> U] : \A i, j \in 1 .. n : i < j => s[i] < s[j]
    BY <2>6
  <2> DEFINE r == [i \in 1 .. n + 1 |-> IF i = n + 1 THEN g ELSE s[i]]
  <2> HIDE DEF n
  <2>8. r \in [1 .. n + 1 -> T]
    BY <2>4, <2>5, <2>7
  <2>9. \A i, j \in 1 .. n + 1 : i < j => r[i] < r[j]
    <3>1. TAKE i, j \in 1 .. n + 1
    <3>2. HAVE i < j
    <3>3. i \in 1 .. n /\ r[i] = s[i] /\ s[i] \in U
      BY <2>5, <2>7, <3>2
    <3>4. CASE j = n + 1
      BY <2>5, <3>3, <3>4
    <3>5. CASE j # n + 1
      BY <2>5, <2>7, <3>2, <3>3, <3>5
    <3> QED
      BY <3>4, <3>5
  <2> HIDE DEF r
  <2>10. Ordered(T)
    BY <2>5, <2>8, <2>9
  <2> QED
    BY <2>2, <2>10
<1>2. S \in FiniteSubsetsOf(Nat)
  BY DEF FiniteSubsetsOf
<1> QED
  BY <1>1, <1>2

\* The numbers of a finite set in order: each of them once, and none before a lesser
\* one, as a listing of ioutil.ReadDir has the files of a directory.
THEOREM AscendingRight ==
  ASSUME NEW S \in SUBSET Nat, IsFiniteSet(S)
  PROVE  /\ Cardinality(S) \in Nat
         /\ Ascending(S) \in [1 .. Cardinality(S) -> S]
         /\ \A i, j \in 1 .. Cardinality(S) : i < j => Ascending(S)[i] < Ascending(S)[j]
         /\ \A x \in S : \E i \in 1 .. Cardinality(S) : Ascending(S)[i] = x
<1> DEFINE n == Cardinality(S)
           A == Ascending(S)
<1>1. n \in Nat
  BY FS_CardinalityType
<1>2. A \in [1 .. n -> S] /\ \A i, j \in 1 .. n : i < j => A[i] < A[j]
  BY AscendingExists DEF Ascending
<1>3. \A x \in S : \E i \in 1 .. n : A[i] = x
  <2> HIDE DEF A, n
  <2>1. A \in Injection(1 .. n, S)
    <3>1. \A i, j \in 1 .. n : A[i] = A[j] => i = j
      <4>1. \A i \in 1 .. n : A[i] \in Nat
        BY <1>2
      <4> QED
        BY <1>1, <1>2, <4>1
    <3> QED
      BY <1>2, <3>1 DEF Injection, IsInjective
  <2>2. Cardinality(1 .. n) = n
    <3>1. Cardinality(1 .. n) = IF 1 > n THEN 0 ELSE n - 1 + 1
      BY <1>1, FS_Interval
    <3> QED
      BY <1>1, <3>1
  <2>3. Cardinality(1 .. n) = Cardinality(S)
    BY <2>2 DEF n
  <2>4. A \in Surjection(1 .. n, S)
    BY <2>1, <2>3, FS_Injection
  <2> QED
    BY <2>4 DEF Surjection
<1> QED
  BY <1>1, <1>2, <1>3

\* There is only one such order.
LEMMA AscendingUnique ==
  ASSUME NEW S \in SUBSET Nat, NEW n \in Nat, NEW s \in [1 .. n -> S],
         \A i, j \in 1 .. n : i < j => s[i] < s[j],
         \A x \in S : \E i \in 1 .. n : s[i] = x
  PROVE  IsFiniteSet(S) /\ Cardinality(S) = n /\ Ascending(S) = s
<1>1. \A i, j \in 1 .. n : s[i] = s[j] => i = j
  <2>1. \A i \in 1 .. n : s[i] \in Nat
    OBVIOUS
  <2> QED
    BY <2>1
<1>2. s \in Bijection(1 .. n, S)
  BY <1>1 DEF Bijection, Injection, Surjection, IsInjective
<1>3. IsFiniteSet(S) /\ Cardinality(S) = n
  <2>1. ExistsBijection(1 .. n, S)
    BY <1>2 DEF ExistsBijection
  <2>2. IsFiniteSet(1 .. n)
    BY FS_Interval
  <2> QED
    BY <2>1, <2>2, FS_CountingElements, FS_Bijection
<1> DEFINE A == Ascending(S)
           W == {i \in 1 .. n : A[i] # s[i]}
<1>4. /\ A \in [1 .. n -> S]
      /\ \A i, j \in 1 .. n : i < j => A[i] < A[j]
      /\ \A x \in S : \E i \in 1 .. n : A[i] = x
  BY <1>3, AscendingRight
<1> HIDE DEF A
<1>5. ASSUME W # {} PROVE FALSE
  <2>1. W \in SUBSET Nat
    OBVIOUS
  <2>2. PICK w \in W : \A v \in W : w <= v
    <3> HIDE DEF W
    <3> QED
      BY <1>5, <2>1, Least
  <2>3. /\ w \in 1 .. n /\ A[w] # s[w] /\ A[w] \in S /\ s[w] \in S
        /\ A[w] \in Nat /\ s[w] \in Nat
        /\ \A i \in 1 .. n : i < w => A[i] = s[i]
    <3>1. w \in 1 .. n /\ A[w] # s[w]
      OBVIOUS
    <3>2. \A i \in 1 .. n : i < w => i \notin W
      BY <2>2, <3>1
    <3> QED
      BY <3>1, <3>2, <1>4
  <2>4. CASE A[w] < s[w]
    <3>1. PICK i \in 1 .. n : s[i] = A[w]
      BY <2>3
    <3>2. ~ w < i /\ i # w
      BY <2>3, <2>4, <3>1
    <3>3. A[i] = A[w] /\ A[i] < A[w]
      BY <1>4, <2>3, <3>1, <3>2
    <3> QED
      BY <2>3, <3>3
  <2>5. CASE s[w] < A[w]
    <3>1. PICK i \in 1 .. n : A[i] = s[w]
      BY <1>4, <2>3
    <3>2. ~ w < i /\ i # w
      BY <1>4, <2>3, <2>5, <3>1
    <3>3. s[i] = s[w] /\ s[i] < s[w]
      BY <2>3, <3>1, <3>2
    <3> QED
      BY <2>3, <3>3
  <2> QED
    BY <2>3, <2>4, <2>5
<1>6. A = s
  BY <1>4, <1>5
<1> QED
  BY <1>3, <1>6 DEF A
-----------------------------------------------------------------------------
(***************************************************************************)
(* Entries.                                                                *)
(***************************************************************************)

\* Entries taken out of a sequence: those at the places, each once, and in the order
\* they had, as a slice from which a loop has removed the others.
THEOREM EntriesRight ==
  ASSUME NEW V, NEW s \in Seq(V), NEW places \in SUBSET (1 .. Len(s))
  PROVE  LET e == Entries(s, places)
             A == Ascending(places)
         IN  /\ e \in Seq(V) /\ Len(e) = Cardinality(places) /\ Len(e) \in Nat
             /\ \A k \in 1 .. Len(e) : A[k] \in places /\ e[k] = s[A[k]]
             /\ \A j, k \in 1 .. Len(e) : j < k => A[j] < A[k]
             /\ \A i \in places : \E k \in 1 .. Len(e) : A[k] = i
<1> DEFINE e == Entries(s, places)
           A == Ascending(places)
           n == Cardinality(places)
<1>1. /\ n \in Nat
      /\ A \in [1 .. n -> places]
      /\ \A i, j \in 1 .. n : i < j => A[i] < A[j]
      /\ \A x \in places : \E i \in 1 .. n : A[i] = x
  <2>1. IsFiniteSet(places) /\ places \in SUBSET Nat
    <3>1. Len(s) \in Nat /\ Len(s) \in Int /\ 1 \in Int
      OBVIOUS
    <3>2. IsFiniteSet(1 .. Len(s)) /\ 1 .. Len(s) \subseteq Nat
      BY <3>1, FS_Interval
    <3> QED
      BY <3>2, FS_Subset
  <2> QED
    BY <2>1, AscendingRight
<1>2. e = [k \in 1 .. n |-> s[A[k]]]
  BY DEF Entries
<1> HIDE DEF e, A, n
<1>3. ASSUME NEW k \in 1 .. n PROVE A[k] \in places /\ e[k] = s[A[k]] /\ s[A[k]] \in V
  <2>1. A[k] \in places /\ e[k] = s[A[k]]
    BY <1>1, <1>2
  <2>2. \A i \in 1 .. Len(s) : s[i] \in V
    OBVIOUS
  <2> QED
    BY <2>1, <2>2
<1>4. e \in Seq(V) /\ Len(e) = n
  BY <1>1, <1>2, <1>3
<1> QED
  BY <1>1, <1>3, <1>4 DEF e, A, n
\* No places, no entries.
LEMMA EntriesNone ==
  ASSUME NEW s
  PROVE  Entries(s, {}) = <<>>
<1>1. Cardinality({}) = 0
  BY FS_EmptySet
<1>2. 1 .. 0 = {}
  OBVIOUS
<1> QED
  BY <1>1, <1>2 DEF Entries

\* A number greater than the others comes behind them.
LEMMA AscendingLast ==
  ASSUME NEW S \in SUBSET Nat, IsFiniteSet(S), NEW m \in Nat, \A x \in S : x < m
  PROVE  /\ Cardinality(S) \in Nat /\ Cardinality(S \cup {m}) = Cardinality(S) + 1
         /\ Ascending(S \cup {m}) =
              [k \in 1 .. Cardinality(S) + 1 |->
                 IF k = Cardinality(S) + 1 THEN m ELSE Ascending(S)[k]]
<1> DEFINE n == Cardinality(S)
           A == Ascending(S)
           t == [k \in 1 .. n + 1 |-> IF k = n + 1 THEN m ELSE A[k]]
<1>1. /\ n \in Nat
      /\ A \in [1 .. n -> S]
      /\ \A i, j \in 1 .. n : i < j => A[i] < A[j]
      /\ \A x \in S : \E i \in 1 .. n : A[i] = x
  BY AscendingRight
<1> HIDE DEF n, A
<1>2. /\ S \cup {m} \in SUBSET Nat /\ n + 1 \in Nat /\ t \in [1 .. n + 1 -> S \cup {m}]
      /\ t[n + 1] = m /\ \A i \in 1 .. n : i \in 1 .. n + 1 /\ t[i] = A[i] /\ A[i] \in S
  BY <1>1
<1>3. \A i, j \in 1 .. n + 1 : i < j => t[i] < t[j]
  <2>1. TAKE i, j \in 1 .. n + 1
  <2>2. HAVE i < j
  <2>3. i \in 1 .. n
    BY <1>1, <2>2
  <2>4. CASE j = n + 1
    BY <1>2, <2>3, <2>4
  <2>5. CASE j # n + 1
    <3>1. j \in 1 .. n
      BY <1>1, <2>5
    <3> QED
      BY <1>1, <1>2, <2>2, <2>3, <3>1
  <2> QED
    BY <2>4, <2>5
<1>4. \A x \in S \cup {m} : \E i \in 1 .. n + 1 : t[i] = x
  <2>1. TAKE x \in S \cup {m}
  <2>2. CASE x = m
    <3>1. n + 1 \in 1 .. n + 1
      BY <1>1
    <3> QED
      BY <1>2, <2>2, <3>1
  <2>3. CASE x \in S
    BY <1>1, <1>2, <2>3
  <2> QED
    BY <2>2, <2>3
<1> HIDE DEF t
<1>5. Cardinality(S \cup {m}) = n + 1 /\ Ascending(S \cup {m}) = t
  BY <1>2, <1>3, <1>4, AscendingUnique
<1> QED
  BY <1>1, <1>5 DEF n, A, t

\* One more place, behind the others, is one more entry at the end.
LEMMA EntriesLast ==
  ASSUME NEW V, NEW s \in Seq(V), NEW places \in SUBSET (1 .. Len(s)),
         NEW m \in 1 .. Len(s), \A i \in places : i < m
  PROVE  Entries(s, places \cup {m}) = Append(Entries(s, places), s[m])
<1> DEFINE e == Entries(s, places)
           n == Cardinality(places)
           A == Ascending(places)
           B == Ascending(places \cup {m})
<1>1. IsFiniteSet(places) /\ places \in SUBSET Nat
  <2>1. Len(s) \in Nat /\ Len(s) \in Int /\ 1 \in Int
    OBVIOUS
  <2>2. IsFiniteSet(1 .. Len(s)) /\ 1 .. Len(s) \subseteq Nat
    BY <2>1, FS_Interval
  <2> QED
    BY <2>2, FS_Subset
<1>2. /\ n \in Nat /\ Cardinality(places \cup {m}) = n + 1
      /\ B = [k \in 1 .. n + 1 |-> IF k = n + 1 THEN m ELSE A[k]]
  <2>1. m \in Nat /\ \A i \in places : i < m
    OBVIOUS
  <2> QED
    BY <1>1, <2>1, AscendingLast, Zenon
<1>3. e \in Seq(V) /\ Len(e) = n /\ e = [k \in 1 .. n |-> s[A[k]]]
  <2>1. e \in Seq(V) /\ Len(e) = n
    BY EntriesRight
  <2>2. e = [k \in 1 .. n |-> s[A[k]]]
    BY DEF Entries
  <2> QED
    BY <2>1, <2>2
<1>4. Entries(s, places \cup {m}) = [k \in 1 .. n + 1 |-> s[B[k]]]
  BY <1>2 DEF Entries
<1>5. s[m] \in V
  OBVIOUS
<1> HIDE DEF e, n, A, B
<1>6. Append(e, s[m]) = [k \in 1 .. n + 1 |-> IF k = n + 1 THEN s[m] ELSE e[k]]
  BY <1>2, <1>3, <1>5
<1>7. \A k \in 1 .. n + 1 : s[B[k]] = IF k = n + 1 THEN s[m] ELSE e[k]
  <2>1. TAKE k \in 1 .. n + 1
  <2>2. CASE k = n + 1
    BY <1>2, <2>2
  <2>3. CASE k # n + 1
    <3>1. k \in 1 .. n
      BY <1>2, <2>3
    <3>2. B[k] = A[k] /\ e[k] = s[A[k]]
      BY <1>2, <1>3, <2>3, <3>1
    <3> QED
      BY <2>3, <3>2
  <2> QED
    BY <2>2, <2>3
<1> QED
  BY <1>4, <1>6, <1>7 DEF e

\* What is appended to a sequence changes no entry.
LEMMA EntriesAppended ==
  ASSUME NEW V, NEW s \in Seq(V), NEW v \in V, NEW places \in SUBSET (1 .. Len(s))
  PROVE  Entries(Append(s, v), places) = Entries(s, places)
<1> DEFINE n == Cardinality(places)
           A == Ascending(places)
<1>1. n = Len(Entries(s, places)) /\ n \in Nat /\ \A k \in 1 .. n : A[k] \in places
  BY EntriesRight
<1> HIDE DEF n, A
<1>2. \A k \in 1 .. n : Append(s, v)[A[k]] = s[A[k]]
  <2>1. \A i \in 1 .. Len(s) : Append(s, v)[i] = s[i]
    OBVIOUS
  <2> QED
    BY <1>1, <2>1
<1>3. /\ Entries(s, places) = [k \in 1 .. n |-> s[A[k]]]
      /\ Entries(Append(s, v), places) = [k \in 1 .. n |-> Append(s, v)[A[k]]]
  BY DEF Entries, n, A
<1> QED
  BY <1>2, <1>3
-----------------------------------------------------------------------------
(***************************************************************************)
(* Sorting.  The order is a set of pairs, <<x, y>> when x comes before y.  *)
(***************************************************************************)

\* Of finitely many values there is one that comes before no other.
LEMMA HasLast ==
  ASSUME NEW V, NEW R \in SUBSET (V \X V), \A x \in V : <<x, x>> \notin R,
         \A x, y, z \in V : <<x, y>> \in R /\ <<y, z>> \in R => <<x, z>> \in R
  PROVE  \A n \in Nat : \A s \in [1 .. n + 1 -> V] :
           \E m \in 1 .. n + 1 : \A i \in 1 .. n + 1 : <<s[m], s[i]>> \notin R
<1> DEFINE Has(n, s) == \E m \in 1 .. n + 1 : \A i \in 1 .. n + 1 : <<s[m], s[i]>> \notin R
           T == {n \in Nat : \A s \in [1 .. n + 1 -> V] : Has(n, s)}
<1>1. 0 \in T
  <2>1. ASSUME NEW s \in [1 .. 0 + 1 -> V] PROVE Has(0, s)
    <3>1. 1 \in 1 .. 0 + 1 /\ \A i \in 1 .. 0 + 1 : i = 1
      OBVIOUS
    <3>2. <<s[1], s[1]>> \notin R
      BY <3>1
    <3> QED
      BY <3>1, <3>2
  <2> QED
    BY <2>1
<1>2. ASSUME NEW n \in Nat, n \in T PROVE n + 1 \in T
  <2>1. ASSUME NEW s \in [1 .. n + 1 + 1 -> V] PROVE Has(n + 1, s)
    <3> DEFINE r == [i \in 1 .. n + 1 |-> s[i]]
               l == n + 1 + 1
    <3>1. r \in [1 .. n + 1 -> V] /\ \A i \in 1 .. n + 1 : i \in 1 .. l /\ r[i] = s[i]
      OBVIOUS
    <3> HIDE DEF r
    <3>2. PICK m \in 1 .. n + 1 : \A i \in 1 .. n + 1 : <<r[m], r[i]>> \notin R
      BY <1>2, <3>1
    <3>3. m \in 1 .. l /\ l \in 1 .. l /\ \A i \in 1 .. l : i = l \/ i \in 1 .. n + 1
      OBVIOUS
    <3>4. \A i \in 1 .. n + 1 : <<s[m], s[i]>> \notin R
      BY <3>1, <3>2
    <3>5. \A i \in 1 .. l : s[i] \in V
      OBVIOUS
    <3> HIDE DEF l
    <3>6. CASE <<s[m], s[l]>> \in R
      <4>1. \A i \in 1 .. l : <<s[l], s[i]>> \notin R
        <5>1. TAKE i \in 1 .. l
        <5>2. CASE i = l
          BY <3>5, <5>2
        <5>3. CASE i \in 1 .. n + 1
          BY <3>3, <3>4, <3>5, <3>6, <5>3
        <5> QED
          BY <3>3, <5>2, <5>3
      <4> QED
        BY <3>3, <4>1 DEF l
    <3>7. CASE <<s[m], s[l]>> \notin R
      <4>1. \A i \in 1 .. l : <<s[m], s[i]>> \notin R
        BY <3>3, <3>4, <3>7
      <4> QED
        BY <3>3, <4>1 DEF l
    <3> QED
      BY <3>6, <3>7
  <2> HIDE DEF Has
  <2> QED
    BY <2>1
<1> HIDE DEF T
<1>3. Nat \subseteq T
  BY <1>1, <1>2, Induct
<1> QED
  BY <1>3 DEF T

\* Finitely many values can be arranged so that none stands behind one it comes
\* before: the others by induction, and then one that comes before no other.
THEOREM Sortable ==
  ASSUME NEW V, NEW R \in SUBSET (V \X V), \A x \in V : <<x, x>> \notin R,
         \A x, y, z \in V : <<x, y>> \in R /\ <<y, z>> \in R => <<x, z>> \in R,
         NEW n \in Nat, NEW s \in [1 .. n -> V]
  PROVE  \E t \in Arrangements(s) : \A i, j \in DOMAIN t : i < j => <<t[j], t[i]>> \notin R
<1> DEFINE Right(k, r, p) ==
             /\ \A i, j \in 1 .. k : p[i] = p[j] => i = j
             /\ \A i, j \in 1 .. k : i < j => <<r[p[j]], r[p[i]]>> \notin R
           T == {k \in Nat : \A r \in [1 .. k -> V] : \E p \in [1 .. k -> 1 .. k] : Right(k, r, p)}
<1>1. 0 \in T
  <2>1. ASSUME NEW r PROVE Right(0, r, [i \in 1 .. 0 |-> i])
    OBVIOUS
  <2>2. [i \in 1 .. 0 |-> i] \in [1 .. 0 -> 1 .. 0]
    OBVIOUS
  <2> HIDE DEF Right
  <2> QED
    BY <2>1, <2>2
<1>2. ASSUME NEW k \in Nat, k \in T PROVE k + 1 \in T
  <2>1. ASSUME NEW r \in [1 .. k + 1 -> V]
        PROVE  \E p \in [1 .. k + 1 -> 1 .. k + 1] : Right(k + 1, r, p)
    <3>1. PICK m \in 1 .. k + 1 : \A i \in 1 .. k + 1 : <<r[m], r[i]>> \notin R
      BY HasLast
    <3> DEFINE c == [i \in 1 .. k |-> IF i < m THEN i ELSE i + 1]
               o == [i \in 1 .. k |-> r[c[i]]]
    <3>2. /\ c \in [1 .. k -> 1 .. k + 1] /\ \A i \in 1 .. k : c[i] # m
          /\ \A i, j \in 1 .. k : c[i] = c[j] => i = j
      OBVIOUS
    <3> HIDE DEF c
    <3>3. o \in [1 .. k -> V] /\ \A i \in 1 .. k : o[i] = r[c[i]]
      BY <3>2
    <3> HIDE DEF o
    <3>4. PICK q \in [1 .. k -> 1 .. k] : Right(k, o, q)
      BY <1>2, <3>3
    <3> DEFINE p == [i \in 1 .. k + 1 |-> IF i = k + 1 THEN m ELSE c[q[i]]]
    <3>5. /\ \A i \in 1 .. k : /\ i \in 1 .. k + 1 /\ i # k + 1 /\ q[i] \in 1 .. k
                               /\ c[q[i]] \in 1 .. k + 1 /\ c[q[i]] # m
                               /\ o[q[i]] = r[c[q[i]]]
          /\ k + 1 \in 1 .. k + 1
          /\ \A i \in 1 .. k + 1 : i = k + 1 \/ i \in 1 .. k
      <4>1. \A i \in 1 .. k : i \in 1 .. k + 1 /\ i # k + 1
        OBVIOUS
      <4>2. k + 1 \in 1 .. k + 1 /\ \A i \in 1 .. k + 1 : i = k + 1 \/ i \in 1 .. k
        OBVIOUS
      <4>3. \A i \in 1 .. k : q[i] \in 1 .. k
        OBVIOUS
      <4>4. \A i \in 1 .. k : /\ c[q[i]] \in 1 .. k + 1 /\ c[q[i]] # m
                               /\ o[q[i]] = r[c[q[i]]]
        BY <3>2, <3>3, <4>3
      <4> QED
        BY <4>1, <4>2, <4>3, <4>4
    <3>6. p \in [1 .. k + 1 -> 1 .. k + 1] /\ p[k + 1] = m /\ \A i \in 1 .. k : p[i] = c[q[i]]
      BY <3>5
    <3> HIDE DEF p
    <3>7. \A i, j \in 1 .. k + 1 : p[i] = p[j] => i = j
      <4>1. TAKE i, j \in 1 .. k + 1
      <4>2. HAVE p[i] = p[j]
      <4>3. CASE i \in 1 .. k /\ j \in 1 .. k
        <5>1. q[i] = q[j]
          BY <3>2, <3>5, <3>6, <4>2, <4>3
        <5> QED
          BY <3>4, <4>3, <5>1
      <4>4. CASE i = k + 1 \/ j = k + 1
        BY <3>5, <3>6, <4>2, <4>4
      <4> QED
        BY <3>5, <4>3, <4>4
    <3>8. \A i, j \in 1 .. k + 1 : i < j => <<r[p[j]], r[p[i]]>> \notin R
      <4>1. TAKE i, j \in 1 .. k + 1
      <4>2. HAVE i < j
      <4>3. i \in 1 .. k /\ p[i] \in 1 .. k + 1
        BY <3>6, <4>2
      <4>4. CASE j = k + 1
        BY <3>1, <3>6, <4>3, <4>4
      <4>5. CASE j \in 1 .. k
        <5>1. <<o[q[j]], o[q[i]]>> \notin R
          BY <3>4, <4>2, <4>3, <4>5
        <5> QED
          BY <3>5, <3>6, <4>3, <4>5, <5>1
      <4> QED
        BY <3>5, <4>4, <4>5
    <3>9. Right(k + 1, r, p)
      BY <3>7, <3>8
    <3> QED
      BY <3>6, <3>9
  <2> HIDE DEF Right
  <2> QED
    BY <2>1
<1>3. n \in T
  <2> HIDE DEF T
  <2> QED
    BY <1>1, <1>2, Induct
<1>4. PICK p \in [1 .. n -> 1 .. n] : Right(n, s, p)
  <2> HIDE DEF Right
  <2> QED
    BY <1>3
<1> DEFINE t == [i \in DOMAIN s |-> s[p[i]]]
<1>5. DOMAIN s = 1 .. n /\ DOMAIN t = 1 .. n /\ \A i \in 1 .. n : t[i] = s[p[i]]
  OBVIOUS
<1>6. t \in Arrangements(s)
  <2>1. p \in {q \in [DOMAIN s -> DOMAIN s] : \A i, j \in DOMAIN s : q[i] = q[j] => i = j}
    BY <1>4, <1>5
  <2> QED
    BY <2>1 DEF Arrangements
<1>7. \A i, j \in DOMAIN t : i < j => <<t[j], t[i]>> \notin R
  BY <1>4, <1>5
<1> QED
  BY <1>6, <1>7
=============================================================================
