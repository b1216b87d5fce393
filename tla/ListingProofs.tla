--------------------------- MODULE ListingProofs ---------------------------
(***************************************************************************)
(* Proofs about the two programs that go through a listing: DirTree, for   *)
(* every tree, and Generator, for every source file.                       *)
(***************************************************************************)
EXTENDS DirTree, Generator, OrderProofs

-----------------------------------------------------------------------------
(***************************************************************************)
(* DirTree: the way to a node.                                             *)
(***************************************************************************)

\* Along its parents, every node has a way.
LEMMA WayExists ==
  ASSUME NEW P \in [Nodes -> Nat], \A n \in Nodes : P[n] \in Nodes \cup {0} /\ P[n] < n
  PROVE  \E W : W = [n \in Nodes |-> IF P[n] = 0 THEN <<n>> ELSE Append(W[P[n]], n)]
<1> DEFINE Step(g, n) == IF P[n] = 0 THEN <<n>> ELSE Append(g[P[n]], n)
           Good(k) == \E g : /\ g = [n \in Nodes |-> g[n]]
                             /\ \A n \in Nodes : n <= k => g[n] = Step(g, n)
           T == {k \in Nat : Good(k)}
<1>1. Nodes \in SUBSET Nat /\ IsFiniteSet(Nodes) /\ 0 \notin Nodes
  BY TreeAssumption
<1>2. 0 \in T
  <2> DEFINE g == [n \in Nodes |-> n]
  <2>1. g = [n \in Nodes |-> g[n]]
    OBVIOUS
  <2>2. \A n \in Nodes : ~ n <= 0
    BY <1>1
  <2> QED
    BY <2>1, <2>2
<1>3. ASSUME NEW k \in Nat, k \in T PROVE k + 1 \in T
  <2>1. PICK g : /\ g = [n \in Nodes |-> g[n]]
                 /\ \A n \in Nodes : n <= k => g[n] = Step(g, n)
    BY <1>3
  <2> DEFINE h == [n \in Nodes |-> IF n = k + 1 THEN Step(g, n) ELSE g[n]]
  <2>2. \A n \in Nodes : n <= k => h[n] = g[n]
    BY <1>1
  <2>3. ASSUME NEW n \in Nodes, n <= k + 1 PROVE h[n] = Step(h, n)
    <3>1. P[n] # 0 => h[P[n]] = g[P[n]]
      BY <1>1, <2>2, <2>3
    <3>2. Step(h, n) = Step(g, n)
      <4> HIDE DEF h
      <4> QED
        BY <3>1
    <3>3. h[n] = Step(g, n)
      <4>1. CASE n = k + 1
        <5> HIDE DEF Step
        <5> QED
          BY <4>1
      <4>2. CASE n # k + 1
        <5>1. n <= k
          BY <1>1, <2>3, <4>2
        <5>2. h[n] = g[n] /\ g[n] = Step(g, n)
          BY <2>1, <2>2, <5>1
        <5> QED
          BY <5>2
      <4> QED
        BY <4>1, <4>2
    <3> QED
      BY <3>2, <3>3
  <2>4. h = [n \in Nodes |-> h[n]]
    OBVIOUS
  <2> HIDE DEF h, Step
  <2> QED
    BY <2>3, <2>4
<1>4. Nat \subseteq T
  <2> HIDE DEF T
  <2> QED
    BY <1>2, <1>3, Induct
<1>5. PICK k \in Nat : \A n \in Nodes : n <= k
  <2>1. CASE Nodes = {}
    BY <2>1
  <2>2. CASE Nodes # {}
    BY <1>1, <2>2, Greatest
  <2> QED
    BY <2>1, <2>2
<1>6. PICK g : /\ g = [n \in Nodes |-> g[n]]
               /\ \A n \in Nodes : n <= k => g[n] = Step(g, n)
  BY <1>4
<1>7. g = [n \in Nodes |-> Step(g, n)]
  <2>1. \A n \in Nodes : g[n] = Step(g, n)
    BY <1>5, <1>6
  <2> HIDE DEF Step
  <2> QED
    BY <1>6, <2>1
<1> QED
  BY <1>7

\* The way to a node is what its definition says.
LEMMA WayUnfolds ==
  tree \in Trees =>
    /\ \A n \in Nodes : n \in Nat \ {0} /\ tree.parent[n] \in Nodes \cup {0} /\ tree.parent[n] < n
    /\ \A n \in Nodes :
         Way[n] = IF tree.parent[n] = 0 THEN <<n>> ELSE Append(Way[tree.parent[n]], n)
<1> SUFFICES ASSUME tree \in Trees
             PROVE  /\ \A n \in Nodes : /\ n \in Nat \ {0} /\ tree.parent[n] < n
                                        /\ tree.parent[n] \in Nodes \cup {0}
                    /\ \A n \in Nodes :
                         Way[n] = IF tree.parent[n] = 0 THEN <<n>>
                                  ELSE Append(Way[tree.parent[n]], n)
  OBVIOUS
<1> DEFINE P == tree.parent
<1>1. /\ P \in [Nodes -> Nat]
      /\ \A n \in Nodes : n \in Nat \ {0} /\ P[n] \in Nodes \cup {0} /\ P[n] < n
  BY TreeAssumption
<1>2. \E W : W = [n \in Nodes |-> IF P[n] = 0 THEN <<n>> ELSE Append(W[P[n]], n)]
  <2> HIDE DEF P
  <2> QED
    BY <1>1, WayExists
<1>3. Way = [n \in Nodes |-> IF P[n] = 0 THEN <<n>> ELSE Append(Way[P[n]], n)]
  BY <1>2 DEF Way
<1> HIDE DEF P
<1>4. \A n \in Nodes : Way[n] = IF P[n] = 0 THEN <<n>> ELSE Append(Way[P[n]], n)
  BY <1>3
<1> QED
  BY <1>1, <1>4 DEF P

\* A way is a sequence of nodes that ends with the node it leads to.
LEMMA WayType ==
  tree \in Trees =>
    \A n \in Nodes : Way[n] \in Seq(Nodes) /\ Len(Way[n]) \in Nat \ {0} /\ Way[n][Len(Way[n])] = n
<1> DEFINE Fine(n) == /\ Way[n] \in Seq(Nodes) /\ Len(Way[n]) \in Nat \ {0}
                      /\ Way[n][Len(Way[n])] = n
           Bad == {n \in Nodes : ~ Fine(n)}
<1> SUFFICES ASSUME tree \in Trees, Bad # {} PROVE FALSE
  OBVIOUS
<1>1. PICK n \in Bad : \A m \in Bad : n <= m
  <2>1. Bad \in SUBSET Nat
    BY TreeAssumption
  <2> HIDE DEF Bad
  <2> QED
    BY <2>1, Least
<1>2. n \in Nodes /\ ~ Fine(n)
  OBVIOUS
<1>3. CASE tree.parent[n] = 0
  <2>1. Way[n] = <<n>>
    BY <1>2, <1>3, WayUnfolds
  <2> QED
    BY <1>2, <2>1
<1>4. CASE tree.parent[n] # 0
  <2> DEFINE q == tree.parent[n]
  <2>1. q \in Nodes /\ q \in Nat /\ n \in Nat /\ q < n /\ Way[n] = Append(Way[q], n)
    BY <1>2, <1>4, WayUnfolds
  <2>2. Fine(q)
    <3>1. q \notin Bad
      BY <1>1, <2>1
    <3> HIDE DEF Fine, q
    <3> QED
      BY <2>1, <3>1
  <2> HIDE DEF q
  <2>3. Fine(n)
    BY <1>2, <2>1, <2>2
  <2> QED
    BY <1>2, <2>3
<1> QED
  BY <1>3, <1>4

\* n is a, or lies in it.
Under(n, a) == \E i \in 1 .. Len(Way[n]) : Way[n][i] = a

\* A node lies in itself and in what its parent lies in.
LEMMA UnderUnfolds ==
  tree \in Trees =>
    \A n \in Nodes, a \in Nodes :
      Under(n, a) <=> a = n \/ (tree.parent[n] # 0 /\ Under(tree.parent[n], a))
<1> SUFFICES ASSUME tree \in Trees, NEW n \in Nodes, NEW a \in Nodes
             PROVE  Under(n, a) <=> a = n \/ (tree.parent[n] # 0 /\ Under(tree.parent[n], a))
  OBVIOUS
<1>1. CASE tree.parent[n] = 0
  <2>1. Way[n] = <<n>>
    BY <1>1, WayUnfolds
  <2> QED
    BY <1>1, <2>1 DEF Under
<1>2. CASE tree.parent[n] # 0
  <2> DEFINE q == tree.parent[n]
  <2>1. q \in Nodes /\ Way[n] = Append(Way[q], n) /\ Way[q] \in Seq(Nodes)
    BY <1>2, WayUnfolds, WayType
  <2> HIDE DEF q
  <2>2. /\ Len(Way[n]) = Len(Way[q]) + 1 /\ Len(Way[q]) \in Nat
        /\ \A i \in 1 .. Len(Way[q]) : Way[n][i] = Way[q][i]
        /\ Way[n][Len(Way[q]) + 1] = n
    BY <2>1
  <2>3. Under(n, a) <=> a = n \/ Under(q, a)
    BY <2>2 DEF Under
  <2> QED
    BY <1>2, <2>3 DEF q
<1> QED
  BY <1>1, <1>2

\* The way to a node begins with the way to whatever it lies in.
LEMMA WayBegins ==
  tree \in Trees =>
    \A n \in Nodes, a \in Nodes :
      Under(n, a) => /\ Len(Way[a]) <= Len(Way[n])
                     /\ \A i \in 1 .. Len(Way[a]) : Way[n][i] = Way[a][i]
                     /\ Len(Way[a]) = Len(Way[n]) => a = n
<1> DEFINE Fine(n) == \A a \in Nodes :
             Under(n, a) => /\ Len(Way[a]) <= Len(Way[n])
                            /\ \A i \in 1 .. Len(Way[a]) : Way[n][i] = Way[a][i]
           Bad == {n \in Nodes : ~ Fine(n)}
<1> SUFFICES ASSUME tree \in Trees
             PROVE  \A n \in Nodes, a \in Nodes :
                      Under(n, a) => /\ Len(Way[a]) <= Len(Way[n])
                                     /\ \A i \in 1 .. Len(Way[a]) : Way[n][i] = Way[a][i]
                                     /\ Len(Way[a]) = Len(Way[n]) => a = n
  OBVIOUS
<1>1. ASSUME Bad # {} PROVE FALSE
  <2>1. PICK n \in Bad : \A m \in Bad : n <= m
    <3>1. Bad \in SUBSET Nat
      BY TreeAssumption
    <3> HIDE DEF Bad
    <3> QED
      BY <1>1, <3>1, Least
  <2>2. PICK a \in Nodes : /\ n \in Nodes /\ Under(n, a)
                           /\ ~ (/\ Len(Way[a]) <= Len(Way[n])
                                 /\ \A i \in 1 .. Len(Way[a]) : Way[n][i] = Way[a][i])
    OBVIOUS
  <2>3. a # n /\ tree.parent[n] # 0 /\ Under(tree.parent[n], a)
    <3>1. a # n
      <4> HIDE DEF Bad, Fine
      <4> QED
        BY <2>2, WayType
    <3> QED
      BY <2>2, <3>1, UnderUnfolds
  <2> DEFINE q == tree.parent[n]
  <2>4. q \in Nodes /\ q \in Nat /\ n \in Nat /\ q < n /\ Way[n] = Append(Way[q], n)
    BY <2>2, <2>3, WayUnfolds
  <2>5. Fine(q)
    <3>1. q \notin Bad
      <4> HIDE DEF q, Bad
      <4> QED
        BY <2>1, <2>4
    <3> HIDE DEF Fine, q
    <3> QED
      BY <2>4, <3>1
  <2>6. Way[q] \in Seq(Nodes) /\ Way[a] \in Seq(Nodes)
    BY <2>2, <2>4, WayType
  <2>7. Len(Way[a]) <= Len(Way[q]) /\ \A i \in 1 .. Len(Way[a]) : Way[q][i] = Way[a][i]
    BY <2>2, <2>3, <2>5
  <2> HIDE DEF q, Bad, Fine
  <2> QED
    BY <2>2, <2>4, <2>6, <2>7
<1>2. \A n \in Nodes : Fine(n)
  BY <1>1
<1>3. ASSUME NEW n \in Nodes, NEW a \in Nodes, Under(n, a), Len(Way[a]) = Len(Way[n])
      PROVE  a = n
  <2>1. Way[n][Len(Way[a])] = Way[a][Len(Way[a])]
    BY <1>2, <1>3, WayType
  <2> QED
    BY <1>3, <2>1, WayType
<1> QED
  BY <1>2, <1>3
\* What lies in a node lies in what that node lies in.
LEMMA UnderTransitive ==
  tree \in Trees =>
    \A n \in Nodes, a \in Nodes, b \in Nodes : Under(n, a) /\ Under(a, b) => Under(n, b)
<1> SUFFICES ASSUME tree \in Trees, NEW n \in Nodes, NEW a \in Nodes, NEW b \in Nodes,
                    Under(n, a), Under(a, b)
             PROVE  Under(n, b)
  OBVIOUS
<1>1. PICK i \in 1 .. Len(Way[a]) : Way[a][i] = b
  BY DEF Under
<1>2. Way[n][i] = b /\ i \in 1 .. Len(Way[n])
  BY <1>1, WayBegins, WayType
<1> QED
  BY <1>2 DEF Under

\* The ways to two nodes of one directory differ in their ends only.
LEMMA SiblingWays ==
  tree \in Trees =>
    \A a \in Nodes, b \in Nodes : tree.parent[a] = tree.parent[b] =>
      /\ Len(Way[a]) = Len(Way[b])
      /\ \A i \in 1 .. Len(Way[a]) - 1 : Way[a][i] = Way[b][i]
<1> SUFFICES ASSUME tree \in Trees, NEW a \in Nodes, NEW b \in Nodes,
                    tree.parent[a] = tree.parent[b]
             PROVE  /\ Len(Way[a]) = Len(Way[b])
                    /\ \A i \in 1 .. Len(Way[a]) - 1 : Way[a][i] = Way[b][i]
  OBVIOUS
<1> DEFINE q == tree.parent[a]
<1>1. CASE q = 0
  <2>1. Way[a] = <<a>> /\ Way[b] = <<b>>
    BY <1>1, WayUnfolds
  <2> QED
    BY <2>1
<1>2. CASE q # 0
  <2>1. q \in Nodes /\ Way[a] = Append(Way[q], a) /\ Way[b] = Append(Way[q], b)
    BY <1>2, WayUnfolds
  <2>2. Way[q] \in Seq(Nodes)
    BY <2>1, WayType
  <2> HIDE DEF q
  <2> QED
    BY <2>1, <2>2
<1> QED
  BY <1>1, <1>2

\* Of the nodes of a directory, a node lies in one at most.
LEMMA OneSibling ==
  tree \in Trees =>
    \A n \in Nodes, a \in Nodes, b \in Nodes :
      Under(n, a) /\ Under(n, b) /\ tree.parent[a] = tree.parent[b] => a = b
<1> SUFFICES ASSUME tree \in Trees, NEW n \in Nodes, NEW a \in Nodes, NEW b \in Nodes,
                    Under(n, a), Under(n, b), tree.parent[a] = tree.parent[b]
             PROVE  a = b
  OBVIOUS
<1>1. Way[n][Len(Way[a])] = a
  BY WayBegins, WayType
<1>2. Way[n][Len(Way[b])] = b
  BY WayBegins, WayType
<1> QED
  BY <1>1, <1>2, SiblingWays

\* A directory precedes what lies in it.
LEMMA OuterPrecedes ==
  tree \in Trees =>
    \A n \in Nodes, a \in Nodes : Under(n, a) /\ n # a => Precedes(a, n)
<1> SUFFICES ASSUME tree \in Trees, NEW n \in Nodes, NEW a \in Nodes, Under(n, a), n # a
             PROVE  Precedes(a, n)
  OBVIOUS
<1> DEFINE v == Way[a]
           w == Way[n]
<1>1. /\ v \in Seq(Nodes) /\ w \in Seq(Nodes) /\ Len(v) \in Nat /\ Len(w) \in Nat
      /\ Len(v) < Len(w) /\ \A i \in 1 .. Len(v) : w[i] = v[i]
  BY WayBegins, WayType
<1> HIDE DEF v, w
<1>2. v = SubSeq(w, 1, Len(v))
  BY <1>1
<1> QED
  BY <1>1, <1>2 DEF Precedes, v, w

\* Of two nodes of a directory, the first, with what lies in it, precedes the second
\* with what lies in that.
LEMMA SiblingPrecedes ==
  tree \in Trees =>
    \A n \in Nodes, a \in Nodes, m \in Nodes, b \in Nodes :
      Under(n, a) /\ Under(m, b) /\ tree.parent[a] = tree.parent[b] /\ a < b => Precedes(n, m)
<1> SUFFICES ASSUME tree \in Trees, NEW n \in Nodes, NEW a \in Nodes, NEW m \in Nodes,
                    NEW b \in Nodes, Under(n, a), Under(m, b),
                    tree.parent[a] = tree.parent[b], a < b
             PROVE  Precedes(n, m)
  OBVIOUS
<1> DEFINE v == Way[n]
           w == Way[m]
           k == Len(Way[a])
<1>1. /\ v \in Seq(Nodes) /\ w \in Seq(Nodes) /\ k \in Nat \ {0} /\ k <= Len(v) /\ k <= Len(w)
      /\ v[k] = a /\ w[k] = b /\ \A i \in 1 .. k - 1 : v[i] = w[i]
  <2>1. k = Len(Way[b]) /\ \A i \in 1 .. k - 1 : Way[a][i] = Way[b][i]
    BY SiblingWays
  <2>2. v \in Seq(Nodes) /\ w \in Seq(Nodes) /\ k \in Nat \ {0} /\ Way[a][k] = a /\ Way[b][k] = b
    BY <2>1, WayType
  <2>3. /\ k <= Len(v) /\ k <= Len(w)
        /\ \A i \in 1 .. k : v[i] = Way[a][i] /\ w[i] = Way[b][i]
    BY <2>1, WayBegins
  <2> HIDE DEF v, w, k
  <2>4. k \in Nat \ {0} /\ Way[a][k] = a /\ Way[b][k] = b
    BY <2>2
  <2>5. v[k] = a /\ w[k] = b
    <3>1. k \in 1 .. k
      BY <2>4
    <3> QED
      BY <3>1, <2>3, <2>4, Zenon
  <2>6. ASSUME NEW i \in 1 .. k - 1
        PROVE  v[i] = w[i]
    <3>1. i \in 1 .. k
      BY <2>4
    <3>2. v[i] = Way[a][i] /\ w[i] = Way[b][i]
      BY <3>1, <2>3, Zenon
    <3> QED
      BY <3>2, <2>1, Zenon
  <2> QED
    BY <2>2, <2>3, <2>5, <2>6, Zenon
<1> HIDE DEF v, w, k
<1>2. k \in DOMAIN v \cap DOMAIN w /\ SubSeq(v, 1, k - 1) = SubSeq(w, 1, k - 1) /\ v[k] < w[k]
  BY <1>1
<1> QED
  BY <1>2 DEF Precedes, v, w

\* Two nodes do not precede each other.
LEMMA PrecedesOneWay ==
  tree \in Trees =>
    \A m \in Nodes, n \in Nodes : Precedes(m, n) => ~ Precedes(n, m)
<1> SUFFICES ASSUME tree \in Trees, NEW m \in Nodes, NEW n \in Nodes,
                    Precedes(m, n), Precedes(n, m)
             PROVE  FALSE
  OBVIOUS
<1> DEFINE v == Way[m]
           w == Way[n]
           Inside(x, y) == Len(x) < Len(y) /\ x = SubSeq(y, 1, Len(x))
           Lower(x, y, k) == /\ k \in DOMAIN x \cap DOMAIN y /\ x[k] < y[k]
                             /\ SubSeq(x, 1, k - 1) = SubSeq(y, 1, k - 1)
<1>1. v \in Seq(Nodes) /\ w \in Seq(Nodes) /\ Nodes \subseteq Nat
  BY WayType, TreeAssumption
<1>2. Inside(v, w) \/ \E k \in DOMAIN v \cap DOMAIN w : Lower(v, w, k)
  BY DEF Precedes
<1>3. Inside(w, v) \/ \E k \in DOMAIN w \cap DOMAIN v : Lower(w, v, k)
  BY DEF Precedes
<1> HIDE DEF v, w
<1>4. ASSUME NEW x \in Seq(Nodes), NEW y \in Seq(Nodes), Inside(x, y)
      PROVE  Len(x) < Len(y) /\ \A i \in 1 .. Len(x) : x[i] = y[i]
  BY <1>4
<1>5. ASSUME NEW x \in Seq(Nodes), NEW y \in Seq(Nodes), NEW k, Lower(x, y, k)
      PROVE  /\ k \in 1 .. Len(x) /\ k \in 1 .. Len(y) /\ x[k] < y[k]
             /\ \A i \in 1 .. k - 1 : x[i] = y[i]
  <2>1. k \in 1 .. Len(x) /\ k \in 1 .. Len(y) /\ x[k] < y[k]
    BY <1>5
  <2>2. ASSUME NEW i \in 1 .. k - 1 PROVE x[i] = y[i]
    <3>1. SubSeq(x, 1, k - 1)[i] = x[i] /\ SubSeq(y, 1, k - 1)[i] = y[i]
      BY <2>1, <2>2
    <3> QED
      BY <1>5, <3>1
  <2> QED
    BY <2>1, <2>2
<1>6. \A i \in 1 .. Len(v) : v[i] \in Nat
  <2>1. \A i \in 1 .. Len(v) : v[i] \in Nodes
    BY <1>1
  <2> QED
    BY <1>1, <2>1
<1>7. \A i \in 1 .. Len(w) : w[i] \in Nat
  <2>1. \A i \in 1 .. Len(w) : w[i] \in Nodes
    BY <1>1
  <2> QED
    BY <1>1, <2>1
<1> HIDE DEF Inside, Lower
<1>8. CASE Inside(v, w) /\ Inside(w, v)
  BY <1>1, <1>4, <1>8
<1>9. CASE Inside(v, w) /\ \E k \in DOMAIN w \cap DOMAIN v : Lower(w, v, k)
  <2>1. PICK k : Lower(w, v, k)
    BY <1>9
  <2> QED
    BY <1>1, <1>4, <1>5, <1>6, <1>7, <1>9, <2>1
<1>10. CASE Inside(w, v) /\ \E k \in DOMAIN v \cap DOMAIN w : Lower(v, w, k)
  <2>1. PICK k : Lower(v, w, k)
    BY <1>10
  <2> QED
    BY <1>1, <1>4, <1>5, <1>6, <1>7, <1>10, <2>1
<1>11. CASE /\ \E k \in DOMAIN v \cap DOMAIN w : Lower(v, w, k)
            /\ \E k \in DOMAIN w \cap DOMAIN v : Lower(w, v, k)
  <2>1. PICK k : Lower(v, w, k)
    BY <1>11
  <2>2. PICK j : Lower(w, v, j)
    BY <1>11
  <2>3. /\ k \in 1 .. Len(v) /\ k \in 1 .. Len(w) /\ v[k] < w[k]
        /\ \A i \in 1 .. k - 1 : v[i] = w[i]
    BY <1>1, <1>5, <2>1
  <2>4. /\ j \in 1 .. Len(v) /\ j \in 1 .. Len(w) /\ w[j] < v[j]
        /\ \A i \in 1 .. j - 1 : w[i] = v[i]
    BY <1>1, <1>5, <2>2
  <2>5. k = j \/ k \in 1 .. j - 1 \/ j \in 1 .. k - 1
    BY <1>1, <2>3, <2>4
  <2>6. v[k] \in Nat /\ w[k] \in Nat /\ v[j] \in Nat /\ w[j] \in Nat
    BY <1>6, <1>7, <2>3, <2>4
  <2>7. CASE k = j
    BY <2>3, <2>4, <2>6, <2>7
  <2>8. CASE k \in 1 .. j - 1
    BY <2>3, <2>4, <2>6, <2>8
  <2>9. CASE j \in 1 .. k - 1
    BY <2>3, <2>4, <2>6, <2>9
  <2> QED
    BY <2>5, <2>7, <2>8, <2>9
<1> QED
  BY <1>2, <1>3, <1>8, <1>9, <1>10, <1>11
-----------------------------------------------------------------------------
(***************************************************************************)
(* DirTree: the invariant.  What is not drawn waits: in or under a file of *)
(* a call that goes on, or in the directory to be read next.               *)
(***************************************************************************)

Tab == {"tab", "bar"}

TreeTypes ==
  /\ tree \in Trees
  /\ printFiles \in BOOLEAN
  /\ reading \in [dir : Nodes \cup {-1, 0}, tabs : Seq(Tab)]
  /\ calls \in Seq([files : Seq(Nodes), tabs : Seq(Tab)])
  /\ drawn \in Seq([tabs : Seq(Tab), last : BOOLEAN, node : Nodes])
  /\ exit \in {"", "ok", "fatal"}

\* The directory n is in, or one around it, comes before p in the directory of p.
Before(n, p) ==
  \E s \in Nodes : Under(n, s) /\ tree.parent[s] = tree.parent[p] /\ s < p

\* The bars left of a node, and of what it holds.
Bar(n) == IF LastOne(n) THEN "tab" ELSE "bar"
Bars(n) == [i \in 1 .. Len(Way[n]) - 1 |-> Bar(Way[n][i])]

Drawn == {drawn[k].node : k \in 1 .. Len(drawn)}
Pending == UNION {{calls[i].files[x] : x \in 1 .. Len(calls[i].files)} : i \in 1 .. Len(calls)}
Waiting ==
  {n \in Visible : \/ \E p \in Pending : Under(n, p)
                   \/ reading.dir = 0
                   \/ reading.dir \in Nodes /\ n # reading.dir /\ Under(n, reading.dir)}

\* The lines printed, whatever comes after them.
LinesInv ==
  \A k \in 1 .. Len(drawn) :
    LET n == drawn[k].node
    IN  /\ n \in Visible
        /\ {drawn[j].node : j \in 1 .. k - 1} = {m \in Visible : Precedes(m, n)}
        /\ drawn[k].last = LastOne(n)
        /\ drawn[k].tabs = Bars(n)

\* Every node is drawn or waits, and what is drawn precedes what waits.
WaitingInv ==
  exit # "fatal" =>
    /\ Drawn \cup Waiting = Visible
    /\ \A m \in Drawn, n \in Waiting : Precedes(m, n)

\* The files of a call: the rest of a directory.
Rest(c) ==
  \A x \in 1 .. Len(c.files) :
    /\ c.files[x] \in Visible
    /\ c.tabs = Bars(c.files[x])
    /\ \A y \in 1 .. Len(c.files) : /\ tree.parent[c.files[y]] = tree.parent[c.files[x]]
                                    /\ x < y => c.files[x] < c.files[y]
    /\ \A n \in Visible : tree.parent[n] = tree.parent[c.files[x]] /\ c.files[x] < n =>
         \E y \in 1 .. Len(c.files) : c.files[y] = n
FilesInv == \A i \in 1 .. Len(calls) : Rest(calls[i])

\* What an inner call draws comes before what the calls around it have left.
CallsInv ==
  \A i, j \in 1 .. Len(calls) : i < j =>
    \A x \in 1 .. Len(calls[i].files), y \in 1 .. Len(calls[j].files) :
      Before(calls[j].files[y], calls[i].files[x])

ReadingInv ==
  /\ reading.dir = -1 => reading = None
  /\ reading.dir = 0 => calls = <<>> /\ drawn = <<>> /\ reading.tabs = <<>>
  /\ reading.dir \in Nodes =>
       /\ reading.dir \in tree.dirs
       /\ reading.tabs = Append(Bars(reading.dir), Bar(reading.dir))
       /\ \A p \in Pending : Before(reading.dir, p)
  /\ exit = "ok" => calls = <<>>
  /\ exit # "" => reading.dir = -1

TreeInv == /\ TreeTypes /\ LinesInv /\ WaitingInv
           /\ FilesInv /\ CallsInv /\ ReadingInv
\* All this depends on the tree and on -f, which no step changes.
LEMMA TreeFrame ==
  ASSUME tree' = tree, printFiles' = printFiles
  PROVE  /\ Way' = Way /\ Visible' = Visible
         /\ \A n, a : Under(n, a)' = Under(n, a)
         /\ \A m, n : Precedes(m, n)' = Precedes(m, n)
         /\ \A n, p : Before(n, p)' = Before(n, p)
         /\ \A n : /\ LastOne(n)' = LastOne(n)
                   /\ Bar(n)' = Bar(n)
                   /\ Bars(n)' = Bars(n)
<1>1. Way' = Way
  BY DEF Way
<1>2. Visible' = Visible
  BY DEF Visible
<1>3. ASSUME NEW n, NEW a PROVE Under(n, a)' = Under(n, a)
  BY <1>1 DEF Under
<1>4. ASSUME NEW m, NEW n PROVE Precedes(m, n)' = Precedes(m, n)
  BY <1>1 DEF Precedes
<1>5. ASSUME NEW n, NEW p PROVE Before(n, p)' = Before(n, p)
  BY <1>3 DEF Before
<1>6. ASSUME NEW n PROVE LastOne(n)' = LastOne(n)
  BY <1>2 DEF LastOne
<1>7. ASSUME NEW n PROVE Bar(n)' = Bar(n)
  BY <1>6 DEF Bar
<1>8. ASSUME NEW n PROVE Bars(n)' = Bars(n)
  BY <1>1, <1>7 DEF Bars
<1> QED
  BY <1>1, <1>2, <1>3, <1>4, <1>5, <1>6, <1>7, <1>8

\* A step that leaves the tree keeps the files of the calls, if each call that is left
\* still holds the rest of a directory.
LEMMA FilesFrame ==
  ASSUME tree' = tree, printFiles' = printFiles, \A i \in 1 .. Len(calls') : Rest(calls'[i])
  PROVE  FilesInv'
<1>1. Visible' = Visible /\ \A n : Bars(n)' = Bars(n)
  BY TreeFrame
<1> QED
  BY <1>1 DEF FilesInv, Rest

\* Only directories hold anything.
LEMMA OuterIsDirectory ==
  tree \in Trees =>
    \A n \in Nodes, a \in Nodes : Under(n, a) /\ n # a => a \in tree.dirs
<1> DEFINE Bad == {n \in Nodes : \E a \in Nodes : Under(n, a) /\ n # a /\ a \notin tree.dirs}
<1> SUFFICES ASSUME tree \in Trees, Bad # {} PROVE FALSE
  OBVIOUS
<1>1. PICK n \in Bad : \A m \in Bad : n <= m
  <2>1. Bad \in SUBSET Nat
    BY TreeAssumption
  <2> HIDE DEF Bad
  <2> QED
    BY <2>1, Least
<1>2. PICK a \in Nodes : n \in Nodes /\ Under(n, a) /\ n # a /\ a \notin tree.dirs
  OBVIOUS
<1> DEFINE q == tree.parent[n]
<1>3. q # 0 /\ Under(q, a) /\ q \in tree.dirs /\ q \in Nodes /\ q \in Nat /\ n \in Nat /\ q < n
  <2>1. q # 0 /\ Under(q, a)
    BY <1>2, UnderUnfolds
  <2>2. q \in tree.dirs \cup {0}
    BY <1>2, TreeAssumption
  <2>3. q \in Nodes /\ q \in Nat /\ n \in Nat /\ q < n
    BY <1>2, <2>1, WayUnfolds
  <2> QED
    BY <2>1, <2>2, <2>3
<1> HIDE DEF q
<1>4. q \in Bad
  BY <1>2, <1>3
<1> HIDE DEF Bad
<1> QED
  BY <1>1, <1>3, <1>4

\* What lies in a directory is one of its files, or lies in one.
LEMMA InsideFiles ==
  tree \in Trees =>
    \A n \in Nodes, d \in Nodes \cup {0} :
      (d = 0 \/ (n # d /\ Under(n, d))) <=> \E c \in Nodes : tree.parent[c] = d /\ Under(n, c)
<1> DEFINE Inside(n, d) == d = 0 \/ (n # d /\ Under(n, d))
           File(n, d) == \E c \in Nodes : tree.parent[c] = d /\ Under(n, c)
           Bad == {n \in Nodes : \E d \in Nodes \cup {0} : Inside(n, d) /\ ~ File(n, d)}
<1> SUFFICES ASSUME tree \in Trees
             PROVE  \A n \in Nodes, d \in Nodes \cup {0} : Inside(n, d) <=> File(n, d)
  OBVIOUS
<1>1. ASSUME NEW n \in Nodes, NEW d \in Nodes, NEW c \in Nodes, tree.parent[c] = d, Under(n, c)
      PROVE  n # d /\ Under(n, d)
  <2>1. c \in Nat /\ d \in Nat /\ d < c /\ d # 0
    BY <1>1, WayUnfolds
  <2>2. Under(d, d) /\ Under(c, d)
    BY <1>1, <2>1, UnderUnfolds
  <2>3. Under(n, d)
    BY <1>1, <2>2, UnderTransitive
  <2>4. ASSUME n = d PROVE FALSE
    <3>1. Len(Way[d]) <= Len(Way[c]) /\ Len(Way[c]) <= Len(Way[d])
      BY <1>1, <2>2, <2>4, WayBegins
    <3>2. Len(Way[d]) = Len(Way[c])
      BY <3>1, WayType
    <3>3. d = c
      BY <2>2, <3>2, WayBegins
    <3> QED
      BY <2>1, <3>3
  <2> QED
    BY <2>3, <2>4
<1>2. ASSUME Bad # {} PROVE FALSE
  <2>1. PICK n \in Bad : \A m \in Bad : n <= m
    <3>1. Bad \in SUBSET Nat
      BY TreeAssumption
    <3> HIDE DEF Bad
    <3> QED
      BY <1>2, <3>1, Least
  <2>2. PICK d \in Nodes \cup {0} : n \in Nodes /\ Inside(n, d) /\ ~ File(n, d)
    OBVIOUS
  <2> DEFINE q == tree.parent[n]
  <2>3. Under(n, n) /\ q \in Nodes \cup {0} /\ q \in Nat /\ n \in Nat /\ q < n
    <3>1. Under(n, n)
      BY <2>2, UnderUnfolds
    <3>2. q \in Nodes \cup {0} /\ q < n /\ n \in Nat
      BY <2>2, WayUnfolds
    <3>3. Nodes \subseteq Nat
      BY TreeAssumption
    <3> HIDE DEF q
    <3> QED
      BY <3>1, <3>2, <3>3
  <2>4. q # d
    BY <2>2, <2>3
  <2>5. q # 0 /\ Inside(q, d)
    <3>1. CASE d = 0
      BY <2>4, <3>1
    <3>2. CASE d # 0
      <4>1. d \in Nodes /\ n # d /\ Under(n, d)
        BY <2>2, <3>2
      <4>2. q # 0 /\ Under(q, d)
        BY <2>2, <4>1, UnderUnfolds
      <4> QED
        BY <2>4, <4>2
    <3> QED
      BY <3>1, <3>2
  <2>6. \A c \in Nodes : Under(q, c) => Under(n, c)
    BY <2>2, <2>5, UnderUnfolds
  <2>7. ~ File(q, d)
    BY <2>2, <2>6
  <2> HIDE DEF q, Inside, File
  <2>8. q \in Bad
    BY <2>2, <2>3, <2>5, <2>7
  <2> HIDE DEF Bad
  <2> QED
    BY <2>1, <2>3, <2>8
<1>3. ASSUME NEW n \in Nodes, NEW d \in Nodes \cup {0}, File(n, d) PROVE Inside(n, d)
  BY <1>1, <1>3
<1> HIDE DEF Inside, File
<1> QED
  BY <1>2, <1>3

\* A node that comes before another lies apart from it, and before all it holds.
LEMMA BeforeApart ==
  tree \in Trees =>
    \A n \in Nodes, p \in Nodes : Before(n, p) =>
      /\ ~ Under(n, p) /\ ~ Under(p, n)
      /\ \A m \in Nodes : Under(m, p) => Precedes(n, m)
<1> SUFFICES ASSUME tree \in Trees, NEW n \in Nodes, NEW p \in Nodes, Before(n, p)
             PROVE  /\ ~ Under(n, p) /\ ~ Under(p, n)
                    /\ \A m \in Nodes : Under(m, p) => Precedes(n, m)
  OBVIOUS
<1>1. PICK s \in Nodes : Under(n, s) /\ tree.parent[s] = tree.parent[p] /\ s < p
  BY DEF Before
<1>2. s # p
  BY <1>1, TreeAssumption
<1>3. ~ Under(n, p)
  BY <1>1, <1>2, OneSibling
<1>4. ~ Under(p, n)
  BY <1>1, <1>2, OneSibling, UnderTransitive, UnderUnfolds
<1> QED
  BY <1>1, <1>3, <1>4, SiblingPrecedes

\* The bars of a file are those of its directory and one more.
LEMMA FileBars ==
  tree \in Trees =>
    \A c \in Nodes :
      Bars(c) = IF tree.parent[c] = 0 THEN <<>>
                ELSE Append(Bars(tree.parent[c]), Bar(tree.parent[c]))
<1> SUFFICES ASSUME tree \in Trees, NEW c \in Nodes
             PROVE  Bars(c) = IF tree.parent[c] = 0 THEN <<>>
                              ELSE Append(Bars(tree.parent[c]), Bar(tree.parent[c]))
  OBVIOUS
<1>1. CASE tree.parent[c] = 0
  <2>1. Way[c] = <<c>>
    BY <1>1, WayUnfolds
  <2>2. Len(<<c>>) - 1 = 0
    OBVIOUS
  <2> QED
    BY <1>1, <2>1, <2>2 DEF Bars
<1>2. CASE tree.parent[c] # 0
  <2> DEFINE d == tree.parent[c]
             v == Way[d]
             w == Way[c]
  <2>1. d \in Nodes /\ w = Append(v, c) /\ v \in Seq(Nodes) /\ Len(v) \in Nat \ {0} /\ v[Len(v)] = d
    BY <1>2, WayUnfolds, WayType
  <2> HIDE DEF d, v, w
  <2>2. Len(w) = Len(v) + 1 /\ \A i \in 1 .. Len(v) : w[i] = v[i]
    BY <2>1
  <2>3. [i \in 1 .. Len(w) - 1 |-> Bar(w[i])]
          = Append([i \in 1 .. Len(v) - 1 |-> Bar(v[i])], Bar(d))
    <3>1. \A i \in 1 .. Len(v) : w[i] = v[i] /\ (i = Len(v) => v[i] = d)
      BY <2>1, <2>2
    <3> QED
      BY <2>1, <2>2, <3>1
  <2> QED
    BY <1>2, <2>3 DEF Bars, d, v, w
<1> QED
  BY <1>1, <1>2
\* A listing holds every file of the directory that is shown, in the order of names.
LEMMA ListedRight ==
  ASSUME tree \in Trees, printFiles \in BOOLEAN, NEW d
  PROVE  LET files == Listed(d)
         IN  /\ files \in Seq(Nodes) /\ Len(files) \in Nat
             /\ \A x, y \in 1 .. Len(files) : x < y => files[x] < files[y]
             /\ \A x \in 1 .. Len(files) : files[x] \in Visible /\ tree.parent[files[x]] = d
             /\ \A n \in Visible : tree.parent[n] = d => \E x \in 1 .. Len(files) : files[x] = n
<1> DEFINE S == {n \in Nodes : tree.parent[n] = d}
           all == ReadDir(d)
<1>1. Nodes \in SUBSET Nat /\ tree.dirs \subseteq Nodes
  BY TreeAssumption
<1>2. /\ all \in Seq(Nodes) /\ Len(all) \in Nat
      /\ \A x, y \in 1 .. Len(all) : x < y => all[x] < all[y]
      /\ \A x \in 1 .. Len(all) : all[x] \in Nodes /\ tree.parent[all[x]] = d
      /\ \A n \in Nodes : tree.parent[n] = d => \E x \in 1 .. Len(all) : all[x] = n
  <2>1. S \in SUBSET Nat /\ IsFiniteSet(S) /\ S \subseteq Nodes
    BY <1>1, FS_Subset, TreeAssumption
  <2> DEFINE c == Cardinality(S)
  <2> HIDE DEF S
  <2>2. /\ c \in Nat
        /\ all \in [1 .. c -> S]
        /\ \A i, j \in 1 .. c : i < j => all[i] < all[j]
        /\ \A x \in S : \E i \in 1 .. c : all[i] = x
    BY <2>1, AscendingRight DEF ReadDir, S
  <2> HIDE DEF all, c
  <2>3. all \in Seq(Nodes) /\ Len(all) = c
    <3>1. all \in [1 .. c -> Nodes]
      BY <2>1, <2>2
    <3> QED
      BY <2>2, <3>1
  <2>4. \A x \in 1 .. c : all[x] \in S
    BY <2>2
  <2>5. \A n \in S : n \in Nodes /\ tree.parent[n] = d
    BY DEF S
  <2>6. \A n \in Nodes : tree.parent[n] = d => n \in S
    BY DEF S
  <2> QED
    BY <2>2, <2>3, <2>4, <2>5, <2>6
<1> HIDE DEF all
<1>3. CASE printFiles
  <2>1. Listed(d) = all /\ Visible = Nodes
    BY <1>3 DEF Listed, Visible, all
  <2> QED
    BY <1>2, <2>1
<1>4. CASE ~ printFiles
  <2> DEFINE places == {i \in 1 .. Len(all) : all[i] \in tree.dirs}
             files == Entries(all, places)
             A == Ascending(places)
  <2>1. Listed(d) = files /\ Visible = tree.dirs
    <3>1. DOMAIN all = 1 .. Len(all)
      BY <1>2
    <3> QED
      BY <1>4, <3>1 DEF Listed, Visible, all
  <2>2. /\ files \in Seq(Nodes) /\ Len(files) \in Nat
        /\ \A k \in 1 .. Len(files) : A[k] \in places /\ files[k] = all[A[k]]
        /\ \A j, k \in 1 .. Len(files) : j < k => A[j] < A[k]
        /\ \A i \in places : \E k \in 1 .. Len(files) : A[k] = i
    <3>1. places \in SUBSET (1 .. Len(all))
      OBVIOUS
    <3> HIDE DEF places
    <3> QED
      BY <1>2, <3>1, EntriesRight
  <2> HIDE DEF files, A
  <2>3. ASSUME NEW x \in 1 .. Len(files), NEW y \in 1 .. Len(files), x < y
        PROVE  files[x] < files[y]
    <3>1. /\ A[x] \in 1 .. Len(all) /\ A[y] \in 1 .. Len(all) /\ A[x] < A[y]
          /\ files[x] = all[A[x]] /\ files[y] = all[A[y]]
      BY <2>2, <2>3
    <3> QED
      BY <1>2, <3>1
  <2>4. \A x \in 1 .. Len(files) : files[x] \in tree.dirs /\ tree.parent[files[x]] = d
    BY <1>2, <2>2
  <2>5. ASSUME NEW n \in tree.dirs, tree.parent[n] = d
        PROVE  \E x \in 1 .. Len(files) : files[x] = n
    <3>1. PICK i \in 1 .. Len(all) : all[i] = n
      BY <1>1, <1>2, <2>5
    <3>2. i \in places
      BY <2>5, <3>1
    <3>3. PICK k \in 1 .. Len(files) : A[k] = i
      BY <2>2, <3>2
    <3> QED
      BY <2>2, <3>1, <3>3
  <2> QED
    BY <2>1, <2>2, <2>3, <2>4, <2>5
<1> QED
  BY <1>3, <1>4
-----------------------------------------------------------------------------
(***************************************************************************)
(* DirTree: every step preserves the invariant.                            *)
(***************************************************************************)

\* What waits is a file of a call.
OneOf(p, c) == \E x \in 1 .. Len(c.files) : p = c.files[x]

\* What waits is what a call on the stack still has to print, before and after a step.
LEMMA InPending ==
  ASSUME NEW p
  PROVE  /\ p \in Pending <=> \E i \in 1 .. Len(calls) : OneOf(p, calls[i])
         /\ p \in Pending' <=> \E i \in 1 .. Len(calls') : OneOf(p, calls'[i])
<1>1. p \in Pending <=> \E i \in 1 .. Len(calls) : OneOf(p, calls[i])
  BY DEF Pending, OneOf
<1>2. p \in Pending' <=> \E i \in 1 .. Len(calls') : OneOf(p, calls'[i])
  BY DEF Pending, OneOf
<1> QED
  BY <1>1, <1>2

\* What the types say of nodes, and of a call.
LEMMA TreeBasics ==
  TreeTypes =>
    /\ Visible \subseteq Nodes /\ tree.dirs \subseteq Visible /\ 0 \notin Nodes /\ -1 \notin Nodes
    /\ Len(calls) \in Nat /\ Len(drawn) \in Nat
    /\ \A i \in 1 .. Len(calls) : calls[i] \in [files : Seq(Nodes), tabs : Seq(Tab)]
    /\ \A k \in 1 .. Len(drawn) : drawn[k].node \in Nodes
    /\ Pending \subseteq Nodes
<1> SUFFICES ASSUME TreeTypes
             PROVE  /\ Visible \subseteq Nodes /\ tree.dirs \subseteq Visible
                    /\ 0 \notin Nodes /\ -1 \notin Nodes
                    /\ Len(calls) \in Nat /\ Len(drawn) \in Nat
                    /\ \A i \in 1 .. Len(calls) : calls[i] \in [files : Seq(Nodes), tabs : Seq(Tab)]
                    /\ \A k \in 1 .. Len(drawn) : drawn[k].node \in Nodes
                    /\ Pending \subseteq Nodes
  OBVIOUS
<1>1. Visible \subseteq Nodes /\ tree.dirs \subseteq Visible /\ 0 \notin Nodes /\ -1 \notin Nodes
  <2>1. tree \in Trees
    BY DEF TreeTypes
  <2>2. tree.dirs \subseteq Nodes /\ Nodes \subseteq Nat \ {0}
    BY <2>1, TreeAssumption
  <2> QED
    BY <2>2 DEF Visible
<1> DEFINE Calls == [files : Seq(Nodes), tabs : Seq(Tab)]
           Lines == [tabs : Seq(Tab), last : BOOLEAN, node : Nodes]
<1>a. calls \in Seq(Calls) /\ drawn \in Seq(Lines)
  BY DEF TreeTypes
<1>2. Len(calls) \in Nat /\ Len(drawn) \in Nat
  BY <1>a
<1>3. \A i \in 1 .. Len(calls) : calls[i] \in Calls
  <2> HIDE DEF Calls
  <2> QED
    BY <1>a
<1>4. \A k \in 1 .. Len(drawn) : drawn[k].node \in Nodes
  <2>1. \A k \in 1 .. Len(drawn) : drawn[k] \in Lines
    <3> HIDE DEF Lines
    <3> QED
      BY <1>a
  <2> QED
    BY <2>1
<1>5. Pending \subseteq Nodes
  <2>1. ASSUME NEW i \in 1 .. Len(calls), NEW x \in 1 .. Len(calls[i].files)
        PROVE  calls[i].files[x] \in Nodes
    <3>1. calls[i].files \in Seq(Nodes)
      BY <1>3
    <3> QED
      BY <3>1
  <2> QED
    BY <2>1 DEF Pending
<1> QED
  BY <1>1, <1>2, <1>3, <1>4, <1>5

\* dirTree starts within the invariant.
LEMMA TreeInitial == TreeInit => TreeInv
<1> SUFFICES ASSUME TreeInit PROVE TreeInv
  OBVIOUS
<1>1. TreeTypes
  <2>1. /\ tree \in Trees /\ printFiles \in BOOLEAN /\ exit \in {"", "ok", "fatal"}
        /\ reading = [dir |-> 0, tabs |-> <<>>] /\ calls = <<>> /\ drawn = <<>>
    BY DEF TreeInit
  <2>2. <<>> \in Seq(Tab) /\ 0 \in Nodes \cup {-1, 0}
    OBVIOUS
  <2>3. reading \in [dir : Nodes \cup {-1, 0}, tabs : Seq(Tab)]
    BY <2>1, <2>2
  <2>4. \A S : <<>> \in Seq(S)
    OBVIOUS
  <2>5. /\ calls \in Seq([files : Seq(Nodes), tabs : Seq(Tab)])
        /\ drawn \in Seq([tabs : Seq(Tab), last : BOOLEAN, node : Nodes])
    BY <2>1, <2>4, Zenon
  <2> QED
    BY <2>1, <2>3, <2>5, Zenon DEF TreeTypes
<1>2. Len(calls) = 0 /\ Len(drawn) = 0 /\ 0 \notin Nodes
  BY TreeAssumption DEF TreeInit
<1>3. LinesInv /\ FilesInv /\ CallsInv
  BY <1>2 DEF LinesInv, FilesInv, CallsInv
<1>4. ReadingInv
  <2>1. reading.dir = 0 /\ reading.tabs = <<>> /\ calls = <<>> /\ drawn = <<>> /\ exit = ""
    BY DEF TreeInit
  <2>2. ASSUME NEW z, z = 0 PROVE z \notin Nodes /\ z # -1
    BY <1>2, <2>2
  <2>3. reading.dir \notin Nodes /\ reading.dir # -1
    BY <2>1, <2>2
  <2> QED
    BY <2>1, <2>3 DEF ReadingInv
<1>5. WaitingInv
  <2>1. Drawn = {}
    BY <1>2 DEF Drawn
  <2>2. Waiting = Visible
    BY DEF Waiting, TreeInit
  <2> QED
    BY <2>1, <2>2 DEF WaitingInv
<1> QED
  BY <1>1, <1>3, <1>4, <1>5 DEF TreeInv

\* A directory is read: its files wait now where it waited.
LEMMA OpenStep == TreeInv /\ Open => TreeInv'
<1> SUFFICES ASSUME TreeInv, Open PROVE TreeInv'
  OBVIOUS
<1> USE DEF TreeInv
<1> DEFINE d == reading.dir
           files == Listed(d)
           L == Len(calls)
<1>1. /\ tree' = tree /\ printFiles' = printFiles /\ drawn' = drawn /\ exit' = exit
      /\ reading' = None
      /\ calls' = Append(calls, [files |-> files, tabs |-> reading.tabs])
  BY DEF Open
<1>2. /\ tree \in Trees /\ printFiles \in BOOLEAN
      /\ d \in Nodes \cup {0} /\ exit = "" /\ reading.tabs \in Seq(Tab)
  <2>1. reading # None
    BY DEF Open
  <2> QED
    BY <2>1 DEF TreeTypes, ReadingInv
<1>3. /\ files \in Seq(Nodes) /\ Len(files) \in Nat
      /\ \A x, y \in 1 .. Len(files) : x < y => files[x] < files[y]
      /\ \A x \in 1 .. Len(files) : files[x] \in Visible /\ tree.parent[files[x]] = d
      /\ \A n \in Visible : tree.parent[n] = d => \E x \in 1 .. Len(files) : files[x] = n
  BY <1>2, ListedRight
<1>4. /\ Visible \subseteq Nodes /\ tree.dirs \subseteq Visible /\ 0 \notin Nodes /\ -1 \notin Nodes
      /\ L \in Nat /\ Pending \subseteq Nodes
  BY TreeBasics
<1> HIDE DEF files
<1> DEFINE Calls == [files : Seq(Nodes), tabs : Seq(Tab)]
           new == [files |-> files, tabs |-> reading.tabs]
<1>5. /\ Len(calls') = L + 1
      /\ \A i \in 1 .. L : calls'[i] = calls[i]
      /\ calls'[L + 1] = new
      /\ calls' \in Seq(Calls)
  <2>1. new \in Calls
    BY <1>2, <1>3
  <2>2. calls \in Seq(Calls)
    BY DEF TreeTypes
  <2>3. calls' = Append(calls, new)
    BY <1>1
  <2> HIDE DEF Calls, new
  <2> QED
    BY <2>1, <2>2, <2>3
<1>6. TreeTypes'
  <2>1. reading' \in [dir : Nodes \cup {-1, 0}, tabs : Seq(Tab)]
    BY <1>1 DEF None
  <2> QED
    BY <1>1, <1>5, <2>1 DEF TreeTypes
<1>7. LinesInv'
  BY <1>1, TreeFrame DEF LinesInv
<1>8. Pending' = Pending \cup {files[x] : x \in 1 .. Len(files)}
  <2>1. \A i \in 1 .. L + 1 : i \in 1 .. L \/ i = L + 1
    BY <1>4
  <2>2. 1 .. L \subseteq 1 .. L + 1 /\ L + 1 \in 1 .. L + 1
    BY <1>4
  <2>3. \A i \in 1 .. L : calls'[i].files = calls[i].files
    BY <1>5
  <2>4. calls'[L + 1].files = files
    BY <1>5
  <2>5. ASSUME NEW p PROVE p \in Pending' <=> p \in Pending \cup {files[x] : x \in 1 .. Len(files)}
    <3>1. p \in Pending' <=> \E i \in 1 .. L + 1 : \E x \in 1 .. Len(calls'[i].files) :
                                p = calls'[i].files[x]
      <4>1. p \in Pending' <=> \E i \in 1 .. Len(calls') : \E x \in 1 .. Len(calls'[i].files) :
                                  p = calls'[i].files[x]
        BY DEF Pending
      <4> QED
        BY <1>5, <4>1
    <3>2. p \in Pending <=> \E i \in 1 .. L : \E x \in 1 .. Len(calls[i].files) :
                               p = calls[i].files[x]
      BY DEF Pending
    <3> HIDE DEF L
    <3> QED
      BY <2>1, <2>2, <2>3, <2>4, <3>1, <3>2
  <2> QED
    BY <2>5
<1>9. Waiting' = Waiting
  <2>1. ASSUME NEW n \in Visible
        PROVE  (\E x \in 1 .. Len(files) : Under(n, files[x])) <=> (d = 0 \/ (n # d /\ Under(n, d)))
    <3>1. (d = 0 \/ (n # d /\ Under(n, d))) <=> \E c \in Nodes : tree.parent[c] = d /\ Under(n, c)
      BY <1>2, <1>4, <2>1, InsideFiles
    <3>2. \A c \in Nodes : Under(n, c) => c \in Visible
      BY <1>2, <1>4, <2>1, OuterIsDirectory
    <3>3. \A c \in Visible : tree.parent[c] = d => \E x \in 1 .. Len(files) : files[x] = c
      BY <1>3
    <3>4. \A x \in 1 .. Len(files) : files[x] \in Nodes /\ tree.parent[files[x]] = d
      BY <1>3, <1>4
    <3> HIDE DEF d
    <3>5. (\E x \in 1 .. Len(files) : Under(n, files[x]))
             <=> \E c \in Nodes : tree.parent[c] = d /\ Under(n, c)
      BY <3>2, <3>3, <3>4
    <3> QED
      BY <3>1, <3>5
  <2>2. reading'.dir = -1
    BY <1>1 DEF None
  <2>3. Waiting' = {n \in Visible : \E p \in Pending' : Under(n, p)}
    <3>1. Visible' = Visible /\ \A n, a : Under(n, a)' = Under(n, a)
      BY <1>1, TreeFrame
    <3> QED
      BY <1>4, <2>2, <3>1 DEF Waiting
  <2>4. ASSUME NEW n \in Visible
        PROVE  n \in Waiting <=>
                 \/ \E p \in Pending : Under(n, p)
                 \/ d = 0 \/ (n # d /\ Under(n, d))
    BY <1>2 DEF Waiting
  <2>5. Waiting \subseteq Visible
    BY DEF Waiting
  <2> HIDE DEF d
  <2> QED
    BY <1>8, <2>1, <2>3, <2>4, <2>5
<1>10. WaitingInv'
  <2>1. Drawn' = Drawn /\ Visible' = Visible /\ \A m, n : Precedes(m, n)' = Precedes(m, n)
    BY <1>1, TreeFrame DEF Drawn
  <2> QED
    BY <1>1, <1>9, <2>1 DEF WaitingInv
<1>11. FilesInv'
  <2>1. \A x \in 1 .. Len(files) : reading.tabs = Bars(files[x])
    <3>1. d = 0 => reading.tabs = <<>>
      BY DEF ReadingInv
    <3>2. d \in Nodes => reading.tabs = Append(Bars(d), Bar(d))
      BY DEF ReadingInv
    <3> HIDE DEF d
    <3> QED
      BY <1>2, <1>3, <1>4, <3>1, <3>2, FileBars
  <2>2. Rest([files |-> files, tabs |-> reading.tabs])
    <3> HIDE DEF d
    <3> QED
      BY <1>3, <2>1 DEF Rest
  <2>3. \A i \in 1 .. L : Rest(calls[i])
    BY DEF FilesInv
  <2>4. ASSUME NEW i \in 1 .. L + 1 PROVE Rest(calls'[i])
    <3>1. i \in 1 .. L \/ i = L + 1
      BY <1>4
    <3>2. CASE i \in 1 .. L
      BY <1>5, <2>3, <3>2
    <3>3. CASE i = L + 1
      BY <1>5, <2>2, <3>3
    <3> QED
      BY <3>1, <3>2, <3>3
  <2> QED
    BY <1>1, <1>5, <2>4, FilesFrame
<1>12. CallsInv'
  <2>1. ASSUME NEW p \in Pending, NEW y \in 1 .. Len(files), d \in Nodes
        PROVE  Before(files[y], p)
    <3>1. PICK s \in Nodes : Under(d, s) /\ tree.parent[s] = tree.parent[p] /\ s < p
      BY <2>1 DEF ReadingInv, Before
    <3>2. files[y] \in Nodes /\ tree.parent[files[y]] = d
      BY <1>3, <1>4, <2>1
    <3>3. Under(d, d) /\ Under(files[y], d)
      BY <1>2, <1>4, <2>1, <3>2, UnderUnfolds
    <3>4. Under(files[y], s)
      BY <1>2, <2>1, <3>1, <3>2, <3>3, UnderTransitive
    <3> QED
      BY <3>1, <3>4 DEF Before
  <2>2. \A i \in 1 .. L : d \in Nodes
    <3>1. d = 0 => L = 0
      <4>1. Len(<<>>) = 0
        OBVIOUS
      <4>2. d = 0 => calls = <<>>
        BY DEF ReadingInv
      <4> QED
        BY <4>1, <4>2
    <3>2. d \in Nodes \cup {0}
      BY <1>2
    <3> HIDE DEF d, L
    <3> QED
      BY <3>1, <3>2
  <2>3. \A i \in 1 .. L : \A x : x \in 1 .. Len(calls[i].files) => calls[i].files[x] \in Pending
    BY DEF Pending
  <2>4. ASSUME NEW i \in 1 .. L + 1, NEW j \in 1 .. L + 1, i < j,
               NEW x \in 1 .. Len(calls'[i].files), NEW y \in 1 .. Len(calls'[j].files)
        PROVE  Before(calls'[j].files[y], calls'[i].files[x])
    <3>1. i \in 1 .. L /\ calls'[i] = calls[i]
      <4>1. i \in 1 .. L
        BY <1>4, <2>4
      <4> QED
        BY <1>5, <4>1
    <3>2. CASE j = L + 1
      <4>1. calls'[j].files = files
        BY <1>5, <3>2
      <4> QED
        BY <2>1, <2>2, <2>3, <2>4, <3>1, <4>1
    <3>3. CASE j # L + 1
      <4>1. j \in 1 .. L
        BY <1>4, <2>4, <3>3
      <4>2. calls'[j] = calls[j]
        BY <1>5, <4>1
      <4> QED
        BY <2>4, <3>1, <4>1, <4>2 DEF CallsInv
    <3> QED
      BY <3>2, <3>3
  <2>5. \A n, p : Before(n, p)' = Before(n, p)
    BY <1>1, TreeFrame
  <2> HIDE DEF L
  <2> QED
    BY <1>5, <2>4, <2>5 DEF CallsInv
<1>13. ReadingInv'
  <2>1. reading'.dir = -1 /\ reading' = None' /\ exit' = ""
    BY <1>1, <1>2 DEF None
  <2>2. ASSUME NEW z, z = -1 PROVE z # 0 /\ z \notin Nodes
    BY <1>4, <2>2
  <2>3. reading'.dir # 0 /\ reading'.dir \notin Nodes
    BY <2>1, <2>2
  <2> QED
    BY <2>1, <2>3 DEF ReadingInv
<1> QED
  BY <1>6, <1>7, <1>10, <1>11, <1>12, <1>13
\* A directory cannot be read: what was drawn stays right.
LEMMA FatalStep == TreeInv /\ Fatal => TreeInv'
<1> SUFFICES ASSUME TreeInv, Fatal PROVE TreeInv'
  OBVIOUS
<1>1. /\ tree' = tree /\ printFiles' = printFiles /\ drawn' = drawn /\ calls' = calls
      /\ reading' = None /\ exit' = "fatal"
  BY DEF Fatal
<1>2. TreeTypes /\ LinesInv /\ FilesInv /\ CallsInv
  BY DEF TreeInv
<1>3. TreeTypes'
  <2>1. None \in [dir : Nodes \cup {-1, 0}, tabs : Seq(Tab)]
    BY DEF None
  <2>2. /\ tree \in Trees /\ printFiles \in BOOLEAN
        /\ calls \in Seq([files : Seq(Nodes), tabs : Seq(Tab)])
        /\ drawn \in Seq([tabs : Seq(Tab), last : BOOLEAN, node : Nodes])
    BY <1>2 DEF TreeTypes
  <2> QED
    BY <1>1, <2>1, <2>2, Zenon DEF TreeTypes
<1>4. LinesInv' /\ FilesInv' /\ CallsInv'
  <2>1. LinesInv'
    BY <1>1, <1>2, TreeFrame DEF LinesInv
  <2>2. FilesInv'
    BY <1>1, <1>2, FilesFrame DEF FilesInv
  <2>3. CallsInv'
    BY <1>1, <1>2, TreeFrame DEF CallsInv
  <2> QED
    BY <2>1, <2>2, <2>3
<1>5. WaitingInv'
  BY <1>1 DEF WaitingInv
<1>6. ReadingInv'
  <2>1. reading'.dir = -1 /\ reading' = None'
    BY <1>1 DEF None
  <2>2. ASSUME NEW z, z = -1 PROVE z # 0 /\ z \notin Nodes
    BY <1>2, <2>2, TreeBasics
  <2>3. reading'.dir # 0 /\ reading'.dir \notin Nodes
    BY <2>1, <2>2
  <2> QED
    BY <1>1, <2>1, <2>3 DEF ReadingInv
<1> QED
  BY <1>3, <1>4, <1>5, <1>6 DEF TreeInv

\* A call that has drawn its files ends: none of them waits.
LEMMA ReturnStep == TreeInv /\ ReturnCall => TreeInv'
<1> SUFFICES ASSUME TreeInv, ReturnCall PROVE TreeInv'
  OBVIOUS
<1> DEFINE L == Len(calls)
           Calls == [files : Seq(Nodes), tabs : Seq(Tab)]
<1>1. tree' = tree /\ printFiles' = printFiles /\ drawn' = drawn /\ reading' = reading
  BY DEF ReturnCall
<1>a. calls' = SubSeq(calls, 1, L - 1) /\ calls # <<>> /\ calls[L].files = <<>>
  BY DEF ReturnCall, Going, Call
<1>b. reading = None /\ exit = "" /\ exit' = IF calls' = <<>> THEN "ok" ELSE ""
  BY DEF ReturnCall, Going
<1>2. TreeTypes /\ LinesInv /\ FilesInv /\ CallsInv /\ WaitingInv /\ ReadingInv
  BY DEF TreeInv
<1>3. calls \in Seq(Calls) /\ L \in Nat
  BY <1>2, TreeBasics DEF TreeTypes
<1>4. /\ L # 0 /\ Len(calls') = L - 1 /\ L - 1 \in Nat
      /\ \A i \in 1 .. L - 1 : calls'[i] = calls[i]
      /\ calls' \in Seq(Calls)
  <2>1. \A S, c : c \in Seq(S) /\ c # <<>> => Len(c) # 0
    OBVIOUS
  <2> HIDE DEF Calls
  <2>2. L # 0 /\ L - 1 \in Nat /\ L - 1 <= L
    BY <1>a, <1>3, <2>1
  <2>3. Len(calls') = L - 1 /\ \A i \in 1 .. L - 1 : calls'[i] = calls[i]
    <3>1. ASSUME NEW c \in Seq(Calls), NEW n \in Nat, n <= Len(c)
          PROVE  /\ Len(SubSeq(c, 1, n)) = n
                 /\ \A i \in 1 .. n : SubSeq(c, 1, n)[i] = c[i]
      BY <3>1
    <3> HIDE DEF L
    <3> QED
      BY <1>a, <1>3, <2>2, <3>1 DEF L
  <2>4. calls' \in Seq(Calls)
    BY <1>a, <1>3, <2>2
  <2> QED
    BY <2>2, <2>3, <2>4
<1>5. TreeTypes'
  <2>1. /\ tree \in Trees /\ printFiles \in BOOLEAN
        /\ reading \in [dir : Nodes \cup {-1, 0}, tabs : Seq(Tab)]
        /\ drawn \in Seq([tabs : Seq(Tab), last : BOOLEAN, node : Nodes])
    BY <1>2 DEF TreeTypes
  <2>2. exit' \in {"", "ok", "fatal"}
    BY <1>b
  <2> QED
    BY <1>1, <1>4, <2>1, <2>2, Zenon DEF TreeTypes
<1>6. LinesInv'
  BY <1>1, <1>2, TreeFrame DEF LinesInv
<1> HIDE DEF Calls
<1>7. Pending' = Pending
  <2>1. ASSUME NEW p PROVE p \in Pending' <=> p \in Pending
    <3>1. p \in Pending' <=> \E i \in 1 .. L - 1 : \E x \in 1 .. Len(calls[i].files) :
                                p = calls[i].files[x]
      <4>1. p \in Pending' <=> \E i \in 1 .. Len(calls') : \E x \in 1 .. Len(calls'[i].files) :
                                  p = calls'[i].files[x]
        BY DEF Pending
      <4> HIDE DEF L
      <4> QED
        BY <1>4, <4>1
    <3>2. p \in Pending <=> \E i \in 1 .. L : \E x \in 1 .. Len(calls[i].files) :
                               p = calls[i].files[x]
      BY DEF Pending
    <3>3. \A i \in 1 .. L : i \in 1 .. L - 1 \/ i = L
      BY <1>3, <1>4
    <3>4. 1 .. L - 1 \subseteq 1 .. L
      BY <1>3, <1>4
    <3>5. ~ \E x \in 1 .. Len(calls[L].files) : p = calls[L].files[x]
      <4>1. Len(calls[L].files) = 0
        BY <1>a
      <4> QED
        BY <4>1
    <3> HIDE DEF L
    <3> QED
      BY <3>1, <3>2, <3>3, <3>4, <3>5
  <2> QED
    BY <2>1
<1>8. Waiting' = Waiting
  <2>1. Visible' = Visible /\ \A n, a : Under(n, a)' = Under(n, a)
    BY <1>1, TreeFrame
  <2> QED
    BY <1>1, <1>7, <2>1 DEF Waiting
<1>9. WaitingInv'
  <2>1. Drawn' = Drawn /\ Visible' = Visible /\ \A m, n : Precedes(m, n)' = Precedes(m, n)
    BY <1>1, TreeFrame DEF Drawn
  <2>2. exit # "fatal"
    BY <1>b
  <2> QED
    BY <1>2, <1>8, <2>1, <2>2 DEF WaitingInv
<1>10. FilesInv' /\ CallsInv'
  <2>1. /\ tree' = tree /\ Visible' = Visible /\ \A n : Bars(n)' = Bars(n)
        /\ \A n, p : Before(n, p)' = Before(n, p)
    BY <1>1, TreeFrame
  <2>2. \A i \in 1 .. Len(calls') : i \in 1 .. L /\ calls'[i] = calls[i]
    BY <1>3, <1>4
  <2> HIDE DEF L
  <2>3. FilesInv'
    BY <1>1, <1>2, <2>2, FilesFrame DEF FilesInv, L
  <2>4. CallsInv'
    BY <1>2, <2>1, <2>2 DEF CallsInv, L
  <2> QED
    BY <2>3, <2>4
<1>11. ReadingInv'
  <2>1. reading'.dir = -1 /\ reading' = None'
    BY <1>1, <1>b DEF None
  <2>2. ASSUME NEW z, z = -1 PROVE z # 0 /\ z \notin Nodes
    BY <1>2, <2>2, TreeBasics
  <2>3. reading'.dir # 0 /\ reading'.dir \notin Nodes
    BY <2>1, <2>2
  <2>4. exit' = "ok" => calls' = <<>>
    BY <1>b
  <2> QED
    BY <2>1, <2>3, <2>4 DEF ReadingInv
<1> QED
  BY <1>5, <1>6, <1>9, <1>10, <1>11 DEF TreeInv
\* A line is drawn: of what waited, this node comes first, and the line is right.
LEMMA DrawStep == TreeInv /\ Draw => TreeInv'
<1> SUFFICES ASSUME TreeInv, Draw PROVE TreeInv'
  OBVIOUS
<1> DEFINE L == Len(calls)
           F == calls[L].files
           f == Head(F)
           last == Len(F) = 1
           line == [tabs |-> calls[L].tabs, last |-> last, node |-> f]
           inner == [dir |-> f, tabs |-> Append(calls[L].tabs, IF last THEN "tab" ELSE "bar")]
           Calls == [files : Seq(Nodes), tabs : Seq(Tab)]
           Lines == [tabs : Seq(Tab), last : BOOLEAN, node : Nodes]
<1>1. tree' = tree /\ printFiles' = printFiles /\ exit' = exit
  BY DEF Draw
<1>2. /\ calls # <<>> /\ F # <<>>
      /\ calls' = [calls EXCEPT ![L].files = Tail(F)]
      /\ drawn' = Append(drawn, line)
      /\ reading' = IF f \in tree.dirs THEN inner ELSE None
  BY DEF Draw, Going, Call
<1>3. exit = "" /\ reading = None
  BY DEF Draw, Going
<1>4. TreeTypes /\ LinesInv /\ FilesInv /\ CallsInv /\ WaitingInv /\ ReadingInv
  BY DEF TreeInv
<1>5. /\ tree \in Trees
      /\ Visible \subseteq Nodes /\ tree.dirs \subseteq Visible /\ 0 \notin Nodes /\ -1 \notin Nodes
      /\ Pending \subseteq Nodes
  BY <1>4, TreeBasics DEF TreeTypes
<1>6. /\ calls \in Seq(Calls) /\ L \in Nat /\ L # 0
      /\ drawn \in Seq(Lines) /\ Len(drawn) \in Nat
  <2>1. calls \in Seq(Calls) /\ drawn \in Seq(Lines)
    BY <1>4 DEF TreeTypes
  <2>2. \A S, c : c \in Seq(S) /\ c # <<>> => Len(c) # 0
    OBVIOUS
  <2> HIDE DEF Calls, Lines
  <2> QED
    BY <1>2, <2>1, <2>2
<1>7. /\ F \in Seq(Nodes) /\ calls[L].tabs \in Seq(Tab) /\ calls[L] \in Calls
      /\ L \in 1 .. L
  <2>1. calls[L] \in Calls /\ L \in 1 .. L
    <3> HIDE DEF Calls
    <3> QED
      BY <1>6
  <2> QED
    BY <2>1
<1> HIDE DEF L, F, Calls, Lines
<1>8. /\ Len(F) \in Nat \ {0} /\ f = F[1] /\ f \in Nodes
      /\ Tail(F) \in Seq(Nodes) /\ Len(Tail(F)) = Len(F) - 1
      /\ \A x \in 1 .. Len(F) - 1 : Tail(F)[x] = F[x + 1]
  BY <1>2, <1>7
<1> HIDE DEF f
<1>9. /\ Len(calls') = L /\ calls' \in Seq(Calls)
      /\ \A i \in 1 .. L : i # L => calls'[i] = calls[i]
      /\ calls'[L].files = Tail(F) /\ calls'[L].tabs = calls[L].tabs
  <2> DEFINE c == [calls[L] EXCEPT !.files = Tail(F)]
  <2>1. c \in Calls /\ c.files = Tail(F) /\ c.tabs = calls[L].tabs
    BY <1>7, <1>8 DEF Calls
  <2>2. calls' = [calls EXCEPT ![L] = c]
    BY <1>2
  <2> HIDE DEF c
  <2>3. calls \in [1 .. L -> Calls] /\ DOMAIN calls = 1 .. L
    BY <1>6 DEF L
  <2>4. calls' \in [1 .. L -> Calls] /\ calls'[L] = c /\ \A i \in 1 .. L : i # L => calls'[i] = calls[i]
    BY <1>7, <2>1, <2>2, <2>3
  <2>5. calls' \in Seq(Calls) /\ Len(calls') = L
    BY <1>6, <2>4
  <2> QED
    BY <2>1, <2>4, <2>5
<1>10. /\ Len(drawn') = Len(drawn) + 1 /\ drawn' \in Seq(Lines)
       /\ \A k \in 1 .. Len(drawn) : drawn'[k] = drawn[k]
       /\ drawn'[Len(drawn) + 1] = line
  <2>1. line \in Lines
    BY <1>7, <1>8 DEF Lines
  <2> HIDE DEF line
  <2> QED
    BY <1>2, <1>6, <2>1
<1>a. line.node = f /\ line.tabs = calls[L].tabs /\ line.last = last
  OBVIOUS
<1> HIDE DEF line
<1>11. TreeTypes'
  <2>1. inner \in [dir : Nodes \cup {-1, 0}, tabs : Seq(Tab)]
    <3>1. Append(calls[L].tabs, IF last THEN "tab" ELSE "bar") \in Seq(Tab)
      BY <1>7 DEF Tab
    <3>2. f \in Nodes \cup {-1, 0}
      BY <1>8
    <3> QED
      BY <3>1, <3>2
  <2>2. None \in [dir : Nodes \cup {-1, 0}, tabs : Seq(Tab)]
    BY DEF None
  <2>3. reading' \in [dir : Nodes \cup {-1, 0}, tabs : Seq(Tab)]
    BY <1>2, <2>1, <2>2
  <2>4. printFiles \in BOOLEAN /\ exit \in {"", "ok", "fatal"}
    BY <1>4 DEF TreeTypes
  <2> QED
    BY <1>1, <1>5, <1>9, <1>10, <2>3, <2>4, Zenon DEF TreeTypes, Calls, Lines
<1>12. /\ f \in Visible /\ calls[L].tabs = Bars(f)
       /\ \A y \in 1 .. Len(F) : tree.parent[F[y]] = tree.parent[f] /\ (1 < y => f < F[y])
       /\ \A n \in Visible : tree.parent[n] = tree.parent[f] /\ f < n => \E y \in 1 .. Len(F) : F[y] = n
  <2>1. Rest(calls[L]) /\ 1 \in 1 .. Len(F)
    BY <1>4, <1>7, <1>8 DEF FilesInv, L
  <2> QED
    BY <1>8, <2>1 DEF Rest, F
<1>13. Len(F) = 1 <=> LastOne(f)
  <2>1. f \in Nat /\ Visible \subseteq Nat
    BY <1>5, <1>8, TreeAssumption
  <2>2. CASE Len(F) = 1
    <3>1. \A n \in Visible : tree.parent[n] = tree.parent[f] /\ f < n => n = f
      BY <1>8, <1>12, <2>2
    <3>2. LastOne(f)
      BY <2>1, <3>1 DEF LastOne
    <3> QED
      BY <2>2, <3>2
  <2>3. CASE Len(F) # 1
    <3>1. 2 \in 1 .. Len(F)
      BY <1>8, <2>3
    <3>2. tree.parent[F[2]] = tree.parent[f] /\ f < F[2] /\ F[2] \in Visible
      <4>1. F[2] \in Visible
        <5>1. Rest(calls[L])
          BY <1>4, <1>7 DEF FilesInv, L
        <5> QED
          BY <3>1, <5>1 DEF Rest, F
      <4> QED
        BY <1>12, <3>1, <4>1
    <3>3. ASSUME LastOne(f) PROVE FALSE
      <4>1. F[2] <= f
        BY <3>2, <3>3 DEF LastOne
      <4>2. F[2] \in Nat
        BY <2>1, <3>2
      <4> QED
        BY <2>1, <3>2, <4>1, <4>2
    <3> QED
      BY <2>3, <3>3
  <2> QED
    BY <2>2, <2>3
<1> HIDE DEF last
<1>14. ASSUME NEW p \in Pending' PROVE p \in Pending /\ Before(f, p)
  <2>1. PICK i \in 1 .. L : OneOf(p, calls'[i])
    BY <1>9, InPending
  <2>2. CASE i = L
    <3>1. PICK x \in 1 .. Len(Tail(F)) : p = Tail(F)[x]
      BY <1>9, <2>1, <2>2 DEF OneOf
    <3>2. p = F[x + 1] /\ x + 1 \in 1 .. Len(F) /\ 1 < x + 1
      BY <1>8, <3>1
    <3>3. OneOf(p, calls[L])
      BY <3>2 DEF OneOf, F
    <3>4. Under(f, f)
      BY <1>5, <1>8, UnderUnfolds
    <3>5. Before(f, p)
      BY <1>8, <1>12, <3>2, <3>4 DEF Before
    <3> QED
      BY <1>7, <3>3, <3>5, InPending DEF L
  <2>3. CASE i # L
    <3>1. i \in 1 .. L /\ i < L /\ calls'[i] = calls[i]
      BY <1>6, <1>9, <2>1, <2>3
    <3>2. PICK x \in 1 .. Len(calls[i].files) : p = calls[i].files[x]
      BY <2>1, <3>1 DEF OneOf
    <3>3. Before(f, p)
      <4>1. L \in 1 .. L /\ 1 \in 1 .. Len(F)
        BY <1>7, <1>8
      <4>2. Before(calls[L].files[1], calls[i].files[x])
        BY <1>4, <3>1, <3>2, <4>1 DEF CallsInv, F, L
      <4> QED
        BY <1>8, <3>2, <4>2 DEF F
    <3> QED
      BY <2>1, <3>1, <3>3, InPending DEF L
  <2> QED
    BY <2>2, <2>3
<1>15. f \in Pending /\ Pending \subseteq Pending' \cup {f}
  <2>1. f \in Pending
    <3>1. OneOf(f, calls[L])
      BY <1>8 DEF OneOf, F
    <3> QED
      BY <1>7, <3>1, InPending DEF L
  <2>2. ASSUME NEW p \in Pending, p # f PROVE p \in Pending'
    <3>1. PICK i \in 1 .. L : OneOf(p, calls[i])
      BY InPending DEF L
    <3>2. OneOf(p, calls'[i])
      <4>1. CASE i = L
        <5>1. PICK x \in 1 .. Len(F) : p = F[x]
          BY <3>1, <4>1 DEF OneOf, F
        <5>2. x # 1
          BY <1>8, <2>2, <5>1
        <5>3. x - 1 \in 1 .. Len(Tail(F)) /\ Tail(F)[x - 1] = p
          BY <1>8, <5>1, <5>2
        <5> QED
          BY <1>9, <4>1, <5>3 DEF OneOf
      <4>2. CASE i # L
        BY <1>9, <3>1, <4>2
      <4> QED
        BY <4>1, <4>2
    <3> QED
      BY <1>9, <3>1, <3>2, InPending
  <2> QED
    BY <2>1, <2>2
<1>16. /\ reading.dir = -1 /\ reading.dir # 0 /\ reading.dir \notin Nodes
       /\ Waiting = {n \in Visible : \E p \in Pending : Under(n, p)}
  <2>1. reading.dir = -1
    BY <1>3 DEF None
  <2>2. ASSUME NEW z, z = -1 PROVE z # 0 /\ z \notin Nodes
    BY <1>5, <2>2
  <2>3. reading.dir # 0 /\ reading.dir \notin Nodes
    BY <2>1, <2>2
  <2> QED
    BY <2>1, <2>3 DEF Waiting
<1>17. Waiting' = Waiting \ {f} /\ f \in Waiting
  <2>1. Under(f, f)
    BY <1>5, <1>8, UnderUnfolds
  <2>2. f \in Waiting
    BY <1>12, <1>15, <1>16, <2>1
  <2>3. \A n \in Visible : n # f /\ Under(n, f) => f \in tree.dirs
    BY <1>5, <1>8, OuterIsDirectory
  <2>4. \A p \in Pending' : ~ Under(f, p)
    BY <1>5, <1>8, <1>14, BeforeApart
  <2>5. Waiting' = {n \in Visible : \/ \E p \in Pending' : Under(n, p)
                                    \/ f \in tree.dirs /\ n # f /\ Under(n, f)}
    <3>1. Visible' = Visible /\ \A n, a : Under(n, a)' = Under(n, a)
      BY <1>1, TreeFrame
    <3>2. CASE f \in tree.dirs
      <4>1. reading'.dir = f
        BY <1>2, <3>2
      <4>2. f # 0
        BY <1>5, <1>8
      <4> QED
        BY <1>8, <3>1, <3>2, <4>1, <4>2 DEF Waiting
    <3>3. CASE f \notin tree.dirs
      <4>1. reading'.dir = -1
        BY <1>2, <3>3 DEF None
      <4>2. ASSUME NEW z, z = -1 PROVE z # 0 /\ z \notin Nodes
        BY <1>5, <4>2
      <4>3. reading'.dir # 0 /\ reading'.dir \notin Nodes
        BY <4>1, <4>2
      <4> QED
        BY <3>1, <3>3, <4>3 DEF Waiting
    <3> QED
      BY <3>2, <3>3
  <2>6. ASSUME NEW n \in Visible PROVE n \in Waiting' <=> n \in Waiting /\ n # f
    BY <1>14, <1>15, <1>16, <2>3, <2>4, <2>5
  <2>7. Waiting \subseteq Visible /\ Waiting' \subseteq Visible
    BY <1>16, <2>5
  <2> QED
    BY <2>2, <2>6, <2>7
<1>18. \A n \in Waiting : n # f => Precedes(f, n)
  <2>1. ASSUME NEW n \in Waiting, n # f PROVE Precedes(f, n)
    <3>1. PICK p \in Pending : Under(n, p) /\ n \in Nodes /\ p \in Nodes
      BY <1>5, <1>16
    <3>2. CASE p = f
      BY <1>5, <1>8, <2>1, <3>1, <3>2, OuterPrecedes
    <3>3. CASE p # f
      BY <1>5, <1>8, <1>14, <1>15, <3>1, <3>3, BeforeApart
    <3> QED
      BY <3>2, <3>3
  <2> QED
    BY <2>1
<1>19. Drawn = {m \in Visible : Precedes(m, f)}
  <2>1. Drawn \cup Waiting = Visible /\ \A m \in Drawn, n \in Waiting : Precedes(m, n)
    BY <1>3, <1>4 DEF WaitingInv
  <2>2. ASSUME NEW m \in Visible, Precedes(m, f) PROVE m \in Drawn
    BY <1>5, <1>8, <1>18, <2>1, <2>2, PrecedesOneWay
  <2> QED
    BY <1>17, <2>1, <2>2
<1>20. Drawn' = Drawn \cup {f}
  <2>2. \A k \in 1 .. Len(drawn) + 1 : k \in 1 .. Len(drawn) \/ k = Len(drawn) + 1
    BY <1>6
  <2>3. /\ \A k \in 1 .. Len(drawn) : k \in 1 .. Len(drawn) + 1
        /\ Len(drawn) + 1 \in 1 .. Len(drawn) + 1
    BY <1>6
  <2> DEFINE K == Len(drawn)
  <2>4. Drawn = {drawn[k].node : k \in 1 .. K}
    BY DEF Drawn
  <2>5. Drawn' = {drawn'[k].node : k \in 1 .. K + 1}
    BY <1>10 DEF Drawn
  <2>6. drawn'[K + 1].node = f /\ \A k \in 1 .. K : drawn'[k].node = drawn[k].node
    BY <1>10, <1>a
  <2> HIDE DEF K
  <2> QED
    BY <2>2, <2>3, <2>4, <2>5, <2>6 DEF K
<1>21. LinesInv'
  <2> DEFINE K == Len(drawn)
             Right(k) == LET n == drawn[k].node
                         IN  /\ n \in Visible
                             /\ {drawn[j].node : j \in 1 .. k - 1} = {m \in Visible : Precedes(m, n)}
                             /\ drawn[k].last = LastOne(n)
                             /\ drawn[k].tabs = Bars(n)
             RightFor(k, n) == /\ n \in Visible
                               /\ {drawn'[j].node : j \in 1 .. k - 1}
                                    = {m \in Visible : Precedes(m, n)}
                               /\ drawn'[k].last = LastOne(n)
                               /\ drawn'[k].tabs = Bars(n)
             RightNow(k) == RightFor(k, drawn'[k].node)
  <2>1. \A k \in 1 .. K : Right(k)
    BY <1>4 DEF LinesInv
  <2>2. ASSUME NEW k \in 1 .. K PROVE RightNow(k)
    <3>1. drawn'[k] = drawn[k]
      BY <1>10
    <3>2. \A j \in 1 .. k - 1 : drawn'[j] = drawn[j]
      BY <1>6, <1>10
    <3>3. {drawn'[j].node : j \in 1 .. k - 1} = {drawn[j].node : j \in 1 .. k - 1}
      BY <3>2
    <3> QED
      BY <2>1, <3>1, <3>3
  <2>3. RightNow(K + 1)
    <3>1. drawn'[K + 1] = line
      BY <1>10
    <3>3. last = LastOne(f)
      BY <1>13 DEF last, LastOne
    <3>4. {drawn'[j].node : j \in 1 .. K} = Drawn
      BY <1>10 DEF Drawn
    <3>5. K + 1 - 1 = K
      BY <1>6
    <3>6. drawn'[K + 1].node = f /\ drawn'[K + 1].tabs = Bars(f)
      BY <1>12, <1>a, <3>1
    <3>7. drawn'[K + 1].last = LastOne(f)
      BY <1>a, <3>1, <3>3, Zenon
    <3>8. {drawn'[j].node : j \in 1 .. K + 1 - 1} = {m \in Visible : Precedes(m, f)}
      BY <1>19, <3>4, <3>5
    <3>9. RightFor(K + 1, f)
      BY <1>12, <3>6, <3>7, <3>8
    <3> HIDE DEF RightFor
    <3> QED
      BY <3>6, <3>9
  <2>4. \A k \in 1 .. K + 1 : k \in 1 .. K \/ k = K + 1
    BY <1>6
  <2> HIDE DEF K, Right, RightFor
  <2>5. \A k \in 1 .. Len(drawn') : RightNow(k)
    BY <1>10, <2>2, <2>3, <2>4 DEF K
  <2> QED
    BY <1>1, <2>5, TreeFrame DEF LinesInv, RightFor
<1>22. WaitingInv'
  <2>1. Drawn \cup Waiting = Visible /\ \A m \in Drawn, n \in Waiting : Precedes(m, n)
    BY <1>3, <1>4 DEF WaitingInv
  <2>2. Drawn' \cup Waiting' = Visible
    BY <1>17, <1>20, <2>1
  <2>3. \A m \in Drawn', n \in Waiting' : Precedes(m, n)
    BY <1>17, <1>18, <1>20, <2>1
  <2>4. Visible' = Visible /\ \A m, n : Precedes(m, n)' = Precedes(m, n)
    BY <1>1, TreeFrame
  <2> QED
    BY <2>2, <2>3, <2>4 DEF WaitingInv
<1>23. FilesInv'
  <2>1. \A i \in 1 .. L : Rest(calls[i])
    BY <1>4 DEF FilesInv, L
  <2>2. Rest(calls'[L])
    <3>1. /\ \A x \in 1 .. Len(F) :
               /\ F[x] \in Visible
               /\ calls[L].tabs = Bars(F[x])
               /\ \A y \in 1 .. Len(F) : tree.parent[F[y]] = tree.parent[F[x]] /\ (x < y => F[x] < F[y])
               /\ \A n \in Visible : tree.parent[n] = tree.parent[F[x]] /\ F[x] < n =>
                    \E y \in 1 .. Len(F) : F[y] = n
      BY <1>7, <2>1 DEF Rest, F
    <3> DEFINE T == Tail(F)
    <3>2. /\ Len(T) = Len(F) - 1
          /\ \A x \in 1 .. Len(T) : x + 1 \in 1 .. Len(F) /\ T[x] = F[x + 1] /\ F[1] < F[x + 1]
      BY <1>8, <1>12
    <3>3. \A x, y \in 1 .. Len(T) : x < y => x + 1 < y + 1
      BY <1>8, <3>2
    <3>4. \A n \in Visible : tree.parent[n] = tree.parent[f] /\ f < n => \E y \in 1 .. Len(T) : T[y] = n
      <4>1. ASSUME NEW n \in Visible, tree.parent[n] = tree.parent[f], f < n
            PROVE  \E y \in 1 .. Len(T) : T[y] = n
        <5>1. PICK y \in 1 .. Len(F) : F[y] = n
          BY <1>12, <4>1
        <5>2. y # 1
          <6>1. f \in Nat
            BY <1>5, <1>12, TreeAssumption
          <6> QED
            BY <1>8, <4>1, <5>1, <6>1
        <5>3. y - 1 \in 1 .. Len(T) /\ T[y - 1] = F[y]
          BY <1>8, <5>1, <5>2
        <5> QED
          BY <5>1, <5>3
      <4> QED
        BY <4>1
    <3>5. ASSUME NEW x \in 1 .. Len(T), NEW n \in Visible,
                 tree.parent[n] = tree.parent[T[x]], T[x] < n
          PROVE  tree.parent[n] = tree.parent[f] /\ f < n
      <4>1. T[x] = F[x + 1] /\ f < T[x] /\ tree.parent[T[x]] = tree.parent[f] /\ T[x] \in Visible
        BY <1>8, <1>12, <3>1, <3>2
      <4>2. f \in Nat /\ T[x] \in Nat /\ n \in Nat
        BY <1>5, <1>12, <4>1, TreeAssumption
      <4> QED
        BY <3>5, <4>1, <4>2
    <3> HIDE DEF T
    <3>6. ASSUME NEW x \in 1 .. Len(T)
          PROVE  /\ T[x] \in Visible
                 /\ calls[L].tabs = Bars(T[x])
                 /\ \A y \in 1 .. Len(T) : tree.parent[T[y]] = tree.parent[T[x]] /\ (x < y => T[x] < T[y])
                 /\ \A n \in Visible : tree.parent[n] = tree.parent[T[x]] /\ T[x] < n =>
                      \E y \in 1 .. Len(T) : T[y] = n
      <4>1. T[x] \in Visible /\ calls[L].tabs = Bars(T[x])
        BY <3>1, <3>2
      <4>2. ASSUME NEW y \in 1 .. Len(T)
            PROVE  tree.parent[T[y]] = tree.parent[T[x]] /\ (x < y => T[x] < T[y])
        <5>1. /\ x + 1 \in 1 .. Len(F) /\ y + 1 \in 1 .. Len(F)
              /\ T[x] = F[x + 1] /\ T[y] = F[y + 1]
          BY <3>2
        <5> QED
          BY <3>1, <3>3, <5>1
      <4>3. \A n \in Visible : tree.parent[n] = tree.parent[T[x]] /\ T[x] < n =>
              \E y \in 1 .. Len(T) : T[y] = n
        BY <3>4, <3>5
      <4> QED
        BY <4>1, <4>2, <4>3
    <3>7. calls'[L].files = T /\ calls'[L].tabs = calls[L].tabs
      BY <1>9 DEF T
    <3> QED
      BY <3>6, <3>7 DEF Rest
  <2>3. \A i \in 1 .. L : Rest(calls'[i])
    BY <1>9, <2>1, <2>2
  <2> QED
    BY <1>1, <1>9, <2>3, FilesFrame
<1>24. CallsInv'
  <2>1. ASSUME NEW i \in 1 .. L, NEW j \in 1 .. L, i < j,
               NEW x \in 1 .. Len(calls'[i].files), NEW y \in 1 .. Len(calls'[j].files)
        PROVE  Before(calls'[j].files[y], calls'[i].files[x])
    <3>1. i # L /\ calls'[i] = calls[i]
      BY <1>6, <1>9, <2>1
    <3>2. CASE j = L
      <4>1. y + 1 \in 1 .. Len(calls[L].files) /\ calls'[j].files[y] = calls[L].files[y + 1]
        <5>1. y \in 1 .. Len(Tail(F)) /\ calls'[j].files[y] = Tail(F)[y]
          BY <1>9, <2>1, <3>2
        <5>2. y + 1 \in 1 .. Len(F) /\ Tail(F)[y] = F[y + 1]
          BY <1>8, <5>1
        <5> QED
          BY <5>1, <5>2 DEF F
      <4> QED
        BY <1>4, <2>1, <3>1, <3>2, <4>1 DEF CallsInv, L
    <3>3. CASE j # L
      <4>1. calls'[j] = calls[j]
        BY <1>9, <3>3
      <4> QED
        BY <1>4, <2>1, <3>1, <4>1 DEF CallsInv, L
    <3> QED
      BY <3>2, <3>3
  <2>2. \A n, p : Before(n, p)' = Before(n, p)
    BY <1>1, TreeFrame
  <2> QED
    BY <1>9, <2>1, <2>2 DEF CallsInv
<1>25. ReadingInv'
  <2>1. exit' = ""
    BY <1>1, <1>3
  <2>2. CASE f \in tree.dirs
    <3>1. reading'.dir = f /\ reading'.tabs = Append(calls[L].tabs, IF last THEN "tab" ELSE "bar")
      BY <1>2, <2>2
    <3>2. f # 0 /\ f # -1 /\ f \in tree'.dirs
      BY <1>1, <1>5, <1>8, <2>2
    <3>3. calls[L].tabs = Bars(f) /\ (IF last THEN "tab" ELSE "bar") = Bar(f)
      BY <1>12, <1>13 DEF last, Bar
    <3>4. \A p \in Pending' : Before(f, p)
      BY <1>14
    <3>5. /\ \A n : Bar(n)' = Bar(n) /\ Bars(n)' = Bars(n)
          /\ \A n, p : Before(n, p)' = Before(n, p)
      BY <1>1, TreeFrame
    <3> QED
      BY <2>1, <3>1, <3>2, <3>3, <3>4, <3>5 DEF ReadingInv
  <2>3. CASE f \notin tree.dirs
    <3>1. reading' = None' /\ reading'.dir = -1
      BY <1>2, <2>3 DEF None
    <3>2. ASSUME NEW z, z = -1 PROVE z # 0 /\ z \notin Nodes
      BY <1>5, <3>2
    <3>3. reading'.dir # 0 /\ reading'.dir \notin Nodes
      BY <3>1, <3>2
    <3> QED
      BY <2>1, <3>1, <3>3 DEF ReadingInv
  <2> QED
    BY <2>2, <2>3
<1> QED
  BY <1>11, <1>21, <1>22, <1>23, <1>24, <1>25 DEF TreeInv
\* The invariant of DirTree, in every state of every drawing.
THEOREM TreeInvariance == TreeSpec => []TreeInv
<1>1. TreeInv /\ UNCHANGED treeVars => TreeInv'
  <2> SUFFICES ASSUME TreeInv, UNCHANGED treeVars PROVE TreeInv'
    OBVIOUS
  <2>1. /\ tree' = tree /\ printFiles' = printFiles /\ drawn' = drawn /\ calls' = calls
        /\ reading' = reading /\ exit' = exit
    BY DEF treeVars
  <2>2. TreeTypes /\ LinesInv /\ WaitingInv /\ FilesInv /\ CallsInv /\ ReadingInv
    BY DEF TreeInv
  <2>3. TreeTypes'
    BY <2>1, <2>2, Zenon DEF TreeTypes
  <2>4. LinesInv'
    BY <2>1, <2>2, TreeFrame DEF LinesInv
  <2>5. FilesInv'
    BY <2>1, <2>2, FilesFrame DEF FilesInv
  <2>6. CallsInv'
    BY <2>1, <2>2, TreeFrame DEF CallsInv
  <2>7. Pending' = Pending /\ Drawn' = Drawn
    BY <2>1 DEF Pending, Drawn
  <2>8. Waiting' = Waiting
    BY <2>1, <2>7, TreeFrame DEF Waiting
  <2>9. WaitingInv'
    BY <2>1, <2>2, <2>7, <2>8, TreeFrame DEF WaitingInv
  <2>10. ReadingInv'
    BY <2>1, <2>2, <2>7, TreeFrame DEF ReadingInv, None
  <2> QED
    BY <2>3, <2>4, <2>5, <2>6, <2>9, <2>10 DEF TreeInv
<1>2. TreeInv /\ [TreeNext]_treeVars => TreeInv'
  BY <1>1, OpenStep, FatalStep, DrawStep, ReturnStep DEF TreeNext
<1> QED
  BY <1>2, TreeInitial, PTL DEF TreeSpec

\* No node is drawn twice.
LEMMA LinesCount ==
  TreeTypes /\ LinesInv =>
    \A k \in 0 .. Len(drawn) : Cardinality({drawn[j].node : j \in 1 .. k}) = k
<1> SUFFICES ASSUME TreeTypes, LinesInv, NEW k \in 0 .. Len(drawn)
             PROVE  Cardinality({drawn[j].node : j \in 1 .. k}) = k
  OBVIOUS
<1>1. /\ tree \in Trees /\ Len(drawn) \in Nat /\ k \in Nat
      /\ \A j \in 1 .. Len(drawn) : drawn[j].node \in Nodes
  <2>1. tree \in Trees
    BY DEF TreeTypes
  <2>2. Len(drawn) \in Nat /\ \A j \in 1 .. Len(drawn) : drawn[j].node \in Nodes
    BY TreeBasics
  <2>3. k \in Nat
    <3> HIDE DEF TreeTypes, LinesInv
    <3> QED
      BY <2>2
  <2> QED
    BY <2>1, <2>2, <2>3
<1>2. ASSUME NEW i \in 1 .. k, NEW j \in 1 .. k, i < j PROVE drawn[i].node # drawn[j].node
  <2>1. i \in 1 .. j - 1 /\ i \in 1 .. Len(drawn) /\ j \in 1 .. Len(drawn)
    BY <1>1, <1>2
  <2>2. drawn[i].node \in {m \in Visible : Precedes(m, drawn[j].node)}
    BY <2>1 DEF LinesInv
  <2> QED
    BY <1>1, <2>1, <2>2, PrecedesOneWay
<1> DEFINE S == {drawn[j].node : j \in 1 .. k}
           g == [j \in 1 .. k |-> drawn[j].node]
<1>3. \A i, j \in 1 .. k : g[i] = g[j] => i = j
  <2>1. \A i, j \in 1 .. k : drawn[i].node = drawn[j].node => ~ i < j /\ ~ j < i
    BY <1>2
  <2>2. \A i, j \in 1 .. k : ~ i < j /\ ~ j < i => i = j
    BY <1>1
  <2> QED
    BY <2>1, <2>2
<1>4. g \in [1 .. k -> S] /\ \A x \in S : \E j \in 1 .. k : g[j] = x
  OBVIOUS
<1> HIDE DEF g, S
<1>5. g \in Bijection(1 .. k, S)
  BY <1>3, <1>4 DEF Bijection, Injection, Surjection, IsInjective
<1>6. Cardinality(S) = k
  BY <1>1, <1>5, FS_CountingElements DEF ExistsBijection
<1> QED
  BY <1>6 DEF S

\* The invariant says of each printed line what DrawnRight says (main.go:36-83).
LEMMA TreeInvDrawnRight == TreeInv => DrawnRight
<1> SUFFICES ASSUME TreeInv PROVE DrawnRight
  OBVIOUS
<1>1. TreeTypes /\ LinesInv /\ WaitingInv /\ ReadingInv
  BY DEF TreeInv
<1>2. Len(drawn) \in Nat /\ DOMAIN drawn = 1 .. Len(drawn) /\ -1 \notin Nodes
  <2>1. drawn \in Seq([tabs : Seq(Tab), last : BOOLEAN, node : Nodes])
    BY <1>1 DEF TreeTypes
  <2>2. ASSUME NEW S, NEW s \in Seq(S) PROVE Len(s) \in Nat /\ DOMAIN s = 1 .. Len(s)
    OBVIOUS
  <2> QED
    BY <1>1, <2>1, <2>2, TreeBasics
<1>3. ASSUME NEW k \in DOMAIN drawn
      PROVE  LET n == drawn[k].node
                 w == Way[n]
             IN  /\ n \in Visible
                 /\ Cardinality({m \in Visible : Precedes(m, n)}) = k - 1
                 /\ drawn[k].last = LastOne(n)
                 /\ drawn[k].tabs = [i \in 1 .. Len(w) - 1 |-> IF LastOne(w[i]) THEN "tab" ELSE "bar"]
  <2>1. k \in 1 .. Len(drawn) /\ k - 1 \in 0 .. Len(drawn)
    BY <1>2
  <2> DEFINE n == drawn[k].node
  <2>2. /\ n \in Visible
        /\ {drawn[j].node : j \in 1 .. k - 1} = {m \in Visible : Precedes(m, n)}
        /\ drawn[k].last = LastOne(n)
        /\ drawn[k].tabs = Bars(n)
    BY <1>1, <2>1 DEF LinesInv
  <2>3. Cardinality({drawn[j].node : j \in 1 .. k - 1}) = k - 1
    BY <1>1, <2>1, LinesCount
  <2>4. Cardinality({m \in Visible : Precedes(m, n)}) = k - 1
    BY <2>2, <2>3
  <2> QED
    BY <2>2, <2>4 DEF Bars, Bar
<1>4. ASSUME exit = "ok" PROVE Len(drawn) = Cardinality(Visible)
  <2>1. calls = <<>> /\ reading.dir = -1
    BY <1>1, <1>4 DEF ReadingInv
  <2>2. Len(calls) = 0
    BY <2>1
  <2>3. Pending = {}
    BY <2>2 DEF Pending
  <2>4. ASSUME NEW z, z = -1 PROVE z # 0 /\ z \notin Nodes
    BY <1>2, <2>4
  <2>5. reading.dir # 0 /\ reading.dir \notin Nodes
    BY <2>1, <2>4
  <2>6. Waiting = {}
    BY <2>3, <2>5 DEF Waiting
  <2>7. Drawn = Visible
    BY <1>1, <1>4, <2>6 DEF WaitingInv
  <2>8. Len(drawn) \in 0 .. Len(drawn)
    BY <1>2
  <2>9. Cardinality(Drawn) = Len(drawn)
    BY <1>1, <2>8, LinesCount DEF Drawn
  <2> QED
    BY <2>7, <2>9
<1> QED
  BY <1>3, <1>4 DEF DrawnRight

\* For every tree and wherever the drawing is, or was when a directory could not be
\* read: its lines are the right nodes in the right order behind the right bars, and
\* a drawing that ends well shows every visible node.
THEOREM TreeDrawnRight == TreeSpec => []DrawnRight
<1> QED
  BY TreeInvariance, TreeInvDrawnRight, PTL
-----------------------------------------------------------------------------
(***************************************************************************)
(* Generator: the invariant.  At every step the file holds what stands for *)
(* the declarations that have been passed, and nothing else.               *)
(***************************************************************************)

Routes == [url : STRING, name : STRING]
Written ==
  [piece : {"handler"}, receiver : STRING, name : STRING, input : STRING, method : STRING,
   auth : BOOLEAN]
  \cup [piece : {"unmarshall"}, name : STRING]
  \cup [piece : {"serve"}, receiver : STRING, routes : Seq(Routes)]

GeneratorTypes ==
  /\ decls \in Seq(Declarations)
  /\ created \in BOOLEAN
  /\ phase \in {"decls", "types", "servers", "ok", "panic", "fatal"}
  /\ next \in 1 .. Len(decls) + 1
  /\ servers \in [DOMAIN servers -> Seq(Routes)] /\ DOMAIN servers \subseteq STRING
  /\ output \in Seq(Written)

\* The declarations passed for their methods are those before this one, and those
\* passed for their structs.
Passed == IF phase = "decls" THEN next ELSE Len(decls) + 1
Walked == IF phase = "decls" THEN 1 ELSE next

\* What the declarations before the n-th call for.
AnnotatedBefore(n) == {i \in DOMAIN decls : Annotated(decls[i]) /\ i < n}
StructsBefore(n) == {i \in DOMAIN decls : IsParamStruct(decls[i]) /\ i < n}
MethodsBefore(r, n) ==
  {i \in DOMAIN decls : Annotated(decls[i]) /\ decls[i].receiver = r /\ i < n}
Receivers(n) == {decls[i].receiver : i \in AnnotatedBefore(n)}
UnmarshallOf(d) == [piece |-> "unmarshall", name |-> d.name]
HandlersBefore(n) ==
  LET annotated == Entries(decls, AnnotatedBefore(n))
  IN  [k \in DOMAIN annotated |-> HandlerOf(annotated[k])]
UnmarshallsBefore(n) ==
  LET structs == Entries(decls, StructsBefore(n))
  IN  [k \in DOMAIN structs |-> UnmarshallOf(structs[k])]
RoutesBefore(r, n) ==
  LET methods == Entries(decls, MethodsBefore(r, n))
  IN  [k \in DOMAIN methods |-> RouteOf(methods[k])]

Places(piece) == {i \in DOMAIN output : output[i].piece = piece}
Served == {output[i].receiver : i \in Places("serve")}

WalkInv ==
  /\ phase \in {"servers", "ok"} => next = Len(decls) + 1
  /\ phase = "ok" => DOMAIN servers = {}
  /\ phase \in {"decls", "types", "panic", "fatal"} => Places("serve") = {}

GoesOn == phase \in {"decls", "types", "servers", "ok"}

\* Every method passed has its handler, and every struct passed its Unmarshall,
\* unless there is no file.
PiecesInv ==
  GoesOn =>
    /\ \A i \in AnnotatedBefore(Passed) : decls[i].pointer
    /\ created => /\ Pieces("handler") = HandlersBefore(Passed)
                  /\ Pieces("unmarshall") = UnmarshallsBefore(Walked)

\* Every receiver passed has a ServeHTTP or, until that is written, its routes in
\* servers.
ServersInv ==
  GoesOn =>
    /\ \A r \in DOMAIN servers : servers[r] = RoutesBefore(r, Passed)
    /\ created \/ phase \in {"decls", "types"} => DOMAIN servers \cup Served = Receivers(Passed)

\* A ServeHTTP has all the routes of its receiver, which has no other.
ServedInv ==
  /\ DOMAIN servers \cap Served = {}
  /\ \A i \in Places("serve") :
       /\ output[i].routes = RoutesBefore(output[i].receiver, Passed)
       /\ \A j \in Places("serve") \ {i} : output[j].receiver # output[i].receiver

GeneratorInv == GeneratorTypes /\ WalkInv /\ PiecesInv /\ ServersInv /\ ServedInv

\* What is written for a declaration is a piece of the file.
LEMMA DeclarationParts ==
  ASSUME NEW d \in Declarations
  PROVE  /\ Annotated(d) => /\ d.receiver \in STRING /\ HandlerOf(d) \in Written
                            /\ HandlerOf(d).piece = "handler" /\ RouteOf(d) \in Routes
         /\ IsParamStruct(d) => /\ UnmarshallOf(d) \in Written
                                /\ UnmarshallOf(d).piece = "unmarshall"
<1>1. ASSUME Annotated(d)
      PROVE  /\ d.receiver \in STRING /\ HandlerOf(d) \in Written
             /\ HandlerOf(d).piece = "handler" /\ RouteOf(d) \in Routes
  <2>1. d \in [kind : {"func"}, annotated : BOOLEAN, pointer : BOOLEAN, receiver : STRING,
               name : STRING, input : STRING, url : STRING, method : STRING, auth : BOOLEAN]
    BY <1>1 DEF Annotated, Declarations
  <2>2. RouteOf(d) \in Routes
    BY <2>1 DEF RouteOf, Routes
  <2>3. HandlerOf(d) \in [piece : {"handler"}, receiver : STRING, name : STRING, input : STRING,
                          method : STRING, auth : BOOLEAN]
    BY <2>1 DEF HandlerOf
  <2> QED
    BY <2>1, <2>2, <2>3 DEF Written
<1>2. ASSUME IsParamStruct(d)
      PROVE  UnmarshallOf(d) \in Written /\ UnmarshallOf(d).piece = "unmarshall"
  <2>1. d \in [kind : {"struct"}, name : STRING, tagged : BOOLEAN, irregular : BOOLEAN]
    BY <1>2 DEF IsParamStruct, Declarations
  <2>2. UnmarshallOf(d) \in [piece : {"unmarshall"}, name : STRING]
    BY <2>1 DEF UnmarshallOf
  <2> QED
    BY <2>2 DEF Written
<1> QED
  BY <1>1, <1>2

\* Before the first declaration there is nothing to write.
LEMMA BeforeAll ==
  ASSUME decls \in Seq(Declarations)
  PROVE  /\ AnnotatedBefore(1) = {} /\ Receivers(1) = {}
         /\ HandlersBefore(1) = <<>> /\ UnmarshallsBefore(1) = <<>>
<1>1. /\ AnnotatedBefore(1) = {} /\ StructsBefore(1) = {}
  BY DEF AnnotatedBefore, StructsBefore
<1>2. Receivers(1) = {}
  BY <1>1 DEF Receivers
<1>3. \A e : e = <<>> => /\ [k \in DOMAIN e |-> HandlerOf(e[k])] = <<>>
                         /\ [k \in DOMAIN e |-> UnmarshallOf(e[k])] = <<>>
  OBVIOUS
<1>4. Entries(decls, AnnotatedBefore(1)) = <<>> /\ Entries(decls, StructsBefore(1)) = <<>>
  BY <1>1, EntriesNone, Zenon
<1>5. HandlersBefore(1) = <<>>
  BY <1>3, <1>4, Zenon DEF HandlersBefore
<1>6. UnmarshallsBefore(1) = <<>>
  BY <1>3, <1>4, Zenon DEF UnmarshallsBefore
<1> QED
  BY <1>1, <1>2, <1>5, <1>6

\* What one more declaration calls for.
LEMMA OneMore ==
  ASSUME decls \in Seq(Declarations), NEW n \in 1 .. Len(decls)
  PROVE  LET d == decls[n]
         IN  /\ d \in Declarations
             /\ AnnotatedBefore(n + 1) =
                  IF Annotated(d) THEN AnnotatedBefore(n) \cup {n} ELSE AnnotatedBefore(n)
             /\ Receivers(n + 1) =
                  IF Annotated(d) THEN Receivers(n) \cup {d.receiver} ELSE Receivers(n)
             /\ HandlersBefore(n + 1) =
                  IF Annotated(d) THEN Append(HandlersBefore(n), HandlerOf(d))
                                  ELSE HandlersBefore(n)
             /\ UnmarshallsBefore(n + 1) =
                  IF IsParamStruct(d) THEN Append(UnmarshallsBefore(n), UnmarshallOf(d))
                                      ELSE UnmarshallsBefore(n)
             /\ \A r : RoutesBefore(r, n + 1) =
                  IF Annotated(d) /\ d.receiver = r
                    THEN Append(RoutesBefore(r, n), RouteOf(d)) ELSE RoutesBefore(r, n)
<1> DEFINE d == decls[n]
<1>1. /\ d \in Declarations /\ n \in Nat /\ DOMAIN decls = 1 .. Len(decls)
      /\ \A i \in DOMAIN decls : i < n + 1 <=> i < n \/ i = n
  OBVIOUS
<1>2. ASSUME NEW S \in SUBSET (1 .. Len(decls)), \A i \in S : i < n
      PROVE  /\ Entries(decls, S \cup {n}) = Append(Entries(decls, S), d)
             /\ Entries(decls, S) \in Seq(Declarations)
  <2>1. Entries(decls, S) \in Seq(Declarations)
    BY EntriesRight
  <2> QED
    BY <1>2, <2>1, EntriesLast
<1>3. \A e \in Seq(Declarations) : \A f :
        f = Append(e, d) =>
            /\ [k \in DOMAIN f |-> HandlerOf(f[k])]
                 = Append([k \in DOMAIN e |-> HandlerOf(e[k])], HandlerOf(d))
            /\ [k \in DOMAIN f |-> UnmarshallOf(f[k])]
                 = Append([k \in DOMAIN e |-> UnmarshallOf(e[k])], UnmarshallOf(d))
            /\ [k \in DOMAIN f |-> RouteOf(f[k])]
                 = Append([k \in DOMAIN e |-> RouteOf(e[k])], RouteOf(d))
  BY <1>1
<1>4. /\ AnnotatedBefore(n) \in SUBSET (1 .. Len(decls)) /\ \A i \in AnnotatedBefore(n) : i < n
      /\ AnnotatedBefore(n + 1) =
           IF Annotated(d) THEN AnnotatedBefore(n) \cup {n} ELSE AnnotatedBefore(n)
  BY <1>1 DEF AnnotatedBefore
<1>5. /\ StructsBefore(n) \in SUBSET (1 .. Len(decls)) /\ \A i \in StructsBefore(n) : i < n
      /\ StructsBefore(n + 1) =
           IF IsParamStruct(d) THEN StructsBefore(n) \cup {n} ELSE StructsBefore(n)
  BY <1>1 DEF StructsBefore
<1>6. ASSUME NEW r
      PROVE  /\ MethodsBefore(r, n) \in SUBSET (1 .. Len(decls))
             /\ \A i \in MethodsBefore(r, n) : i < n
             /\ MethodsBefore(r, n + 1) =
                  IF Annotated(d) /\ d.receiver = r THEN MethodsBefore(r, n) \cup {n}
                                                    ELSE MethodsBefore(r, n)
  BY <1>1 DEF MethodsBefore
<1> HIDE DEF d
<1>7. Receivers(n + 1) = IF Annotated(d) THEN Receivers(n) \cup {d.receiver} ELSE Receivers(n)
  BY <1>4 DEF Receivers, d
<1>8. HandlersBefore(n + 1) =
        IF Annotated(d) THEN Append(HandlersBefore(n), HandlerOf(d)) ELSE HandlersBefore(n)
  <2>1. ASSUME Annotated(d)
        PROVE  HandlersBefore(n + 1) = Append(HandlersBefore(n), HandlerOf(d))
    <3>1. /\ Entries(decls, AnnotatedBefore(n)) \in Seq(Declarations)
          /\ Entries(decls, AnnotatedBefore(n + 1)) =
               Append(Entries(decls, AnnotatedBefore(n)), d)
      BY <1>2, <1>4, <2>1, Zenon
    <3> QED
      BY <1>3, <3>1, Zenon DEF HandlersBefore
  <2>2. ~ Annotated(d) => HandlersBefore(n + 1) = HandlersBefore(n)
    BY <1>4, Zenon DEF HandlersBefore
  <2> QED
    BY <2>1, <2>2
<1>9. UnmarshallsBefore(n + 1) =
        IF IsParamStruct(d) THEN Append(UnmarshallsBefore(n), UnmarshallOf(d))
                            ELSE UnmarshallsBefore(n)
  <2>1. ASSUME IsParamStruct(d)
        PROVE  UnmarshallsBefore(n + 1) = Append(UnmarshallsBefore(n), UnmarshallOf(d))
    <3>1. /\ Entries(decls, StructsBefore(n)) \in Seq(Declarations)
          /\ Entries(decls, StructsBefore(n + 1)) = Append(Entries(decls, StructsBefore(n)), d)
      BY <1>2, <1>5, <2>1, Zenon
    <3> QED
      BY <1>3, <3>1, Zenon DEF UnmarshallsBefore
  <2>2. ~ IsParamStruct(d) => UnmarshallsBefore(n + 1) = UnmarshallsBefore(n)
    BY <1>5, Zenon DEF UnmarshallsBefore
  <2> QED
    BY <2>1, <2>2
<1>10. ASSUME NEW r
       PROVE  RoutesBefore(r, n + 1) =
                IF Annotated(d) /\ d.receiver = r
                  THEN Append(RoutesBefore(r, n), RouteOf(d)) ELSE RoutesBefore(r, n)
  <2>1. ASSUME Annotated(d) /\ d.receiver = r
        PROVE  RoutesBefore(r, n + 1) = Append(RoutesBefore(r, n), RouteOf(d))
    <3>1. /\ Entries(decls, MethodsBefore(r, n)) \in Seq(Declarations)
          /\ Entries(decls, MethodsBefore(r, n + 1)) =
               Append(Entries(decls, MethodsBefore(r, n)), d)
      BY <1>2, <1>6, <2>1, Zenon
    <3> QED
      BY <1>3, <3>1, Zenon DEF RoutesBefore
  <2>2. ~ (Annotated(d) /\ d.receiver = r) => RoutesBefore(r, n + 1) = RoutesBefore(r, n)
    BY <1>6, Zenon DEF RoutesBefore
  <2> QED
    BY <2>1, <2>2
<1> QED
  BY <1>1, <1>4, <1>7, <1>8, <1>9, <1>10 DEF d

\* What depends on the source alone stays as it is.
LEMMA SourceFrame ==
  decls' = decls =>
    \A n : /\ AnnotatedBefore(n)' = AnnotatedBefore(n) /\ Receivers(n)' = Receivers(n)
           /\ HandlersBefore(n)' = HandlersBefore(n)
           /\ UnmarshallsBefore(n)' = UnmarshallsBefore(n)
           /\ \A r : RoutesBefore(r, n)' = RoutesBefore(r, n)
<1> SUFFICES ASSUME decls' = decls, NEW n
             PROVE  /\ AnnotatedBefore(n)' = AnnotatedBefore(n) /\ Receivers(n)' = Receivers(n)
                    /\ HandlersBefore(n)' = HandlersBefore(n)
                    /\ UnmarshallsBefore(n)' = UnmarshallsBefore(n)
                    /\ \A r : RoutesBefore(r, n)' = RoutesBefore(r, n)
  OBVIOUS
<1>1. AnnotatedBefore(n)' = AnnotatedBefore(n)
  BY DEF AnnotatedBefore
<1>2. StructsBefore(n)' = StructsBefore(n)
  BY DEF StructsBefore
<1>3. \A r : MethodsBefore(r, n)' = MethodsBefore(r, n)
  BY DEF MethodsBefore
<1>4. Receivers(n)' = Receivers(n)
  BY <1>1 DEF Receivers
<1>5. HandlersBefore(n)' = HandlersBefore(n)
  BY <1>1, Zenon DEF HandlersBefore
<1>6. UnmarshallsBefore(n)' = UnmarshallsBefore(n)
  BY <1>2, Zenon DEF UnmarshallsBefore
<1>7. \A r : RoutesBefore(r, n)' = RoutesBefore(r, n)
  <2>1. ASSUME NEW r PROVE RoutesBefore(r, n)' = RoutesBefore(r, n)
    <3>1. Entries(decls, MethodsBefore(r, n))' = Entries(decls, MethodsBefore(r, n))
      BY <1>3, Zenon
    <3> QED
      BY <3>1, Zenon DEF RoutesBefore
  <2> QED
    BY <2>1
<1> QED
  BY <1>1, <1>4, <1>5, <1>6, <1>7

\* What depends on the file alone stays as it is when nothing is written.
LEMMA OutputFrame ==
  output' = output =>
    /\ \A t : Places(t)' = Places(t) /\ Pieces(t)' = Pieces(t)
    /\ Served' = Served
<1> SUFFICES ASSUME output' = output
             PROVE  /\ \A t : Places(t)' = Places(t) /\ Pieces(t)' = Pieces(t)
                    /\ Served' = Served
  OBVIOUS
<1>1. \A t : Places(t)' = Places(t)
  BY DEF Places
<1>2. \A t : Pieces(t)' = Pieces(t)
  BY Zenon DEF Pieces
<1>3. Served' = Served
  BY <1>1 DEF Served
<1> QED
  BY <1>1, <1>2, <1>3

\* What is written is in the file, behind what was there.
LEMMA OneWritten ==
  ASSUME output \in Seq(Written), created \in BOOLEAN, NEW p \in Written,
         output' = Write(<<p>>)
  PROVE  /\ output' \in Seq(Written)
         /\ ~ created => output' = output
         /\ created =>
              /\ output' = Append(output, p)
              /\ \A t : IF p.piece = t
                          THEN /\ Places(t)' = Places(t) \cup {Len(output) + 1}
                               /\ Pieces(t)' = Append(Pieces(t), p)
                          ELSE Places(t)' = Places(t) /\ Pieces(t)' = Pieces(t)
<1>1. output' = IF created THEN Append(output, p) ELSE output
  <2>1. output \o <<p>> = Append(output, p)
    OBVIOUS
  <2> QED
    BY <2>1, Zenon DEF Write
<1>2. output' \in Seq(Written) /\ (~ created => output' = output)
  BY <1>1
<1>3. ASSUME created, NEW t
      PROVE  /\ output' = Append(output, p)
             /\ IF p.piece = t
                  THEN /\ Places(t)' = Places(t) \cup {Len(output) + 1}
                       /\ Pieces(t)' = Append(Pieces(t), p)
                  ELSE Places(t)' = Places(t) /\ Pieces(t)' = Pieces(t)
  <2> DEFINE n == Len(output)
  <2>1. output' = Append(output, p)
    BY <1>1, <1>3
  <2>2. /\ n \in Nat /\ DOMAIN output = 1 .. n /\ DOMAIN output' = 1 .. n + 1
        /\ Len(output') = n + 1 /\ output'[n + 1] = p
        /\ \A i \in 1 .. n : output'[i] = output[i]
    BY <2>1
  <2>3. Places(t) \in SUBSET (1 .. n) /\ Places(t) \in SUBSET (1 .. Len(output'))
    BY <2>2 DEF Places
  <2>4. Entries(output', Places(t)) = Entries(output, Places(t))
    <3>1. Entries(Append(output, p), Places(t)) = Entries(output, Places(t))
      BY <2>3, EntriesAppended
    <3> QED
      BY <2>1, <3>1, Zenon
  <2>5. Pieces(t) = Entries(output, Places(t)) /\ Pieces(t)' = Entries(output', Places(t)')
    BY DEF Pieces, Places
  <2>6. CASE p.piece = t
    <3>1. Places(t)' = Places(t) \cup {n + 1}
      <4> HIDE DEF n
      <4> QED
        BY <2>2, <2>6 DEF Places
    <3>2. n + 1 \in 1 .. Len(output') /\ \A i \in Places(t) : i < n + 1
      BY <2>2, <2>3
    <3>3. Entries(output', Places(t) \cup {n + 1})
            = Append(Entries(output', Places(t)), output'[n + 1])
      <4> HIDE DEF n
      <4> QED
        BY <1>2, <2>3, <3>2, EntriesLast
    <3> QED
      BY <2>1, <2>2, <2>4, <2>5, <2>6, <3>1, <3>3
  <2>7. CASE p.piece # t
    <3>1. Places(t)' = Places(t)
      <4> HIDE DEF n
      <4> QED
        BY <2>2, <2>7 DEF Places
    <3> QED
      BY <2>1, <2>4, <2>5, <2>7, <3>1
  <2> QED
    BY <2>6, <2>7
<1> QED
  BY <1>2, <1>3
-----------------------------------------------------------------------------
(***************************************************************************)
(* Generator: the steps.                                                   *)
(***************************************************************************)

\* It starts with nothing passed and nothing written.
LEMMA GeneratorInitial == GeneratorInit => GeneratorInv
<1> SUFFICES ASSUME GeneratorInit PROVE GeneratorInv
  OBVIOUS
<1>1. decls \in Seq(Declarations)
  BY SourceFilesAssumption DEF GeneratorInit
<1>2. /\ created \in BOOLEAN /\ phase = "decls" /\ next = 1 /\ servers = <<>> /\ output = <<>>
  BY DEF GeneratorInit
<1>3. DOMAIN servers = {} /\ DOMAIN output = {}
  BY <1>2
<1>4. /\ \A t : Places(t) = {} /\ Pieces(t) = <<>>
      /\ Served = {}
  <2>1. \A t : Places(t) = {}
    BY <1>3 DEF Places
  <2>2. \A t : {i \in DOMAIN output : output[i].piece = t} = {}
    BY <1>3
  <2>3. \A t : Pieces(t) = <<>>
    BY <2>2, EntriesNone, Zenon DEF Pieces
  <2> QED
    BY <2>1, <2>3 DEF Served
<1>5. Passed = 1 /\ Walked = 1
  BY <1>2 DEF Passed, Walked
<1>6. /\ AnnotatedBefore(1) = {} /\ Receivers(1) = {}
      /\ HandlersBefore(1) = <<>> /\ UnmarshallsBefore(1) = <<>>
  BY <1>1, BeforeAll
<1>7. GeneratorTypes
  <2>1. next \in 1 .. Len(decls) + 1
    BY <1>1, <1>2
  <2>2. servers \in [DOMAIN servers -> Seq(Routes)] /\ DOMAIN servers \subseteq STRING
    BY <1>2, <1>3
  <2>3. output \in Seq(Written)
    BY <1>2
  <2> QED
    BY <1>1, <1>2, <2>1, <2>2, <2>3, Zenon DEF GeneratorTypes
<1>8. WalkInv
  BY <1>2, <1>4 DEF WalkInv
<1>9. PiecesInv
  BY <1>4, <1>5, <1>6 DEF PiecesInv
<1>10. ServersInv
  BY <1>3, <1>4, <1>5, <1>6 DEF ServersInv
<1>11. ServedInv
  BY <1>4 DEF ServedInv
<1> QED
  BY <1>7, <1>8, <1>9, <1>10, <1>11 DEF GeneratorInv

\* After a panic or a failed write nothing more is promised than that there is no
\* ServeHTTP yet.
LEMMA Stopped ==
  GeneratorTypes' /\ phase' \in {"panic", "fatal"} /\ Places("serve")' = {} => GeneratorInv'
<1> SUFFICES ASSUME GeneratorTypes', phase' \in {"panic", "fatal"}, Places("serve")' = {}
             PROVE  GeneratorInv'
  OBVIOUS
<1>1. ~ GoesOn' /\ Served' = {}
  BY DEF GoesOn, Served
<1>2. WalkInv' /\ PiecesInv' /\ ServersInv'
  BY <1>1 DEF WalkInv, PiecesInv, ServersInv
<1>3. ServedInv'
  BY <1>1 DEF ServedInv
<1> QED
  BY <1>2, <1>3 DEF GeneratorInv

\* A receiver without methods so far has no routes so far.
LEMMA NoRoutes ==
  ASSUME NEW n, NEW r, r \notin Receivers(n)
  PROVE  RoutesBefore(r, n) = <<>>
<1>1. MethodsBefore(r, n) = {}
  BY DEF Receivers, AnnotatedBefore, MethodsBefore
<1>2. Entries(decls, MethodsBefore(r, n)) = <<>>
  BY <1>1, EntriesNone, Zenon
<1>3. \A e : e = <<>> => [k \in DOMAIN e |-> RouteOf(e[k])] = <<>>
  OBVIOUS
<1> QED
  BY <1>2, <1>3, Zenon DEF RoutesBefore

\* A method passed: its handler is written and its route kept, or it panics on a
\* receiver that is no pointer.
LEMMA HandlerStep == GeneratorInv /\ GenerateHandler => GeneratorInv'
<1> SUFFICES ASSUME GeneratorInv, GenerateHandler PROVE GeneratorInv'
  OBVIOUS
<1> DEFINE d == decls[next]
<1>1. /\ decls \in Seq(Declarations) /\ created \in BOOLEAN /\ output \in Seq(Written)
      /\ servers \in [DOMAIN servers -> Seq(Routes)] /\ DOMAIN servers \subseteq STRING
      /\ next \in 1 .. Len(decls) + 1
  BY DEF GeneratorInv, GeneratorTypes
<1>2. /\ phase = "decls" /\ next \in 1 .. Len(decls) /\ decls' = decls /\ created' = created
      /\ next \in Nat /\ Len(decls) \in Nat
  <2>1. phase = "decls" /\ next <= Len(decls) /\ decls' = decls /\ created' = created
    BY DEF GenerateHandler
  <2>2. Len(decls) \in Nat
    BY <1>1
  <2> QED
    BY <1>1, <2>1, <2>2
<1>3. /\ d \in Declarations
      /\ AnnotatedBefore(next + 1) =
           IF Annotated(d) THEN AnnotatedBefore(next) \cup {next} ELSE AnnotatedBefore(next)
      /\ Receivers(next + 1) =
           IF Annotated(d) THEN Receivers(next) \cup {d.receiver} ELSE Receivers(next)
      /\ HandlersBefore(next + 1) =
           IF Annotated(d) THEN Append(HandlersBefore(next), HandlerOf(d))
                           ELSE HandlersBefore(next)
      /\ \A r : RoutesBefore(r, next + 1) =
           IF Annotated(d) /\ d.receiver = r
             THEN Append(RoutesBefore(r, next), RouteOf(d)) ELSE RoutesBefore(r, next)
  BY <1>1, <1>2, OneMore
<1>4. \A n : /\ AnnotatedBefore(n)' = AnnotatedBefore(n) /\ Receivers(n)' = Receivers(n)
             /\ HandlersBefore(n)' = HandlersBefore(n)
             /\ UnmarshallsBefore(n)' = UnmarshallsBefore(n)
             /\ \A r : RoutesBefore(r, n)' = RoutesBefore(r, n)
  BY <1>2, SourceFrame
<1>5. Passed = next /\ Walked = 1 /\ GoesOn /\ Places("serve") = {} /\ Served = {}
  BY <1>2 DEF Passed, Walked, GoesOn, GeneratorInv, WalkInv, Served
<1>6. /\ \A i \in AnnotatedBefore(next) : decls[i].pointer
      /\ created => /\ Pieces("handler") = HandlersBefore(next)
                    /\ Pieces("unmarshall") = UnmarshallsBefore(1)
  BY <1>5 DEF GeneratorInv, PiecesInv
<1>7. /\ \A r \in DOMAIN servers : servers[r] = RoutesBefore(r, next)
      /\ DOMAIN servers = Receivers(next)
  BY <1>2, <1>5 DEF GeneratorInv, ServersInv
<1>8. CASE Annotated(d) /\ ~ d.pointer
  <2>1. phase' = "panic" /\ next' = next /\ servers' = servers /\ output' = output
    BY <1>8 DEF GenerateHandler
  <2>2. GeneratorTypes'
    BY <1>1, <1>2, <2>1, Zenon DEF GeneratorTypes
  <2>3. Places("serve")' = {}
    BY <1>5, <2>1, OutputFrame
  <2> QED
    BY <2>1, <2>2, <2>3, Stopped
<1>9. ASSUME phase' = phase, next' = next + 1, Places("serve")' = {},
             Annotated(d) => d.pointer,
             DOMAIN servers' = Receivers(next + 1),
             \A r \in DOMAIN servers' : servers'[r] = RoutesBefore(r, next + 1),
             created => /\ Pieces("handler")' = HandlersBefore(next + 1)
                        /\ Pieces("unmarshall")' = Pieces("unmarshall"),
             servers' \in [DOMAIN servers' -> Seq(Routes)], DOMAIN servers' \subseteq STRING,
             output' \in Seq(Written)
      PROVE  GeneratorInv'
  <2> PICK n \in Nat : n = next
    BY <1>2
  <2>1. Passed' = n + 1 /\ Walked' = 1 /\ phase' = "decls"
    BY <1>2, <1>9 DEF Passed, Walked
  <2>2. GeneratorTypes'
    <3>1. next' \in 1 .. Len(decls') + 1
      BY <1>2, <1>9
    <3> QED
      BY <1>1, <1>2, <1>9, <2>1, <3>1, Zenon DEF GeneratorTypes
  <2>3. WalkInv' /\ Served' = {}
    BY <1>9, <2>1 DEF WalkInv, Served
  <2>4. PiecesInv'
    <3>1. \A i \in AnnotatedBefore(n + 1)' : decls'[i].pointer
      BY <1>2, <1>3, <1>4, <1>6, <1>9
    <3>2. created' => /\ Pieces("handler")' = HandlersBefore(n + 1)'
                      /\ Pieces("unmarshall")' = UnmarshallsBefore(1)'
      BY <1>2, <1>4, <1>6, <1>9
    <3> QED
      BY <1>2, <1>4, <2>1, <3>1, <3>2 DEF PiecesInv
  <2>5. ServersInv'
    <3>1. \A r \in DOMAIN servers' : servers'[r] = RoutesBefore(r, n + 1)'
      BY <1>4, <1>9
    <3>2. DOMAIN servers' = Receivers(n + 1)'
      BY <1>4, <1>9
    <3> QED
      BY <2>1, <2>3, <3>1, <3>2 DEF ServersInv
  <2>6. ServedInv'
    BY <1>9, <2>3 DEF ServedInv
  <2> QED
    BY <2>2, <2>3, <2>4, <2>5, <2>6 DEF GeneratorInv
<1>10. CASE ~ Annotated(d)
  <2>1. phase' = phase /\ next' = next + 1 /\ servers' = servers /\ output' = output
    BY <1>10 DEF GenerateHandler
  <2>2. \A t : Places(t)' = Places(t) /\ Pieces(t)' = Pieces(t)
    BY <2>1, OutputFrame
  <2> HIDE DEF d
  <2>3. /\ DOMAIN servers' = Receivers(next + 1)
        /\ \A r \in DOMAIN servers' : servers'[r] = RoutesBefore(r, next + 1)
    BY <1>3, <1>7, <1>10, <2>1
  <2>4. created => /\ Pieces("handler")' = HandlersBefore(next + 1)
                   /\ Pieces("unmarshall")' = Pieces("unmarshall")
    BY <1>3, <1>6, <1>10, <2>2
  <2>5. /\ servers' \in [DOMAIN servers' -> Seq(Routes)] /\ DOMAIN servers' \subseteq STRING
        /\ output' \in Seq(Written)
    BY <1>1, <2>1
  <2>6. Places("serve")' = {}
    BY <1>5, <2>2
  <2> QED
    BY <1>9, <1>10, <2>1, <2>3, <2>4, <2>5, <2>6
<1>11. CASE Annotated(d) /\ d.pointer
  <2> DEFINE r == d.receiver
             p == HandlerOf(d)
  <2>1. /\ phase' = phase /\ next' = next + 1 /\ servers' = Routed(r, RouteOf(d))
        /\ output' = Write(<<p>>)
    BY <1>11 DEF GenerateHandler
  <2>2. p \in Written /\ p.piece = "handler" /\ r \in STRING /\ RouteOf(d) \in Routes
    BY <1>3, <1>11, DeclarationParts
  <2> HIDE DEF d, p, r
  <2>3. /\ output' \in Seq(Written)
        /\ ~ created => output' = output
        /\ created => /\ Pieces("handler")' = Append(Pieces("handler"), p)
                      /\ Pieces("unmarshall")' = Pieces("unmarshall")
                      /\ Places("serve")' = Places("serve")
    BY <1>1, <2>1, <2>2, OneWritten
  <2>4. created => /\ Pieces("handler")' = HandlersBefore(next + 1)
                   /\ Pieces("unmarshall")' = Pieces("unmarshall")
    BY <1>3, <1>6, <1>11, <2>3 DEF p
  <2>5. Places("serve")' = {}
    BY <1>5, <2>3, OutputFrame
  <2>6. /\ DOMAIN servers' = DOMAIN servers \cup {r}
        /\ servers'[r] = Append(IF r \in DOMAIN servers THEN servers[r] ELSE <<>>, RouteOf(d))
        /\ \A x \in DOMAIN servers : x # r => servers'[x] = servers[x]
        /\ servers' = [x \in DOMAIN servers' |-> servers'[x]]
    BY <2>1 DEF Routed
  <2>7. DOMAIN servers' = Receivers(next + 1)
    BY <1>3, <1>7, <1>11, <2>6 DEF r
  <2>8. (IF r \in DOMAIN servers THEN servers[r] ELSE <<>>) = RoutesBefore(r, next)
    BY <1>7, NoRoutes
  <2>9. servers'[r] = RoutesBefore(r, next + 1)
    BY <1>3, <1>11, <2>6, <2>8 DEF r
  <2>10. \A x \in DOMAIN servers' : servers'[x] = RoutesBefore(x, next + 1)
    <3>1. ASSUME NEW x \in DOMAIN servers, x # r PROVE servers'[x] = RoutesBefore(x, next + 1)
      BY <1>3, <1>7, <2>6, <3>1 DEF r
    <3> QED
      BY <2>6, <2>9, <3>1
  <2>11. servers' \in [DOMAIN servers' -> Seq(Routes)] /\ DOMAIN servers' \subseteq STRING
    <3>1. servers'[r] \in Seq(Routes)
      <4>1. (IF r \in DOMAIN servers THEN servers[r] ELSE <<>>) \in Seq(Routes)
        BY <1>1
      <4> QED
        BY <2>2, <2>6, <4>1
    <3>2. \A x \in DOMAIN servers' : servers'[x] \in Seq(Routes)
      BY <1>1, <2>6, <3>1
    <3> QED
      BY <1>1, <2>2, <2>6, <3>2
  <2> QED
    BY <1>9, <1>11, <2>1, <2>3, <2>4, <2>5, <2>7, <2>10, <2>11
<1> QED
  BY <1>8, <1>10, <1>11

\* The second walk begins: the methods are all passed, no struct is.
LEMMA InspectStep == GeneratorInv /\ StartInspect => GeneratorInv'
<1> SUFFICES ASSUME GeneratorInv, StartInspect PROVE GeneratorInv'
  OBVIOUS
<1>1. /\ decls \in Seq(Declarations) /\ created \in BOOLEAN /\ output \in Seq(Written)
      /\ servers \in [DOMAIN servers -> Seq(Routes)] /\ DOMAIN servers \subseteq STRING
      /\ next \in 1 .. Len(decls) + 1
  BY DEF GeneratorInv, GeneratorTypes
<1>2. /\ phase = "decls" /\ next > Len(decls) /\ phase' = "types" /\ next' = 1
      /\ decls' = decls /\ created' = created /\ servers' = servers /\ output' = output
  BY DEF StartInspect
<1> PICK n \in Nat : n = Len(decls) + 1
  BY <1>1
<1>3. next = n /\ next' \in 1 .. Len(decls') + 1
  BY <1>1, <1>2
<1>4. Passed = n /\ Walked = 1 /\ Passed' = n /\ Walked' = 1 /\ GoesOn /\ Places("serve") = {}
  BY <1>2, <1>3 DEF Passed, Walked, GoesOn, GeneratorInv, WalkInv
<1>5. /\ AnnotatedBefore(n)' = AnnotatedBefore(n) /\ Receivers(n)' = Receivers(n)
      /\ HandlersBefore(n)' = HandlersBefore(n)
      /\ UnmarshallsBefore(1)' = UnmarshallsBefore(1)
      /\ \A r : RoutesBefore(r, n)' = RoutesBefore(r, n)
  BY <1>2, SourceFrame
<1>6. /\ \A t : Places(t)' = Places(t) /\ Pieces(t)' = Pieces(t)
      /\ Served' = Served /\ Places("serve")' = {}
  BY <1>2, <1>4, OutputFrame
<1>7. GeneratorTypes'
  BY <1>1, <1>2, <1>3, Zenon DEF GeneratorTypes
<1>8. WalkInv'
  BY <1>2, <1>6 DEF WalkInv
<1>9. PiecesInv'
  <2>1. /\ \A i \in AnnotatedBefore(n) : decls[i].pointer
        /\ created => /\ Pieces("handler") = HandlersBefore(n)
                      /\ Pieces("unmarshall") = UnmarshallsBefore(1)
    BY <1>4 DEF GeneratorInv, PiecesInv
  <2>2. /\ \A i \in AnnotatedBefore(n)' : decls'[i].pointer
        /\ created' => /\ Pieces("handler")' = HandlersBefore(n)'
                       /\ Pieces("unmarshall")' = UnmarshallsBefore(1)'
    BY <1>2, <1>5, <1>6, <2>1
  <2> QED
    BY <1>4, <2>2 DEF PiecesInv
<1>10. ServersInv'
  <2>1. /\ \A r \in DOMAIN servers : servers[r] = RoutesBefore(r, n)
        /\ DOMAIN servers \cup Served = Receivers(n)
    BY <1>2, <1>4 DEF GeneratorInv, ServersInv
  <2>2. /\ \A r \in DOMAIN servers' : servers'[r] = RoutesBefore(r, n)'
        /\ DOMAIN servers' \cup Served' = Receivers(n)'
    BY <1>2, <1>5, <1>6, <2>1
  <2> QED
    BY <1>4, <2>2 DEF ServersInv
<1>11. ServedInv'
  BY <1>6 DEF ServedInv, Served
<1> QED
  BY <1>7, <1>8, <1>9, <1>10, <1>11 DEF GeneratorInv

\* A struct passed: its Unmarshall is written, or the program ends.
LEMMA UnmarshallStep == GeneratorInv /\ GenerateUnmarshaller => GeneratorInv'
<1> SUFFICES ASSUME GeneratorInv, GenerateUnmarshaller PROVE GeneratorInv'
  OBVIOUS
<1> DEFINE d == decls[next]
<1>1. /\ decls \in Seq(Declarations) /\ created \in BOOLEAN /\ output \in Seq(Written)
      /\ servers \in [DOMAIN servers -> Seq(Routes)] /\ DOMAIN servers \subseteq STRING
      /\ next \in 1 .. Len(decls) + 1
  BY DEF GeneratorInv, GeneratorTypes
<1>2. /\ phase = "types" /\ next <= Len(decls)
      /\ decls' = decls /\ created' = created /\ servers' = servers
  BY DEF GenerateUnmarshaller
<1> PICK n \in Nat : n = Len(decls) + 1
  BY <1>1
<1> PICK m \in Nat : m = next
  BY <1>1
<1>3. m \in 1 .. Len(decls) /\ m + 1 \in 1 .. Len(decls') + 1 /\ d = decls[m]
  BY <1>1, <1>2
<1>4. /\ d \in Declarations
      /\ UnmarshallsBefore(m + 1) =
           IF IsParamStruct(d) THEN Append(UnmarshallsBefore(m), UnmarshallOf(d))
                               ELSE UnmarshallsBefore(m)
  BY <1>1, <1>3, OneMore
<1>5. Passed = n /\ Walked = m /\ GoesOn /\ Places("serve") = {} /\ Served = {}
  BY <1>2 DEF Passed, Walked, GoesOn, GeneratorInv, WalkInv, Served
<1>6. /\ AnnotatedBefore(n)' = AnnotatedBefore(n) /\ Receivers(n)' = Receivers(n)
      /\ HandlersBefore(n)' = HandlersBefore(n)
      /\ UnmarshallsBefore(m + 1)' = UnmarshallsBefore(m + 1)
      /\ \A r : RoutesBefore(r, n)' = RoutesBefore(r, n)
  BY <1>2, SourceFrame
<1>7. /\ \A i \in AnnotatedBefore(n) : decls[i].pointer
      /\ created => /\ Pieces("handler") = HandlersBefore(n)
                    /\ Pieces("unmarshall") = UnmarshallsBefore(m)
  BY <1>5 DEF GeneratorInv, PiecesInv
<1>8. /\ \A r \in DOMAIN servers : servers[r] = RoutesBefore(r, n)
      /\ DOMAIN servers = Receivers(n)
  BY <1>2, <1>5 DEF GeneratorInv, ServersInv
<1>9. CASE IsParamStruct(d) /\ (d.irregular \/ ~ created)
  <2>1. phase' \in {"panic", "fatal"} /\ next' = next /\ output' = output
    <3>1. /\ phase' = IF d.irregular THEN "panic" ELSE "fatal"
          /\ next' = next /\ output' = output
      BY <1>9 DEF GenerateUnmarshaller
    <3> QED
      BY <3>1
  <2>2. GeneratorTypes'
    <3>1. phase' \in {"decls", "types", "servers", "ok", "panic", "fatal"}
      BY <2>1
    <3> QED
      BY <1>1, <1>2, <2>1, <3>1, Zenon DEF GeneratorTypes
  <2>3. Places("serve")' = {}
    BY <1>5, <2>1, OutputFrame
  <2> QED
    BY <2>1, <2>2, <2>3, Stopped
<1>10. ASSUME phase' = phase, next' = m + 1, Places("serve")' = {}, output' \in Seq(Written),
              created => /\ Pieces("handler")' = Pieces("handler")
                         /\ Pieces("unmarshall")' = UnmarshallsBefore(m + 1)
       PROVE  GeneratorInv'
  <2>1. Passed' = n /\ Walked' = m + 1 /\ phase' = "types" /\ Served' = {}
    BY <1>2, <1>10 DEF Passed, Walked, Served
  <2>2. GeneratorTypes'
    BY <1>1, <1>2, <1>3, <1>10, <2>1, Zenon DEF GeneratorTypes
  <2>3. WalkInv'
    BY <1>10, <2>1 DEF WalkInv
  <2>4. PiecesInv'
    <3>1. /\ \A i \in AnnotatedBefore(n)' : decls'[i].pointer
          /\ created' => /\ Pieces("handler")' = HandlersBefore(n)'
                         /\ Pieces("unmarshall")' = UnmarshallsBefore(m + 1)'
      BY <1>2, <1>6, <1>7, <1>10
    <3> QED
      BY <2>1, <3>1 DEF PiecesInv
  <2>5. ServersInv'
    <3>1. /\ \A r \in DOMAIN servers' : servers'[r] = RoutesBefore(r, n)'
          /\ DOMAIN servers' = Receivers(n)'
      BY <1>2, <1>6, <1>8
    <3> QED
      BY <2>1, <3>1 DEF ServersInv
  <2>6. ServedInv'
    BY <1>10, <2>1 DEF ServedInv
  <2> QED
    BY <2>2, <2>3, <2>4, <2>5, <2>6 DEF GeneratorInv
<1>11. CASE ~ IsParamStruct(d)
  <2>1. phase' = phase /\ next' = m + 1 /\ output' = output
    BY <1>11 DEF GenerateUnmarshaller
  <2>2. \A t : Places(t)' = Places(t) /\ Pieces(t)' = Pieces(t)
    BY <2>1, OutputFrame
  <2> HIDE DEF d
  <2>3. output' \in Seq(Written)
    BY <1>1, <2>1
  <2> QED
    BY <1>4, <1>5, <1>7, <1>10, <1>11, <2>1, <2>2, <2>3
<1>12. CASE IsParamStruct(d) /\ ~ d.irregular /\ created
  <2> DEFINE p == UnmarshallOf(d)
  <2>1. phase' = phase /\ next' = m + 1 /\ output' = Write(<<p>>)
    BY <1>12 DEF GenerateUnmarshaller, UnmarshallOf
  <2>2. p \in Written /\ p.piece = "unmarshall"
    BY <1>4, <1>12, DeclarationParts
  <2> HIDE DEF d, p
  <2>3. /\ output' \in Seq(Written)
        /\ Pieces("handler")' = Pieces("handler")
        /\ Pieces("unmarshall")' = Append(Pieces("unmarshall"), p)
        /\ Places("serve")' = Places("serve")
    BY <1>1, <1>12, <2>1, <2>2, OneWritten
  <2> QED
    BY <1>4, <1>5, <1>7, <1>10, <1>12, <2>1, <2>3 DEF p
<1> QED
  BY <1>9, <1>11, <1>12

\* A ServeHTTP written: its receiver goes from servers to the file.
LEMMA ServeStep == GeneratorInv /\ GenerateServeHTTP => GeneratorInv'
<1> SUFFICES ASSUME GeneratorInv, GenerateServeHTTP PROVE GeneratorInv'
  OBVIOUS
<1>1. /\ decls \in Seq(Declarations) /\ created \in BOOLEAN /\ output \in Seq(Written)
      /\ servers \in [DOMAIN servers -> Seq(Routes)] /\ DOMAIN servers \subseteq STRING
      /\ next \in 1 .. Len(decls) + 1
  BY DEF GeneratorInv, GeneratorTypes
<1>2. /\ phase \in {"types", "servers"} /\ phase' \in {"servers", "ok"}
      /\ decls' = decls /\ created' = created /\ next' = next
  BY DEF GenerateServeHTTP
<1> PICK n \in Nat : n = Len(decls) + 1
  BY <1>1
<1>3. next = n
  <2>1. phase = "servers" => next = n
    BY DEF GeneratorInv, WalkInv
  <2>2. phase = "types" => next > Len(decls)
    BY DEF GenerateServeHTTP
  <2>3. next > Len(decls) => next = n
    BY <1>1
  <2> QED
    BY <1>2, <2>1, <2>2, <2>3
<1>4. Passed = n /\ Walked = n /\ GoesOn /\ Passed' = n /\ Walked' = n /\ GoesOn'
  BY <1>2, <1>3 DEF Passed, Walked, GoesOn
<1>5. /\ AnnotatedBefore(n)' = AnnotatedBefore(n) /\ Receivers(n)' = Receivers(n)
      /\ HandlersBefore(n)' = HandlersBefore(n)
      /\ UnmarshallsBefore(n)' = UnmarshallsBefore(n)
      /\ \A r : RoutesBefore(r, n)' = RoutesBefore(r, n)
  BY <1>2, SourceFrame
<1>6. /\ \A i \in AnnotatedBefore(n) : decls[i].pointer
      /\ created => /\ Pieces("handler") = HandlersBefore(n)
                    /\ Pieces("unmarshall") = UnmarshallsBefore(n)
  BY <1>4 DEF GeneratorInv, PiecesInv
<1>7. /\ \A r \in DOMAIN servers : servers[r] = RoutesBefore(r, n)
      /\ created => DOMAIN servers \cup Served = Receivers(n)
  BY <1>4 DEF GeneratorInv, ServersInv
<1>8. /\ DOMAIN servers \cap Served = {}
      /\ \A i \in Places("serve") :
           /\ output[i].routes = RoutesBefore(output[i].receiver, n)
           /\ \A j \in Places("serve") \ {i} : output[j].receiver # output[i].receiver
  BY <1>4 DEF GeneratorInv, ServedInv
<1>9. ASSUME output' \in Seq(Written), servers' \in [DOMAIN servers' -> Seq(Routes)],
             DOMAIN servers' \subseteq STRING,
             phase' = "ok" => DOMAIN servers' = {},
             created => /\ Pieces("handler")' = Pieces("handler")
                        /\ Pieces("unmarshall")' = Pieces("unmarshall")
                        /\ DOMAIN servers' \cup Served' = DOMAIN servers \cup Served,
             \A r \in DOMAIN servers' : servers'[r] = RoutesBefore(r, n),
             DOMAIN servers' \cap Served' = {},
             \A i \in Places("serve")' :
               /\ output'[i].routes = RoutesBefore(output'[i].receiver, n)
               /\ \A j \in Places("serve")' \ {i} : output'[j].receiver # output'[i].receiver
      PROVE  GeneratorInv'
  <2>1. GeneratorTypes'
    <3>1. phase' \in {"decls", "types", "servers", "ok", "panic", "fatal"}
      BY <1>2
    <3> QED
      BY <1>1, <1>2, <1>9, <3>1, Zenon DEF GeneratorTypes
  <2>2. WalkInv'
    <3>1. next' = Len(decls') + 1
      BY <1>2, <1>3
    <3> QED
      BY <1>2, <1>9, <3>1 DEF WalkInv
  <2>3. PiecesInv'
    <3>1. /\ \A i \in AnnotatedBefore(n)' : decls'[i].pointer
          /\ created' => /\ Pieces("handler")' = HandlersBefore(n)'
                         /\ Pieces("unmarshall")' = UnmarshallsBefore(n)'
      BY <1>2, <1>5, <1>6, <1>9
    <3> QED
      BY <1>4, <3>1 DEF PiecesInv
  <2>4. ServersInv'
    <3>1. /\ \A r \in DOMAIN servers' : servers'[r] = RoutesBefore(r, n)'
          /\ created' => DOMAIN servers' \cup Served' = Receivers(n)'
      BY <1>2, <1>5, <1>7, <1>9
    <3> QED
      BY <1>2, <1>4, <3>1 DEF ServersInv
  <2>5. ServedInv'
    <3>1. \A i \in Places("serve")' :
            \A r : r = output'[i].receiver => output'[i].routes = RoutesBefore(r, n)'
      BY <1>5, <1>9
    <3> QED
      BY <1>4, <1>9, <3>1 DEF ServedInv
  <2> QED
    BY <2>1, <2>2, <2>3, <2>4, <2>5 DEF GeneratorInv
<1>10. CASE servers = <<>> /\ phase' = "ok" /\ servers' = servers /\ output' = output
  <2>1. (\A t : Places(t)' = Places(t) /\ Pieces(t)' = Pieces(t)) /\ Served' = Served
    BY <1>10, OutputFrame
  <2>2. DOMAIN servers' = {}
    BY <1>10
  <2>3. DOMAIN servers' = DOMAIN servers /\ \A r \in DOMAIN servers' : FALSE
    BY <1>10, <2>2
  <2>4. output' \in Seq(Written) /\ servers' \in [DOMAIN servers' -> Seq(Routes)]
    BY <1>1, <1>10
  <2>5. \A i \in Places("serve")' :
          /\ output'[i].routes = RoutesBefore(output'[i].receiver, n)
          /\ \A j \in Places("serve")' \ {i} : output'[j].receiver # output'[i].receiver
    BY <1>8, <1>10, <2>1
  <2> QED
    BY <1>9, <2>1, <2>2, <2>3, <2>4, <2>5
<1>11. ASSUME NEW k \in DOMAIN servers, phase' = "servers",
              output' = Write(<<[piece |-> "serve", receiver |-> k, routes |-> servers[k]]>>),
              servers' = [j \in DOMAIN servers \ {k} |-> servers[j]]
       PROVE  GeneratorInv'
  <2> DEFINE p == [piece |-> "serve", receiver |-> k, routes |-> servers[k]]
             m == Len(output) + 1
  <2>1. p \in Written /\ p.piece = "serve" /\ p.receiver = k /\ p.routes = servers[k]
    <3>1. k \in STRING /\ servers[k] \in Seq(Routes)
      BY <1>1
    <3>2. p \in [piece : {"serve"}, receiver : STRING, routes : Seq(Routes)]
      BY <3>1
    <3> QED
      BY <3>2 DEF Written
  <2>2. output' = Write(<<p>>)
    BY <1>11
  <2> HIDE DEF p
  <2>3. /\ output' \in Seq(Written)
        /\ ~ created => output' = output
        /\ created => /\ output' = Append(output, p)
                      /\ Pieces("handler")' = Pieces("handler")
                      /\ Pieces("unmarshall")' = Pieces("unmarshall")
                      /\ Places("serve")' = Places("serve") \cup {m}
    BY <1>1, <2>1, <2>2, OneWritten
  <2>4. /\ servers' \in [DOMAIN servers' -> Seq(Routes)] /\ DOMAIN servers' = DOMAIN servers \ {k}
        /\ \A r \in DOMAIN servers' : servers'[r] = servers[r]
    BY <1>1, <1>11
  <2>5. \A r \in DOMAIN servers' : servers'[r] = RoutesBefore(r, n)
    BY <1>7, <2>4
  <2>6. DOMAIN servers' \subseteq STRING /\ phase' # "ok"
    BY <1>1, <1>11, <2>4
  <2>7. CASE ~ created
    <3>1. output' = output
      BY <2>3, <2>7
    <3>2. (\A t : Places(t)' = Places(t) /\ Pieces(t)' = Pieces(t)) /\ Served' = Served
      BY <3>1, OutputFrame
    <3>3. DOMAIN servers' \cap Served' = {}
      BY <1>8, <2>4, <3>2
    <3>4. \A i \in Places("serve")' :
            /\ output'[i].routes = RoutesBefore(output'[i].receiver, n)
            /\ \A j \in Places("serve")' \ {i} : output'[j].receiver # output'[i].receiver
      BY <1>8, <3>1, <3>2
    <3> QED
      BY <1>9, <2>3, <2>4, <2>5, <2>6, <2>7, <3>3, <3>4
  <2>8. CASE created
    <3>1. /\ m \notin Places("serve") /\ output'[m] = p
          /\ \A i \in Places("serve") : output'[i] = output[i]
      <4>1. /\ Len(output) \in Nat /\ DOMAIN output = 1 .. Len(output)
            /\ Append(output, p)[m] = p
            /\ \A i \in 1 .. Len(output) : Append(output, p)[i] = output[i]
        BY <1>1, <2>1
      <4>2. Places("serve") \subseteq 1 .. Len(output) /\ m \notin 1 .. Len(output)
        BY <4>1 DEF Places
      <4> QED
        BY <2>3, <2>8, <4>1, <4>2
    <3> HIDE DEF m
    <3>2. Places("serve")' = Places("serve") \cup {m}
      BY <2>3, <2>8
    <3>3. Served' = Served \cup {k}
      BY <2>1, <3>1, <3>2 DEF Served
    <3>4. DOMAIN servers' \cap Served' = {}
      BY <1>8, <2>4, <3>3
    <3>5. DOMAIN servers' \cup Served' = DOMAIN servers \cup Served
      BY <1>11, <2>4, <3>3
    <3>6. \A i \in Places("serve") : output[i].receiver # k
      BY <1>8, <1>11 DEF Served
    <3>7. ASSUME NEW i \in Places("serve")'
          PROVE  /\ output'[i].routes = RoutesBefore(output'[i].receiver, n)
                 /\ \A j \in Places("serve")' \ {i} : output'[j].receiver # output'[i].receiver
      <4>1. CASE i = m
        BY <1>7, <1>11, <2>1, <3>1, <3>2, <3>6, <4>1
      <4>2. CASE i # m
        <5>1. i \in Places("serve") /\ output'[i] = output[i]
          BY <3>1, <3>2, <4>2
        <5>2. output'[m].receiver # output'[i].receiver
          BY <2>1, <3>1, <3>6, <5>1
        <5>3. \A j \in Places("serve") \ {i} : output'[j].receiver # output'[i].receiver
          BY <1>8, <3>1, <5>1
        <5>4. output'[i].routes = RoutesBefore(output'[i].receiver, n)
          BY <1>8, <5>1
        <5> QED
          BY <3>2, <5>2, <5>3, <5>4
      <4> QED
        BY <4>1, <4>2
    <3> QED
      BY <1>9, <2>3, <2>4, <2>5, <2>6, <2>8, <3>4, <3>5, <3>7
  <2> QED
    BY <1>1, <2>7, <2>8
<1> QED
  BY <1>10, <1>11 DEF GenerateServeHTTP

\* Whatever the source file, the file written stands for the declarations passed.
THEOREM GeneratorInvariance == GeneratorSpec => []GeneratorInv
<1>1. GeneratorInv /\ UNCHANGED generatorVars => GeneratorInv'
  <2> SUFFICES ASSUME GeneratorInv, UNCHANGED generatorVars PROVE GeneratorInv'
    OBVIOUS
  <2>1. /\ decls' = decls /\ created' = created /\ phase' = phase /\ next' = next
        /\ servers' = servers /\ output' = output
    BY DEF generatorVars
  <2>2. GeneratorTypes' /\ GoesOn' = GoesOn /\ Passed' = Passed /\ Walked' = Walked
    BY <2>1 DEF GeneratorInv, GeneratorTypes, GoesOn, Passed, Walked
  <2>3. \A n : /\ AnnotatedBefore(n)' = AnnotatedBefore(n) /\ Receivers(n)' = Receivers(n)
               /\ HandlersBefore(n)' = HandlersBefore(n)
               /\ UnmarshallsBefore(n)' = UnmarshallsBefore(n)
               /\ \A r : RoutesBefore(r, n)' = RoutesBefore(r, n)
    BY <2>1, SourceFrame
  <2>4. (\A t : Places(t)' = Places(t) /\ Pieces(t)' = Pieces(t)) /\ Served' = Served
    BY <2>1, OutputFrame
  <2>5. WalkInv'
    BY <2>1, <2>4 DEF GeneratorInv, WalkInv
  <2>6. PiecesInv'
    BY <2>1, <2>2, <2>3, <2>4 DEF GeneratorInv, PiecesInv
  <2>7. ServersInv'
    BY <2>1, <2>2, <2>3, <2>4 DEF GeneratorInv, ServersInv
  <2>8. ServedInv'
    BY <2>1, <2>2, <2>3, <2>4 DEF GeneratorInv, ServedInv
  <2> QED
    BY <2>2, <2>5, <2>6, <2>7, <2>8 DEF GeneratorInv
<1>2. GeneratorInv /\ [GeneratorNext]_generatorVars => GeneratorInv'
  BY <1>1, HandlerStep, InspectStep, UnmarshallStep, ServeStep DEF GeneratorNext
<1> QED
  BY <1>2, GeneratorInitial, PTL DEF GeneratorSpec

\* Of a file that is done, the declarations passed are all.
LEMMA GeneratorInvWhole == GeneratorInv => GeneratedWhole
<1> SUFFICES ASSUME GeneratorInv PROVE GeneratedWhole
  OBVIOUS
<1>1. /\ decls \in Seq(Declarations) /\ created \in BOOLEAN /\ output \in Seq(Written)
      /\ DOMAIN decls = 1 .. Len(decls) /\ Len(decls) \in Nat
  BY DEF GeneratorInv, GeneratorTypes
<1> DEFINE A == {i \in DOMAIN decls : Annotated(decls[i])}
           S == {i \in DOMAIN decls : IsParamStruct(decls[i])}
           n == Len(decls) + 1
<1>2. AnnotatedBefore(n) = A /\ StructsBefore(n) = S
  BY <1>1 DEF AnnotatedBefore, StructsBefore
<1>3. \A r : RoutesBefore(r, n) = LET methods == Methods(r)
                                  IN  [k \in DOMAIN methods |-> RouteOf(methods[k])]
  <2>1. ASSUME NEW r
        PROVE  MethodsBefore(r, n)
                 = {i \in DOMAIN decls : Annotated(decls[i]) /\ decls[i].receiver = r}
    BY <1>1 DEF MethodsBefore
  <2> QED
    BY <2>1, Zenon DEF RoutesBefore, Methods
<1>4. Places("serve") # {} => Passed = n
  BY DEF GeneratorInv, WalkInv, Passed
<1>5. \A i \in DOMAIN output : output[i].piece = "serve" =>
        LET methods == Methods(output[i].receiver)
        IN  /\ output[i].routes = [k \in DOMAIN methods |-> RouteOf(methods[k])]
            /\ \A j \in DOMAIN output \ {i} :
                 output[j].piece = "serve" => output[j].receiver # output[i].receiver
  BY <1>3, <1>4 DEF GeneratorInv, ServedInv, Places
<1> DEFINE annotated == Entries(decls, A)
           structs == Entries(decls, S)
<1>6. /\ annotated \in Seq(Declarations) /\ A \in SUBSET (1 .. Len(decls))
      /\ \A k \in DOMAIN annotated : Ascending(A)[k] \in A /\ annotated[k] = decls[Ascending(A)[k]]
      /\ \A i \in A : \E k \in DOMAIN annotated : Ascending(A)[k] = i
  <2>1. A \in SUBSET (1 .. Len(decls))
    BY <1>1
  <2> HIDE DEF A
  <2>2. /\ annotated \in Seq(Declarations)
        /\ \A k \in 1 .. Len(annotated) :
             Ascending(A)[k] \in A /\ annotated[k] = decls[Ascending(A)[k]]
        /\ \A i \in A : \E k \in 1 .. Len(annotated) : Ascending(A)[k] = i
    BY <1>1, <2>1, EntriesRight
  <2> QED
    BY <2>1, <2>2
<1>7. ASSUME phase = "ok"
      PROVE  /\ \A i \in A : decls[i].pointer
             /\ created =>
                  /\ Pieces("handler") = [k \in DOMAIN annotated |-> HandlerOf(annotated[k])]
                  /\ Pieces("unmarshall") = [k \in DOMAIN structs |-> UnmarshallOf(structs[k])]
                  /\ Served = {decls[i].receiver : i \in A}
  <2>1. Passed = n /\ Walked = n /\ DOMAIN servers = {} /\ GoesOn
    BY <1>7 DEF GeneratorInv, WalkInv, Passed, Walked, GoesOn
  <2>2. /\ \A i \in AnnotatedBefore(n) : decls[i].pointer
        /\ created => /\ Pieces("handler") = HandlersBefore(n)
                      /\ Pieces("unmarshall") = UnmarshallsBefore(n)
                      /\ Served = Receivers(n)
    BY <2>1 DEF GeneratorInv, PiecesInv, ServersInv
  <2>3. /\ HandlersBefore(n) = [k \in DOMAIN annotated |-> HandlerOf(annotated[k])]
        /\ UnmarshallsBefore(n) = [k \in DOMAIN structs |-> UnmarshallOf(structs[k])]
    BY <1>2, Zenon DEF HandlersBefore, UnmarshallsBefore
  <2>4. Receivers(n) = {decls[i].receiver : i \in A}
    BY <1>2 DEF Receivers
  <2> HIDE DEF A, S, n, annotated, structs
  <2> QED
    BY <1>2, <2>2, <2>3, <2>4
<1>8. {decls[i].receiver : i \in A} = {annotated[k].receiver : k \in DOMAIN annotated}
  <2>1. \A i \in A : \E k \in DOMAIN annotated : annotated[k] = decls[i]
    <3> HIDE DEF A, annotated
    <3> TAKE i \in A
    <3>1. PICK k \in DOMAIN annotated : Ascending(A)[k] = i
      BY <1>6
    <3> QED
      BY <1>6, <3>1
  <2>2. \A k \in DOMAIN annotated : \E i \in A : annotated[k] = decls[i]
    BY <1>6, Zenon
  <2> HIDE DEF A, annotated
  <2> QED
    BY <2>1, <2>2
<1>9. phase = "ok" => \A k \in DOMAIN annotated : annotated[k].pointer
  <2> HIDE DEF A, annotated
  <2> QED
    BY <1>6, <1>7
<1>10. Served = {output[i].receiver : i \in {j \in DOMAIN output : output[j].piece = "serve"}}
  BY DEF Served, Places
<1> QED
  BY <1>5, <1>7, <1>8, <1>9, <1>10 DEF GeneratedWhole, UnmarshallOf

\* Every annotated method has its handler, every parameter struct its Unmarshall, and
\* every receiver one ServeHTTP with all its routes, whatever the source file.
THEOREM GeneratorWhole == GeneratorSpec => []GeneratedWhole
<1>1. GeneratorInv => GeneratedWhole
  BY GeneratorInvWhole
<1> QED
  BY <1>1, GeneratorInvariance, PTL
=============================================================================
