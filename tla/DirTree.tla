------------------------------ MODULE DirTree ------------------------------
(***************************************************************************)
(* hw1: printDirTree of main.go, which draws a directory and everything    *)
(* below it.  The recursion is a stack of calls.  Each directory is read   *)
(* when the drawing comes to it, long after the listing it was found in:   *)
(* it may have become unreadable or be gone, which ends the program with   *)
(* the drawing half done.                                                  *)
(***************************************************************************)
EXTENDS Integers, Order

CONSTANTS Nodes,   \* files and directories below the root, 0; in the order of their names
          Trees    \* the trees to draw: what is a directory, and what each node lies in

ASSUME TreeAssumption ==
  /\ Nodes \subseteq Nat \ {0} /\ IsFiniteSet(Nodes)
  /\ \A t \in Trees : /\ t.dirs \subseteq Nodes
                      /\ t.parent \in [Nodes -> t.dirs \cup {0}]
                      /\ \A n \in Nodes : t.parent[n] < n

VARIABLES
  tree,
  printFiles,  \* -f
  reading,     \* the directory to read next, with the tabs for its files, or none
  calls,       \* the calls of printDirTree that go on: files not drawn yet, and tabs
  drawn,       \* the lines printed: tabs, the branch, and the node
  exit         \* "" | ok | fatal

treeVars == <<tree, printFiles, reading, calls, drawn, exit>>

None == [dir |-> -1, tabs |-> <<>>]

\* ioutil.ReadDir: sorted by name.
ReadDir(dir) == Ascending({n \in Nodes : tree.parent[n] = dir})

ListedSlip(dir) ==
  LET all == ReadDir(dir)
      kept == {i \in DOMAIN all : all[i] \in tree.dirs \/ (i > 1 /\ all[i - 1] \notin tree.dirs)}
  IN  IF printFiles THEN all ELSE Entries(all, kept)

\* Without -f the files are taken out of the listing before it is drawn.
Listed(dir) ==
  LET all == ReadDir(dir)
  IN  IF printFiles THEN all ELSE Entries(all, {i \in DOMAIN all : all[i] \in tree.dirs})

Call == calls[Len(calls)]

\* A call of printDirTree begins.
Open ==
  /\ reading # None
  /\ calls' = Append(calls, [files |-> Listed(reading.dir), tabs |-> reading.tabs])
  /\ reading' = None
  /\ UNCHANGED <<tree, printFiles, drawn, exit>>

\* ReadDir fails: log.Fatal, in whatever depth.
Fatal ==
  /\ reading # None
  /\ exit' = "fatal"
  /\ reading' = None
  /\ UNCHANGED <<tree, printFiles, calls, drawn>>

Going == exit = "" /\ reading = None /\ calls # <<>>

\* The next file of the innermost call.  The last one gets the corner, and below
\* it no bar is drawn.
Draw ==
  /\ Going
  /\ Call.files # <<>>
  /\ LET f == Head(Call.files)
         last == Len(Call.files) = 1
     IN  /\ drawn' = Append(drawn, [tabs |-> Call.tabs, last |-> last, node |-> f])
         /\ calls' = [calls EXCEPT ![Len(calls)].files = Tail(@)]
         /\ reading' = IF f \in tree.dirs
                       THEN [dir |-> f, tabs |-> Append(Call.tabs, IF last THEN "tab" ELSE "bar")]
                       ELSE None
  /\ UNCHANGED <<tree, printFiles, exit>>

ReturnCall ==
  /\ Going
  /\ Call.files = <<>>
  /\ calls' = SubSeq(calls, 1, Len(calls) - 1)
  /\ exit' = IF calls' = <<>> THEN "ok" ELSE ""
  /\ UNCHANGED <<tree, printFiles, reading, drawn>>

TreeInit ==
  /\ tree \in Trees
  /\ printFiles \in BOOLEAN
  /\ reading = [dir |-> 0, tabs |-> <<>>]
  /\ calls = <<>> /\ drawn = <<>> /\ exit = ""

TreeNext == Open \/ Fatal \/ Draw \/ ReturnCall

TreeSpec == TreeInit /\ [][TreeNext]_treeVars
-----------------------------------------------------------------------------
(***************************************************************************)
(* Properties.                                                             *)
(***************************************************************************)

\* The way to a node: the nodes it lies in, and itself.
Way[n \in Nodes] ==
  IF tree.parent[n] = 0 THEN <<n>> ELSE Append(Way[tree.parent[n]], n)

Visible == IF printFiles THEN Nodes ELSE tree.dirs

LastOne(n) == \A m \in Visible : tree.parent[m] = tree.parent[n] => m <= n

\* A directory comes before what lies in it, and the rest in the order of names.
Precedes(m, n) ==
  LET v == Way[m]
      w == Way[n]
  IN  \/ Len(v) < Len(w) /\ v = SubSeq(w, 1, Len(v))
      \/ \E k \in DOMAIN v \cap DOMAIN w : SubSeq(v, 1, k - 1) = SubSeq(w, 1, k - 1) /\ v[k] < w[k]

\* However far the drawing has come, its k-th line is the node that k - 1 visible
\* nodes precede, behind a bar for every directory around it that something
\* follows; and a drawing that ends well shows every visible node.
DrawnRight ==
  /\ \A k \in DOMAIN drawn :
       LET n == drawn[k].node
           w == Way[n]
       IN  /\ n \in Visible
           /\ Cardinality({m \in Visible : Precedes(m, n)}) = k - 1
           /\ drawn[k].last = LastOne(n)
           /\ drawn[k].tabs = [i \in 1..Len(w) - 1 |-> IF LastOne(w[i]) THEN "tab" ELSE "bar"]
  /\ exit = "ok" => Len(drawn) = Cardinality(Visible)
=============================================================================
