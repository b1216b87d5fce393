----------------------------- MODULE MCPrograms -----------------------------
(***************************************************************************)
(* One run for the six programs that share nothing: an initial state      *)
(* starts one of them, the others are off.                                 *)
(***************************************************************************)
EXTENDS SearchClient, FastSearch, DirTree, Generator, MCDbExplorer, MCLifecycle, TLC

\* SearchClient.  Six users: "a" finds five of them, "none" no one.
MCQueries == {"a", "none", "timeout", "wrong_json", "internal", "bad_user"}
MCUsers == 1..6
MCFound == ("a" :> <<3, 1, 6, 2, 5>>) @@ [q \in MCQueries |-> <<>>]
MCRequests ==
  [token : {"token"}, query : {"a", "none"}, field : {"Name"}, by : {1},
   limit : {-1, 0, 1, 2, 3, 5}, offset : {-1, 0, 1, 4, 5, 7}]
  \cup [token : {"", "token"}, query : MCQueries, field : {"", "Gender"}, by : {-1, 2},
        limit : {-1, 2}, offset : {0}]

\* FastSearch.  One browser of each kind, one of both, one of none.
MCBrowsers == {"android", "msie", "android msie", "other"}
MCAndroid == {"android", "android msie"}
MCMSIE == {"msie", "android msie"}
MCTexts == {"", "ann", "bob"}
Browsing(browsers) == Field("list", browsers)
Written(text) == Field("text", text)
NoList == Field("missing", {})
NoText == Field("missing", "")
User1(browsers, name, email) ==
  [kind |-> "object", long |-> FALSE, browsers |-> browsers, name |-> name, email |-> email]
LineOf(kind) == [User1(NoList, NoText, NoText) EXCEPT !.kind = kind]
MCLines ==
  {User1(Browsing({"android", "msie"}), Written("ann"), Written("ann")),
   User1(Browsing({"android msie"}), Written("bob"), Written("bob")),
   User1(Browsing({"android", "other"}), Written("ann"), NoText),
   User1(Browsing({}), NoText, Written("bob")),
   User1(Browsing({"android", "msie"}), NoText, Written("bob")),
   User1(Browsing({"android", "msie"}), Written("bob"), NoText),
   User1(NoList, Written("bob"), Written("ann")),
   User1(Field("other", {}), Written("bob"), Written("bob")),
   User1(Browsing({"android", "msie", "no string"}), Written("bob"), Written("bob")),
   User1(Browsing({"android msie"}), Field("other", ""), Written("bob")),
   [User1(Browsing({"android msie"}), Written("bob"), Written("bob")) EXCEPT !.long = TRUE],
   LineOf("null"), LineOf("bad"), LineOf("empty")}
MCFiles == UNION {[1..n -> MCLines] : n \in 1..3}

\* DirTree.  Every tree of up to four nodes.
MCNodes == 1..4
MCTrees ==
  {[dirs |-> dirs, parent |-> parent] :
     dirs \in SUBSET MCNodes,
     parent \in {p \in [MCNodes -> 0..3] : \A n \in MCNodes : p[n] < n}}
MCTreesOk == {t \in MCTrees : \A n \in MCNodes : t.parent[n] \in t.dirs \cup {0}}

\* Generator.  Two receivers, methods that are annotated well, badly, or not, and
\* structs.
Method(receiver, name, url, method, auth) ==
  [kind |-> "func", annotated |-> TRUE, pointer |-> TRUE, receiver |-> receiver, name |-> name,
   input |-> "CreateParams", url |-> url, method |-> method, auth |-> auth]
Struct(tagged, irregular) ==
  [kind |-> "struct", name |-> "CreateParams", tagged |-> tagged, irregular |-> irregular]
MCDecls ==
  {Method("MyApi", "Profile", "/user/profile", "", FALSE),
   Method("MyApi", "Create", "/user/create", "POST", TRUE),
   Method("OtherApi", "Create", "/user/create", "POST", TRUE),
   Method("OtherApi", "Create", "", "", FALSE),
   [Method("MyApi", "Create", "", "", FALSE) EXCEPT !.annotated = FALSE],
   [Method("MyApi", "Create", "/user/create", "POST", TRUE) EXCEPT !.pointer = FALSE],
   Struct(TRUE, FALSE), Struct(TRUE, TRUE), Struct(FALSE, TRUE)}
MCSourceFiles == UNION {[1..n -> MCDecls] : n \in 0..3}
-----------------------------------------------------------------------------
SearchOff ==
  /\ pc = "off" /\ want = 0 /\ sent = 0 /\ answer = 0
  /\ result = Failed("") /\ from = 0 /\ collected = <<>>
BothOff ==
  /\ lines = <<>>
  /\ slow = [pc |-> "off", at |-> 1, found |-> {}, seen |-> {}]
  /\ fast = [pc |-> "off", at |-> 1, found |-> {}, seen |-> {}, user |-> EmptyUser]
TreeOff ==
  /\ tree = 0 /\ printFiles = FALSE /\ reading = None
  /\ calls = <<>> /\ drawn = <<>> /\ exit = "off"
GeneratorOff ==
  /\ decls = <<>> /\ created = FALSE /\ phase = "off" /\ next = 1
  /\ servers = <<>> /\ output = <<>>

\* The program that is on.  The explorer and the services stay as they are at first
\* when they are off.
VARIABLE on

MCInit ==
  /\ ExplorerInit /\ Init
  /\ \/ on = "search" /\ SearchInit /\ BothOff /\ TreeOff /\ GeneratorOff
     \/ on = "both" /\ SearchOff /\ BothInit /\ TreeOff /\ GeneratorOff
     \/ on = "tree" /\ SearchOff /\ BothOff /\ TreeInit /\ GeneratorOff
     \/ on = "generator" /\ SearchOff /\ BothOff /\ TreeOff /\ GeneratorInit
     \/ on \in {"explorer", "services"} /\ SearchOff /\ BothOff /\ TreeOff /\ GeneratorOff

MCNext ==
  /\ \/ SearchNext /\ UNCHANGED <<bothVars, treeVars, generatorVars, explorerVars, vars>>
     \/ BothNext /\ UNCHANGED <<searchVars, treeVars, generatorVars, explorerVars, vars>>
     \/ TreeNext /\ UNCHANGED <<searchVars, bothVars, generatorVars, explorerVars, vars>>
     \/ GeneratorNext /\ UNCHANGED <<searchVars, bothVars, treeVars, explorerVars, vars>>
     \/ /\ on = "explorer" /\ ExplorerNext
        /\ UNCHANGED <<searchVars, bothVars, treeVars, generatorVars, vars>>
     \/ /\ on = "services" /\ Next
        /\ UNCHANGED <<searchVars, bothVars, treeVars, generatorVars, explorerVars>>
  /\ UNCHANGED on

MCVars == <<searchVars, bothVars, treeVars, generatorVars, explorerVars, vars, on>>

MCSpec ==
  /\ MCInit /\ [][MCNext]_MCVars
  /\ SearchFairness /\ Scheduled
=============================================================================
