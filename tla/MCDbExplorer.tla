---------------------------- MODULE MCDbExplorer ----------------------------
(***************************************************************************)
(* A table like items of main_test.go, with an int column that may be      *)
(* NULL added, and requests like those of the test: good ones that meet at *)
(* the same record, and one for each way of being refused or of failing.   *)
(***************************************************************************)
EXTENDS DbExplorer

Num(n) == Value("number", n)
Text(s) == Value("string", s)

MCSchema ==
  [items |-> {Column("id", "int", "NO", "PRI"), Column("title", "text", "NO", ""),
              Column("count", "int", "YES", ""), Column("updated", "text", "YES", "")},
   marks |-> {Column("mark", "int", "NO", "PRI")}]

MCFirstRows ==
  [items |-> {[id |-> Num(1), title |-> Text("sql"), count |-> Num(0), updated |-> Null]},
   marks |-> {}]

\* A connection that breaks while the explorer starts.
MCTornTables == {{}, {"marks"}}
MCTornInfos ==
  [items |-> {{col \in MCSchema.items : col.Field # "updated"},
              {col \in MCSchema.items : col.Field \in {"title", "updated"}}},
   marks |-> {}]

Request(m, ids, body) ==
  [table |-> "items", whole |-> FALSE, method |-> m, id |-> ids, body |-> body,
   limit |-> {}, offset |-> {}]
List_(limit, offset) ==
  [Request("GET", {}, <<>>) EXCEPT !.whole = TRUE, !.limit = limit, !.offset = offset]
Put(body) == Request("PUT", {}, body)
Post(body) == Request("POST", {1}, body)

\* Calls that meet at the records; the calls being alike, one of them always writes.
MCMeeting ==
  {Put([title |-> Text("new"), count |-> Value("fraction", 7), id |-> Num(42)]),
   Put([title |-> Text("new"), updated |-> Null]),
   Post([title |-> Text("db"), updated |-> Null]),
   Post([updated |-> Text("now"), color |-> Num(3)]),
   Request("DELETE", {1}, <<>>), Request("GET", {1}, <<>>), List_({}, {})}

\* Calls that are refused or fail, and pages.
MCRefused ==
  {Put([title |-> Null]), Put([id |-> Num(2)]), Put(BadBody),
   Post([id |-> Num(4)]), Post([title |-> Null]), Post([count |-> Null]),
   Post([updated |-> Num(42)]), Post([color |-> Num(3)]), Post(BadBody),
   Request("POST", {}, [title |-> Text("db")]), Request("GET", {}, <<>>),
   Request("GET", {2}, <<>>), Request("DELETE", {}, <<>>), Request("HEAD", {1}, <<>>),
   List_({1}, {1}), List_({0}, {}), List_({}, {9}),
   [List_({}, {}) EXCEPT !.method = "PUT"],
   [List_({}, {}) EXCEPT !.table = "/"], [List_({}, {}) EXCEPT !.table = "unknown"],
   [Put([mark |-> Num(4)]) EXCEPT !.table = "marks"],
   [Put([none |-> Null]) EXCEPT !.table = "marks"]}

CONSTANTS c1, c2, c3
MCCalls == {c1, c2, c3}
MCHttpRequests ==
  [c \in MCCalls |-> CASE c = c1 -> {r \in MCMeeting : r.method # "GET"}
                       [] c = c2 -> MCMeeting
                       [] c = c3 -> MCMeeting \cup MCRefused]

\* With a connection that holds while the explorer starts: lists, and a record to
\* create as hw6.md:13 says.
MCNotTorn == [t \in DOMAIN MCSchema |-> {}]
MCLists == [c \in MCCalls |-> {List_({}, {})}]
MCPuts == [c \in MCCalls |-> {[Put([title |-> Text("new")]) EXCEPT !.whole = TRUE]}]
=============================================================================
