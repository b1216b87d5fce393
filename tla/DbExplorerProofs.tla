--------------------------- MODULE DbExplorerProofs ---------------------------
(***************************************************************************)
(* Proofs about DbExplorer, for any schema, rows and requests.  The        *)
(* invariant adds to the types what a call that executes a statement has   *)
(* been checked for, that the keys are numbers and that a table is finite; *)
(* with it every step of the explorer is one of TableStore.                *)
(***************************************************************************)
EXTENDS DbExplorer, FiniteSetTheorems, TLAPS

Statements == {"select", "list", "insert", "update", "delete"}
MethodOf(op) == CASE op = "insert" -> "PUT" [] op = "update" -> "POST"
                  [] op = "delete" -> "DELETE" [] OTHER -> "GET"
AboutOf(op) == IF op = "list" THEN "table" ELSE "record"
KeyOf(t) == IdColumn(Schema[t])

\* The tables the explorer knows.
TablesInv ==
  /\ boot \in {"tables", "infos", "ready", "failed", "panic"}
  /\ DOMAIN tables \subseteq DOMAIN Schema
  /\ \A t \in DOMAIN tables : tables[t] \subseteq Schema[t]
  /\ unread \subseteq DOMAIN tables /\ (boot = "ready" => unread = {})

\* A row fits its table, and its key is a number that was given out.
RowFits(t, r, next) ==
  /\ DOMAIN r = ColumnNames(Schema[t])
  /\ \A col \in Schema[t] : Holds(col, r[col.Field])
  /\ r[KeyOf(t)].value \in Int /\ r[KeyOf(t)].value < next

Keyed(t, s) == \A r, q \in s : r[KeyOf(t)] = q[KeyOf(t)] => r = q

TableFits(t) ==
  /\ \A r \in rows[t] : RowFits(t, r, auto[t])
  /\ Keyed(t, rows[t])
  /\ auto[t] \in Int /\ IsFiniteSet(rows[t])

RowsInv ==
  /\ DOMAIN rows = DOMAIN Schema /\ auto \in [DOMAIN Schema -> Int]
  /\ \A t \in DOMAIN Schema : TableFits(t)

\* A call that executes a statement was checked against the tables there are.
CallOf(c) ==
  /\ req[c] \in HttpRequests[c] \cup {Nothing}
  /\ statement[c] = "answered" <=> response[c] # Nothing
  /\ statement[c] # "idle" => boot = "ready" /\ req[c] \in HttpRequests[c]
  /\ statement[c] = "idle" => req[c] = Nothing
  /\ statement[c] \in Statements => /\ req[c].table \in DOMAIN tables
                              /\ req[c].method = MethodOf(statement[c])
                              /\ AskOf(req[c]).of = AboutOf(statement[c])
  /\ statement[c] = "update" => UpdateAdmits(req[c].table, req[c].body)
  /\ statement[c] = "insert" => InsertAdmits(req[c].table, req[c].body)

CallsInv ==
  /\ statement \in [Calls -> Statements \cup {"idle", "answered"}]
  /\ DOMAIN req = Calls /\ DOMAIN response = Calls
  /\ \A c \in Calls : CallOf(c)

Inv == TablesInv /\ RowsInv /\ CallsInv
-----------------------------------------------------------------------------
\* The primary key of a table is a column of it that takes numbers only.
LEMMA KeyColumn ==
  ASSUME NEW t \in DOMAIN Schema
  PROVE  \E key \in Schema[t] :
           /\ KeyOf(t) = key.Field /\ key.Key = "PRI" /\ key.Type = "int" /\ key.Null = "NO"
           /\ \A col \in Schema[t] : col.Key = "PRI" => col = key
           /\ \A col \in Schema[t] : col.Field = KeyOf(t) => col = key
<1>1. PICK key \in Schema[t] : {col \in Schema[t] : col.Key = "PRI"} = {key}
  BY SchemaAssumption
<1>2. key.Key = "PRI" /\ \A col \in Schema[t] : col.Key = "PRI" => col = key
  BY <1>1
<1>3. (CHOOSE col \in Schema[t] : col.Key = "PRI") = key
  BY <1>2
<1>4. KeyOf(t) = key.Field
  BY <1>2, <1>3 DEF KeyOf, IdColumn
<1>5. key.Type = "int" /\ key.Null = "NO"
  BY <1>2, SchemaAssumption
<1>6. \A col \in Schema[t] : col.Field = KeyOf(t) => col = key
  BY <1>4, SchemaAssumption
<1> QED
  BY <1>2, <1>4, <1>5, <1>6

\* When the explorer has read some columns of a table, its id column is the primary
\* key if that is among them, and none else.
LEMMA KnownKey ==
  ASSUME NEW t \in DOMAIN Schema, NEW infos, infos \subseteq Schema[t]
  PROVE  /\ IdColumn(infos) \in {KeyOf(t), ""}
         /\ KeyOf(t) \in ColumnNames(infos) => IdColumn(infos) = KeyOf(t)
<1>1. PICK key \in Schema[t] :
           /\ KeyOf(t) = key.Field /\ key.Key = "PRI"
           /\ \A col \in Schema[t] : col.Key = "PRI" => col = key
           /\ \A col \in Schema[t] : col.Field = KeyOf(t) => col = key
  BY KeyColumn
<1>2. CASE key \in infos
  <2>1. (CHOOSE col \in infos : col.Key = "PRI") = key
    BY <1>1, <1>2
  <2> QED
    BY <1>1, <1>2, <2>1 DEF IdColumn
<1>3. CASE key \notin infos
  <2>1. ~\E col \in infos : col.Key = "PRI"
    BY <1>1, <1>3
  <2>2. KeyOf(t) \notin ColumnNames(infos)
    BY <1>1, <1>3 DEF ColumnNames
  <2> QED
    BY <2>1, <2>2 DEF IdColumn
<1> QED
  BY <1>2, <1>3

\* A value that fits a column of the table is one it can hold, once it is cast.
LEMMA FitsHolds ==
  ASSUME NEW col, NEW v, Fits(col, v), v.kind = "null" => v = Null
  PROVE  Holds(col, Cast(v))
<1>1. CASE col.Type = "int"
  <2>1. Cast(v).kind = "number"
    BY <1>1 DEF Fits, Cast, Value
  <2> QED
    BY <1>1, <2>1 DEF Holds
<1>2. CASE col.Type # "int"
  BY <1>2 DEF Fits, Cast, Holds
<1> QED
  BY <1>1, <1>2

\* What UPDATE sets are columns of the table, other than its key, to what they hold.
LEMMA AssignedHolds ==
  ASSUME NEW t \in DOMAIN Schema, tables[t] \subseteq Schema[t], NEW body,
         \A f \in DOMAIN body : body[f].kind = "null" => body[f] = Null,
         UpdateAdmits(t, body), NEW f \in DOMAIN Assigned(t, body)
  PROVE  /\ f \in ColumnNames(Schema[t]) /\ f # KeyOf(t)
         /\ \A col \in Schema[t] : col.Field = f => Holds(col, Assigned(t, body)[f])
<1>1. PICK col \in Named(t, body) : col.Field = f
  BY DEF Assigned, ColumnNames
<1>2. col \in tables[t] /\ col \in Schema[t] /\ f \in DOMAIN body
  BY <1>1 DEF Named
<1>3. f # IdColumn(tables[t]) /\ Fits(col, body[f])
  BY <1>1 DEF UpdateAdmits
<1>4. f # KeyOf(t)
  BY <1>1, <1>2, <1>3, KnownKey DEF ColumnNames
<1>5. Assigned(t, body)[f] = Cast(body[f])
  BY DEF Assigned
<1>6. Holds(col, Assigned(t, body)[f])
  BY <1>2, <1>3, <1>5, FitsHolds
<1>7. \A other \in Schema[t] : other.Field = f => other = col
  BY <1>1, <1>2, SchemaAssumption
<1> QED
  BY <1>1, <1>2, <1>4, <1>6, <1>7 DEF ColumnNames

\* What INSERT gives are columns of the table with what they hold; when that includes
\* the key, it is 1.
LEMMA InsertedHolds ==
  ASSUME NEW t \in DOMAIN Schema, tables[t] \subseteq Schema[t], NEW body,
         \A f \in DOMAIN body : body[f].kind = "null" => body[f] = Null,
         InsertAdmits(t, body), NEW f \in DOMAIN Inserted(t, body)
  PROVE  /\ f \in ColumnNames(Schema[t])
         /\ f = KeyOf(t) => Inserted(t, body)[f] = Value("number", 1)
         /\ \A col \in Schema[t] : col.Field = f => Holds(col, Inserted(t, body)[f])
<1> DEFINE named == ColumnNames(Named(t, body)) \ {IdColumn(tables[t])}
           default == {col \in tables[t] \ Named(t, body) : col.Null = "NO"}
           Default(g) == IF \E col \in default : col.Field = g /\ col.Type = "int"
                         THEN Value("number", 1) ELSE Value("string", "")
<1>1. /\ f \in named \cup ColumnNames(default)
      /\ Inserted(t, body)[f] = IF f \in named THEN Cast(body[f]) ELSE Default(f)
  BY DEF Inserted
<1>2. \A col, other \in Schema[t] : col.Field = other.Field => col = other
  BY SchemaAssumption
<1>3. CASE f \in named
  <2>1. PICK col \in Named(t, body) : col.Field = f
    BY <1>3 DEF ColumnNames
  <2>2. col \in tables[t] /\ col \in Schema[t] /\ f \in DOMAIN body
    BY <2>1 DEF Named
  <2>3. f # IdColumn(tables[t]) /\ Fits(col, body[f])
    BY <1>3, <2>1 DEF InsertAdmits
  <2>4. f # KeyOf(t)
    BY <2>1, <2>2, <2>3, KnownKey DEF ColumnNames
  <2>5. Holds(col, Inserted(t, body)[f])
    BY <1>1, <1>3, <2>2, <2>3, FitsHolds
  <2> QED
    BY <1>2, <2>1, <2>2, <2>4, <2>5 DEF ColumnNames
<1>4. CASE f \notin named
  <2>1. PICK col \in default : col.Field = f
    BY <1>1, <1>4 DEF ColumnNames
  <2>2. col \in Schema[t] /\ col.Null = "NO"
    BY <2>1
  <2>3. Inserted(t, body)[f] = Default(f)
    BY <1>1, <1>4
  <2>4. CASE col.Type = "int"
    <3>1. Inserted(t, body)[f] = Value("number", 1)
      BY <2>1, <2>3, <2>4
    <3>2. Holds(col, Value("number", 1))
      BY <2>4 DEF Holds, Value
    <3> QED
      BY <1>2, <2>1, <2>2, <3>1, <3>2 DEF ColumnNames
  <2>5. CASE col.Type # "int"
    <3>1. ~\E other \in default : other.Field = f /\ other.Type = "int"
      BY <1>2, <2>1, <2>2, <2>5
    <3>2. Inserted(t, body)[f] = Value("string", "")
      BY <2>3, <3>1
    <3>3. Holds(col, Value("string", ""))
      BY <2>5 DEF Holds, Value
    <3>4. f # KeyOf(t)
      BY <2>1, <2>2, <2>5, KeyColumn
    <3> QED
      BY <1>2, <2>1, <2>2, <3>2, <3>3, <3>4 DEF ColumnNames
  <2> QED
    BY <2>4, <2>5
<1> QED
  BY <1>3, <1>4
-----------------------------------------------------------------------------
\* The rows there are at the start fit, and are numbered before auto.
LEMMA InvInit == ExplorerInit => Inv
<1> SUFFICES ASSUME ExplorerInit PROVE Inv
  OBVIOUS
<1>1. TablesInv
  BY DEF ExplorerInit, TablesInv
<1>2. CallsInv
  BY DEF ExplorerInit, CallsInv, CallOf, Statements
<1>3. /\ rows = FirstRows /\ DOMAIN rows = DOMAIN Schema
      /\ auto = [t \in DOMAIN Schema |-> MaxId(FirstRows[t], KeyOf(t)) + 1]
  BY FirstRowsAssumption DEF ExplorerInit, KeyOf
<1>4. ASSUME NEW t \in DOMAIN Schema
      PROVE  TableFits(t)
  <2> DEFINE ids == {r[KeyOf(t)].value : r \in FirstRows[t]} \cup {0}
             m == MaxId(FirstRows[t], KeyOf(t))
  <2>1. /\ \A r \in FirstRows[t] : /\ DOMAIN r = ColumnNames(Schema[t])
                                   /\ \A col \in Schema[t] : Holds(col, r[col.Field])
        /\ \A r, s \in FirstRows[t] : r[KeyOf(t)] = s[KeyOf(t)] => r = s
        /\ IsFiniteSet(FirstRows[t])
        /\ ids \subseteq Int /\ \E n \in ids : \A i \in ids : i <= n
    BY FirstRowsAssumption DEF KeyOf
  <2>2. \E n \in ids : \A r \in FirstRows[t] : r[KeyOf(t)].value <= n
    BY <2>1
  <2>3. m \in ids /\ \A r \in FirstRows[t] : r[KeyOf(t)].value <= m
    BY <2>2 DEF MaxId
  <2>4. m \in Int /\ auto[t] = m + 1
    BY <1>3, <2>1, <2>3
  <2>5. \A r \in rows[t] : RowFits(t, r, auto[t])
    <3> SUFFICES ASSUME NEW r \in FirstRows[t] PROVE RowFits(t, r, auto[t])
      BY <1>3
    <3>1. r[KeyOf(t)].value \in Int /\ r[KeyOf(t)].value <= m
      BY <2>1, <2>3
    <3> HIDE DEF m
    <3>2. r[KeyOf(t)].value < auto[t]
      BY <2>4, <3>1
    <3> QED
      BY <2>1, <3>1, <3>2 DEF RowFits
  <2> HIDE DEF m
  <2> QED
    BY <1>3, <2>1, <2>4, <2>5 DEF TableFits, Keyed
<1>5. auto \in [DOMAIN Schema -> Int]
  BY <1>3, <1>4 DEF TableFits
<1> QED
  BY <1>1, <1>2, <1>3, <1>4, <1>5 DEF Inv, RowsInv

\* No answer is empty.
LEMMA AnswersExist ==
  /\ \A x, y : <<x, y>> # Nothing
  /\ \A x : <<x>> # Nothing
BY DEF Nothing

\* A statement is executed by one call, which answers; the others stay.
LEMMA ExecutingCall ==
  ASSUME Inv, NEW c \in Calls, NEW a, a # Nothing, statement[c] \in Statements, Executing(c, a)
  PROVE  TablesInv' /\ CallsInv'
<1>1. TablesInv'
  BY DEF Inv, TablesInv, Executing
<1>2. CallsInv
  BY DEF Inv
<1>3. /\ statement' = [statement EXCEPT ![c] = "answered"] /\ response' = [response EXCEPT ![c] = a]
      /\ UNCHANGED <<tables, boot, req>>
  BY DEF Executing
<1>4. CallOf(c)'
  BY <1>2, <1>3 DEF CallsInv, CallOf, Statements
<1>5. \A d \in Calls : d # c => CallOf(d)'
  BY <1>2, <1>3 DEF CallsInv, CallOf, UpdateAdmits, InsertAdmits, Named
<1>6. statement' \in [Calls -> Statements \cup {"idle", "answered"}]
  BY <1>2, <1>3 DEF CallsInv
<1>7. DOMAIN req' = Calls /\ DOMAIN response' = Calls
  BY <1>2, <1>3 DEF CallsInv
<1> QED
  BY <1>1, <1>4, <1>5, <1>6, <1>7 DEF CallsInv

\* NewDbExplorer reads some of the columns of some of the tables, and is over before
\* the first call.
LEMMA BootNext ==
  ASSUME Inv, NewDbExplorer
  PROVE  TablesInv' /\ CallsInv'
<1>1. TablesInv /\ CallsInv
  BY DEF Inv
<1>2. boot \in {"tables", "infos"} /\ UNCHANGED <<statement, req, response>>
  BY DEF NewDbExplorer, LoadTables, LoadTableInfo, LoadFails
<1>3. CallsInv'
  BY <1>1, <1>2 DEF CallsInv, CallOf, Statements
<1>4. CASE LoadTables
  <2>1. unread' \subseteq DOMAIN Schema
    BY <1>4, SchemaAssumption DEF LoadTables
  <2>2. tables' = [t \in unread' |-> {}]
    BY <1>4 DEF LoadTables
  <2>3. boot' = IF unread' = {} THEN "ready" ELSE "infos"
    BY <1>4 DEF LoadTables
  <2>4. TablesInv'
    BY <2>1, <2>2, <2>3 DEF TablesInv
  <2> QED
    BY <1>3, <2>4
<1>5. CASE LoadFails
  BY <1>1, <1>3, <1>5 DEF LoadFails, TablesInv
<1>6. ASSUME NEW t \in DOMAIN Schema, LoadTableInfo(t)
      PROVE  TablesInv'
  <2>1. t \in unread /\ unread' = unread \ {t}
    BY <1>6 DEF LoadTableInfo
  <2>2. PICK infos \in {Schema[t]} \cup TornInfos[t] : tables' = [tables EXCEPT ![t] = infos]
    BY <1>6 DEF LoadTableInfo
  <2>3. infos \subseteq Schema[t]
    BY <2>2, SchemaAssumption
  <2>4. boot' = IF unread' = {} THEN "ready" ELSE boot
    BY <1>6 DEF LoadTableInfo
  <2> QED
    BY <1>1, <2>1, <2>2, <2>3, <2>4 DEF TablesInv
<1> QED
  BY <1>3, <1>4, <1>5, <1>6 DEF NewDbExplorer

\* What a request is answered with when no statement is executed for it.
Refusal(r, a) ==
  \/ a \in {Error(400), Error(500), Panicked}
  \/ a = Error(404) /\ r.table \notin DOMAIN tables
  \/ a = <<"tables", DOMAIN tables>> /\ r.table = "/"
  \/ /\ a = <<"empty">> /\ r.table # "/"
     /\ \/ r.method \notin {"GET", "PUT", "POST", "DELETE"}
        \/ r.whole /\ r.method # "GET"

\* What a request comes to: a refusal, or a statement that it was checked for.
Right(r, x) ==
  \/ x.statement = "answered" /\ Refusal(r, x.response)
  \/ /\ x.statement \in Statements /\ x.response = Nothing
     /\ r.table \in DOMAIN tables /\ r.method = MethodOf(x.statement)
     /\ AskOf(r).of = AboutOf(x.statement)
     /\ x.statement = "update" => UpdateAdmits(r.table, r.body)
     /\ x.statement = "insert" => InsertAdmits(r.table, r.body)

\* Every request comes to one of these.
LEMMA RoutedRight ==
  ASSUME NEW r
  PROVE  Right(r, Route(r))
<1>1. ASSUME NEW a, Refusal(r, a)
      PROVE  Right(r, Answered(a))
  BY <1>1 DEF Answered, Right
<1>2. ASSUME NEW op \in Statements, r.table \in DOMAIN tables, r.method = MethodOf(op),
             AskOf(r).of = AboutOf(op),
             op = "update" => UpdateAdmits(r.table, r.body),
             op = "insert" => InsertAdmits(r.table, r.body)
      PROVE  Right(r, Executes(op))
  BY <1>2 DEF Executes, Right
<1>3. /\ Right(r, Answered(Error(400))) /\ Right(r, Answered(Error(500)))
      /\ Right(r, Answered(Panicked))
  BY <1>1 DEF Refusal
<1>4. CASE r.table = "/"
  BY <1>1, <1>4 DEF Route, Refusal
<1>5. CASE r.table # "/" /\ r.table \notin DOMAIN tables
  BY <1>1, <1>5 DEF Route, Refusal
<1>6. CASE r.table # "/" /\ r.table \in DOMAIN tables /\ r.whole
  <2>1. CASE r.method = "GET"
    <3>1. AskOf(r).of = AboutOf("list") /\ r.method = MethodOf("list") /\ "list" \in Statements
      BY <1>6, <2>1 DEF AskOf, AboutOf, MethodOf, Statements
    <3>2. Right(r, Executes("list"))
      BY <1>2, <1>6, <3>1
    <3> QED
      BY <1>6, <2>1, <3>2 DEF Route
  <2>2. CASE r.method # "GET"
    BY <1>1, <1>6, <2>2 DEF Route, Refusal
  <2> QED
    BY <2>1, <2>2
<1>7. CASE r.table # "/" /\ r.table \in DOMAIN tables /\ ~r.whole
  <2>1. ASSUME NEW op \in Statements \ {"list"}
        PROVE  AskOf(r).of = AboutOf(op)
    BY <1>7, <2>1 DEF AskOf, AboutOf
  <2>2. CASE r.method = "GET"
    <3>1. Right(r, Executes("select"))
      BY <1>2, <1>7, <2>1, <2>2 DEF MethodOf, Statements
    <3> QED
      BY <1>3, <1>7, <2>2, <3>1 DEF Route, OfId
  <2>3. CASE r.method = "DELETE"
    <3>1. Right(r, Executes("delete"))
      BY <1>2, <1>7, <2>1, <2>3 DEF MethodOf, Statements
    <3> QED
      BY <1>3, <1>7, <2>3, <3>1 DEF Route, OfId
  <2>4. CASE r.method = "PUT"
    <3>1. InsertAdmits(r.table, r.body) => Right(r, Executes("insert"))
      BY <1>2, <1>7, <2>1, <2>4 DEF MethodOf, Statements
    <3>2. Right(r, OfInsert(r.table, r))
      BY <1>3, <3>1 DEF OfInsert
    <3> QED
      BY <1>7, <2>4, <3>2 DEF Route
  <2>5. CASE r.method = "POST"
    <3>1. UpdateAdmits(r.table, r.body) => Right(r, Executes("update"))
      BY <1>2, <1>7, <2>1, <2>5 DEF MethodOf, Statements
    <3>2. Right(r, OfUpdate(r.table, r))
      BY <1>3, <3>1 DEF OfUpdate
    <3> QED
      BY <1>7, <2>5, <3>2 DEF Route
  <2>6. CASE r.method \notin {"GET", "DELETE", "PUT", "POST"}
    BY <1>1, <1>7, <2>6 DEF Route, Refusal
  <2> QED
    BY <2>2, <2>3, <2>4, <2>5, <2>6
<1> QED
  BY <1>4, <1>5, <1>6, <1>7

\* A refusal is an answer.
LEMMA RefusalsExist ==
  \A r, a : Refusal(r, a) => a # Nothing
BY AnswersExist DEF Refusal, Error, Panicked

\* A request that arrives is refused, or was checked.
LEMMA ReceiveNext ==
  ASSUME Inv, NEW c \in Calls, NEW r \in HttpRequests[c], Receive(c, r)
  PROVE  TablesInv' /\ CallsInv'
<1>1. TablesInv /\ CallsInv
  BY DEF Inv
<1>2. /\ boot = "ready" /\ UNCHANGED <<tables, boot, unread>>
      /\ req' = [req EXCEPT ![c] = r] /\ statement' = [statement EXCEPT ![c] = Route(r).statement]
      /\ response' = [response EXCEPT ![c] = Route(r).response]
  BY DEF Receive
<1>3. TablesInv'
  BY <1>1, <1>2 DEF TablesInv
<1>4. /\ req'[c] = r /\ statement'[c] = Route(r).statement /\ response'[c] = Route(r).response
      /\ statement' \in [Calls -> Statements \cup {"idle", "answered"}]
      /\ DOMAIN req' = Calls /\ DOMAIN response' = Calls
  <2>1. Route(r).statement \in Statements \cup {"idle", "answered"}
    BY RoutedRight DEF Right
  <2> QED
    BY <1>1, <1>2, <2>1 DEF CallsInv
<1>5. CallOf(c)'
  <2>1. /\ statement'[c] = "answered" <=> response'[c] # Nothing
        /\ statement'[c] # "idle"
        /\ statement'[c] \in Statements => /\ r.table \in DOMAIN tables
                                           /\ r.method = MethodOf(statement'[c])
                                           /\ AskOf(r).of = AboutOf(statement'[c])
        /\ statement'[c] = "update" => UpdateAdmits(r.table, r.body)
        /\ statement'[c] = "insert" => InsertAdmits(r.table, r.body)
    BY <1>4, RoutedRight, RefusalsExist DEF Statements, Right
  <2>2. /\ UpdateAdmits(r.table, r.body)' <=> UpdateAdmits(r.table, r.body)
        /\ InsertAdmits(r.table, r.body)' <=> InsertAdmits(r.table, r.body)
    BY <1>2 DEF UpdateAdmits, InsertAdmits, Named
  <2> QED
    BY <1>2, <1>4, <2>1, <2>2 DEF CallOf
<1>6. \A d \in Calls : d # c => CallOf(d)'
  BY <1>1, <1>2 DEF CallsInv, CallOf, UpdateAdmits, InsertAdmits, Named
<1> QED
  BY <1>3, <1>4, <1>5, <1>6 DEF CallsInv
-----------------------------------------------------------------------------
\* A step that leaves the database alone keeps its rows as they are.
LEMMA RowsStay ==
  ASSUME RowsInv, UNCHANGED db
  PROVE  RowsInv'
BY DEF RowsInv, TableFits, RowFits, Keyed, db

\* So does one that changes a table to rows which fit.
LEMMA RowsChange ==
  ASSUME RowsInv, NEW t \in DOMAIN Schema, NEW s, NEW next \in Int,
         rows' = [rows EXCEPT ![t] = s], auto' = [auto EXCEPT ![t] = next],
         \A r \in s : RowFits(t, r, next), Keyed(t, s), IsFiniteSet(s)
  PROVE  RowsInv'
<1>1. DOMAIN rows' = DOMAIN Schema /\ auto' \in [DOMAIN Schema -> Int]
  BY DEF RowsInv
<1>2. rows'[t] = s /\ auto'[t] = next
  BY DEF RowsInv
<1>3. TableFits(t)'
  BY <1>2 DEF TableFits, Keyed, RowFits
<1>4. ASSUME NEW u \in DOMAIN Schema, u # t
      PROVE  TableFits(u)'
  <2>1. rows'[u] = rows[u] /\ auto'[u] = auto[u] /\ TableFits(u)
    BY <1>4 DEF RowsInv
  <2> QED
    BY <2>1 DEF TableFits, Keyed, RowFits
<1> QED
  BY <1>1, <1>3, <1>4 DEF RowsInv

\* What a call that executes a statement knows of its table.
LEMMA TableKnown ==
  ASSUME Inv, NEW c \in Calls, statement[c] \in Statements
  PROVE  /\ Table(c) \in DOMAIN Schema /\ tables[Table(c)] \subseteq Schema[Table(c)]
         /\ TableFits(Table(c)) /\ RowsInv
         /\ KeyOf(Table(c)) \in ColumnNames(Schema[Table(c)])
         /\ \A f \in DOMAIN req[c].body : req[c].body[f].kind = "null" => req[c].body[f] = Null
<1>1. req[c] \in HttpRequests[c] /\ Table(c) \in DOMAIN tables
  BY DEF Inv, CallsInv, CallOf, Table, Statements
<1>2. Table(c) \in DOMAIN Schema /\ tables[Table(c)] \subseteq Schema[Table(c)]
  BY <1>1 DEF Inv, TablesInv
<1>3. TableFits(Table(c)) /\ RowsInv
  BY <1>2 DEF Inv, RowsInv
<1>4. KeyOf(Table(c)) \in ColumnNames(Schema[Table(c)])
  BY <1>2, KeyColumn DEF ColumnNames
<1> QED
  BY <1>1, <1>2, <1>3, <1>4, HttpRequestAssumption

\* A deletion takes rows away.
LEMMA DeleteRows ==
  ASSUME Inv, NEW c \in Calls, NEW heard \in BOOLEAN, statement[c] \in Statements,
         deleteTableContentById(c, heard)
  PROVE  RowsInv'
<1> DEFINE t == Table(c)
           s == rows[t] \ Under(c, Id(c))
<1>1. t \in DOMAIN Schema /\ TableFits(t) /\ RowsInv
  BY TableKnown
<1>2. rows' = [rows EXCEPT ![t] = s] /\ auto' = [auto EXCEPT ![t] = auto[t]]
  BY <1>1 DEF deleteTableContentById, Stores, RowsInv
<1>3. auto[t] \in Int /\ (\A r \in s : RowFits(t, r, auto[t])) /\ Keyed(t, s)
  BY <1>1 DEF TableFits, Keyed
<1>4. IsFiniteSet(s)
  BY <1>1, FS_Subset DEF TableFits
<1> HIDE DEF s, t
<1> QED
  BY <1>1, <1>2, <1>3, <1>4, RowsChange

\* An update keeps the keys, and what it sets fits.
LEMMA UpdateRows ==
  ASSUME Inv, NEW c \in Calls, NEW heard \in BOOLEAN, statement[c] = "update",
         updateTableContent(c, heard)
  PROVE  RowsInv'
<1> DEFINE t == Table(c)
           set == Assigned(t, req[c].body)
           To(r) == [f \in DOMAIN r |-> IF f \in DOMAIN set THEN set[f] ELSE r[f]]
           changed == {To(r) : r \in Under(c, Id(c))}
           s == (rows[t] \ Under(c, Id(c))) \cup changed
<1>1. /\ t \in DOMAIN Schema /\ tables[t] \subseteq Schema[t] /\ TableFits(t) /\ RowsInv
      /\ KeyOf(t) \in ColumnNames(Schema[t])
      /\ \A f \in DOMAIN req[c].body : req[c].body[f].kind = "null" => req[c].body[f] = Null
  BY TableKnown DEF Statements
<1>2. UpdateAdmits(t, req[c].body)
  BY DEF Inv, CallsInv, CallOf, Table
<1>3. CASE set = <<>>
  BY <1>1, <1>3, RowsStay DEF updateTableContent
<1>4. CASE set # <<>>
  <2>1. rows' = [rows EXCEPT ![t] = s] /\ auto' = [auto EXCEPT ![t] = auto[t]]
    BY <1>1, <1>4 DEF updateTableContent, Stores, RowsInv
  <2>2. /\ KeyOf(t) \notin DOMAIN set
        /\ \A f \in DOMAIN set : \A col \in Schema[t] : col.Field = f => Holds(col, set[f])
    BY <1>1, <1>2, AssignedHolds
  <2> HIDE DEF set
  <2>3. ASSUME NEW r \in rows[t]
        PROVE  To(r)[KeyOf(t)] = r[KeyOf(t)] /\ RowFits(t, To(r), auto[t])
    <3>1. RowFits(t, r, auto[t])
      BY <1>1 DEF TableFits
    <3>2. DOMAIN To(r) = ColumnNames(Schema[t])
      BY <3>1 DEF RowFits
    <3>3. To(r)[KeyOf(t)] = r[KeyOf(t)]
      BY <1>1, <2>2, <3>1 DEF RowFits
    <3>4. ASSUME NEW col \in Schema[t]
          PROVE  Holds(col, To(r)[col.Field])
      <4>1. col.Field \in DOMAIN r /\ Holds(col, r[col.Field])
        BY <3>1 DEF RowFits, ColumnNames
      <4> QED
        BY <2>2, <4>1
    <3> HIDE DEF To
    <3> QED
      BY <3>1, <3>2, <3>3, <3>4 DEF RowFits
  <2>4. Under(c, Id(c)) \subseteq rows[t]
    BY DEF Under
  <2> HIDE DEF To
  <2>5. \A r \in s : RowFits(t, r, auto[t])
    BY <1>1, <2>3, <2>4 DEF TableFits
  <2>6. ASSUME NEW r \in s
        PROVE  \E o \in rows[t] : /\ o[KeyOf(t)] = r[KeyOf(t)]
                                  /\ r = IF o \in Under(c, Id(c)) THEN To(o) ELSE o
    BY <2>3, <2>4
  <2>7. Keyed(t, rows[t])
    BY <1>1 DEF TableFits
  <2>8. Keyed(t, s)
    <3> SUFFICES ASSUME NEW r \in s, NEW q \in s, r[KeyOf(t)] = q[KeyOf(t)] PROVE r = q
      BY DEF Keyed
    <3>1. PICK o \in rows[t] : /\ o[KeyOf(t)] = r[KeyOf(t)]
                               /\ r = IF o \in Under(c, Id(c)) THEN To(o) ELSE o
      BY <2>6
    <3>2. PICK p \in rows[t] : /\ p[KeyOf(t)] = q[KeyOf(t)]
                               /\ q = IF p \in Under(c, Id(c)) THEN To(p) ELSE p
      BY <2>6
    <3>3. o = p
      BY <2>7, <3>1, <3>2 DEF Keyed
    <3> QED
      BY <3>1, <3>2, <3>3
  <2>9. auto[t] \in Int
    BY <1>1 DEF TableFits
  <2>10. IsFiniteSet(s)
    <3>1. IsFiniteSet(Under(c, Id(c))) /\ IsFiniteSet(rows[t] \ Under(c, Id(c)))
      BY <1>1, <2>4, FS_Subset DEF TableFits
    <3>2. [r \in Under(c, Id(c)) |-> To(r)] \in Surjection(Under(c, Id(c)), changed)
      BY DEF Surjection
    <3>3. IsFiniteSet(changed)
      BY <3>1, <3>2, FS_Surjection
    <3> QED
      BY <3>1, <3>3, FS_Union
  <2> HIDE DEF s, t
  <2> QED
    BY <1>1, <2>1, <2>5, <2>8, <2>9, <2>10, RowsChange
<1> QED
  BY <1>3, <1>4

\* A creation adds a row that fits, with a key that no other has.
LEMMA CreateRows ==
  ASSUME Inv, NEW c \in Calls, NEW heard \in BOOLEAN, statement[c] = "insert",
         createTableContent(c, heard)
  PROVE  RowsInv'
<1> DEFINE t == Table(c)
           given == Inserted(t, req[c].body)
           id == IF KeyOf(t) \in DOMAIN given THEN given[KeyOf(t)] ELSE Value("number", auto[t])
           new == [f \in ColumnNames(Schema[t]) |->
                     IF f = KeyOf(t) THEN id ELSE IF f \in DOMAIN given THEN given[f] ELSE Null]
           unfilled == {col \in Schema[t] : col.Null = "NO"
                                             /\ col.Field \notin {KeyOf(t)} \cup DOMAIN given}
           next == IF id.value >= auto[t] THEN id.value + 1 ELSE auto[t]
<1>1. /\ t \in DOMAIN Schema /\ tables[t] \subseteq Schema[t] /\ TableFits(t) /\ RowsInv
      /\ KeyOf(t) \in ColumnNames(Schema[t])
      /\ \A f \in DOMAIN req[c].body : req[c].body[f].kind = "null" => req[c].body[f] = Null
  BY TableKnown DEF Statements
<1>2. InsertAdmits(t, req[c].body)
  BY DEF Inv, CallsInv, CallOf, Table
<1>3. CASE Under(c, id) # {} \/ unfilled # {}
  BY <1>1, <1>3, RowsStay DEF createTableContent, KeyOf
<1>4. CASE Under(c, id) = {} /\ unfilled = {}
  <2>1. /\ rows' = [rows EXCEPT ![t] = rows[t] \cup {new}]
        /\ auto' = [auto EXCEPT ![t] = next]
    BY <1>1, <1>4 DEF createTableContent, Stores, KeyOf, RowsInv
  <2>2. \A f \in DOMAIN given :
           /\ f = KeyOf(t) => given[f] = Value("number", 1)
           /\ \A col \in Schema[t] : col.Field = f => Holds(col, given[f])
    BY <1>1, <1>2, InsertedHolds
  <2>3. \A col \in Schema[t] : col.Null \in {"YES", "NO"}
    BY <1>1, SchemaAssumption
  <2> HIDE DEF given
  <2>4. auto[t] \in Int /\ Keyed(t, rows[t]) /\ \A r \in rows[t] : RowFits(t, r, auto[t])
    BY <1>1 DEF TableFits
  <2>5. \E n \in Int : id = Value("number", n)
    BY <2>2, <2>4
  <2>6. id.value \in Int /\ id.kind = "number"
    BY <2>5 DEF Value
  <2>7. new[KeyOf(t)] = id /\ DOMAIN new = ColumnNames(Schema[t])
    BY <1>1
  <2>8. ASSUME NEW col \in Schema[t]
        PROVE  Holds(col, new[col.Field])
    <3>1. col.Field \in ColumnNames(Schema[t])
      BY DEF ColumnNames
    <3>2. CASE col.Field = KeyOf(t)
      <4>1. col.Type = "int"
        BY <1>1, <3>2, KeyColumn
      <4>2. new[col.Field] = id
        BY <2>7, <3>2
      <4> HIDE DEF id, new
      <4> QED
        BY <2>6, <4>1, <4>2 DEF Holds
    <3>3. CASE col.Field # KeyOf(t) /\ col.Field \in DOMAIN given
      BY <2>2, <3>1, <3>3
    <3>4. CASE col.Field # KeyOf(t) /\ col.Field \notin DOMAIN given
      <4>1. new[col.Field] = Null
        BY <3>1, <3>4
      <4>2. col.Null = "YES"
        BY <1>4, <2>3, <3>4
      <4> QED
        BY <4>1, <4>2 DEF Holds
    <3> QED
      BY <3>2, <3>3, <3>4
  <2>9. next \in Int /\ id.value < next /\ auto[t] <= next
    <3> HIDE DEF id
    <3> QED
      BY <2>4, <2>6
  <2>10. \A r \in rows[t] : r[KeyOf(t)] # id
    BY <1>4 DEF Under, KeyOf
  <2> HIDE DEF new, id, next
  <2>11. ASSUME NEW r \in rows[t] \cup {new}
         PROVE  RowFits(t, r, next)
    <3>1. CASE r \in rows[t]
      <4>1. RowFits(t, r, auto[t])
        BY <2>4, <3>1
      <4>2. r[KeyOf(t)].value \in Int /\ r[KeyOf(t)].value < auto[t]
        BY <4>1 DEF RowFits
      <4>3. r[KeyOf(t)].value < next
        BY <2>4, <2>9, <4>2
      <4> QED
        BY <4>1, <4>3 DEF RowFits
    <3>2. CASE r = new
      BY <2>6, <2>7, <2>8, <2>9, <3>2 DEF RowFits
    <3> QED
      BY <3>1, <3>2
  <2>12. Keyed(t, rows[t] \cup {new})
    BY <2>4, <2>7, <2>10 DEF Keyed
  <2>13. IsFiniteSet(rows[t] \cup {new})
    BY <1>1, FS_AddElement DEF TableFits
  <2> HIDE DEF t
  <2> QED
    BY <1>1, <2>1, <2>9, <2>11, <2>12, <2>13, RowsChange
<1> QED
  BY <1>3, <1>4
-----------------------------------------------------------------------------
\* The invariant is kept by every statement.
LEMMA ExecuteNext ==
  ASSUME Inv, NEW c \in Calls, Execute(c)
  PROVE  Inv'
<1>1. statement[c] \in Statements
  BY DEF Execute, Fails, Statements, Inv, CallsInv
<1>2. \E a : a # Nothing /\ Executing(c, a)
  <2>1. /\ \A status : Error(status) # Nothing
        /\ Panicked # Nothing
        /\ \A heard, a : a # Nothing => Heard(heard, a) # Nothing
    BY AnswersExist DEF Error, Panicked, Heard
  <2>2. CASE getTableContent(c)
    BY <2>1, <2>2, AnswersExist DEF getTableContent
  <2>3. CASE Fails(c)
    BY <2>1, <2>3 DEF Fails
  <2>4. ASSUME NEW heard \in BOOLEAN, getTableContents(c, heard)
        PROVE  \E a : a # Nothing /\ Executing(c, a)
    BY <2>1, <2>4, AnswersExist DEF getTableContents
  <2>5. ASSUME NEW heard \in BOOLEAN, deleteTableContentById(c, heard)
        PROVE  \E a : a # Nothing /\ Executing(c, a)
    BY <2>1, <2>5, AnswersExist DEF deleteTableContentById
  <2>6. ASSUME NEW heard \in BOOLEAN, updateTableContent(c, heard)
        PROVE  \E a : a # Nothing /\ Executing(c, a)
    BY <2>1, <2>6, AnswersExist DEF updateTableContent
  <2>7. ASSUME NEW heard \in BOOLEAN, createTableContent(c, heard)
        PROVE  \E a : a # Nothing /\ Executing(c, a)
    BY <2>1, <2>7, AnswersExist DEF createTableContent
  <2> QED
    BY <2>2, <2>3, <2>4, <2>5, <2>6, <2>7 DEF Execute
<1>3. TablesInv' /\ CallsInv'
  BY <1>1, <1>2, ExecutingCall
<1>4. RowsInv
  BY DEF Inv
<1>5. (getTableContent(c) \/ Fails(c) \/ \E heard \in BOOLEAN : getTableContents(c, heard))
         => RowsInv'
  BY <1>4, RowsStay DEF getTableContent, Fails, getTableContents
<1>6. RowsInv'
  BY <1>1, <1>5, DeleteRows, UpdateRows, CreateRows DEF Execute
<1> QED
  BY <1>3, <1>6 DEF Inv

\* The invariant holds for ever.
LEMMA Invariance == ExplorerSpec => []Inv
<1>1. Inv /\ [ExplorerNext]_explorerVars => Inv'
  <2> SUFFICES ASSUME Inv, [ExplorerNext]_explorerVars PROVE Inv'
    OBVIOUS
  <2>1. CASE NewDbExplorer
    <3>1. UNCHANGED db
      BY <2>1 DEF NewDbExplorer, LoadTables, LoadTableInfo, LoadFails
    <3> QED
      BY <2>1, <3>1, BootNext, RowsStay DEF Inv
  <2>2. ASSUME NEW c \in Calls, Execute(c)
        PROVE  Inv'
    BY <2>2, ExecuteNext
  <2>3. ASSUME NEW c \in Calls, NEW r \in HttpRequests[c], Receive(c, r)
        PROVE  Inv'
    BY <2>3, ReceiveNext, RowsStay DEF Inv, Receive
  <2>4. CASE UNCHANGED explorerVars
    <3>1. RowsInv'
      BY <2>4, RowsStay DEF Inv, explorerVars, db
    <3>2. TablesInv'
      BY <2>4 DEF Inv, TablesInv, explorerVars
    <3>3. CallsInv'
      BY <2>4 DEF Inv, CallsInv, CallOf, UpdateAdmits, InsertAdmits, Named, explorerVars
    <3> QED
      BY <3>1, <3>2, <3>3 DEF Inv
  <2> QED
    BY <2>1, <2>2, <2>3, <2>4 DEF ExplorerNext
<1> QED
  BY InvInit, <1>1, PTL DEF ExplorerSpec

\* Whatever the requests, the order of their statements and the failures, every row
\* has a value of the right type in each of its columns and a primary key of its own:
\* only what the handlers checked of the bodies keeps it so.
THEOREM TypeCorrect == ExplorerSpec => []ExplorerTypeOK
<1>1. Inv => ExplorerTypeOK
  BY DEF Inv, TablesInv, RowsInv, TableFits, RowFits, Keyed, CallsInv, CallOf, Statements,
         KeyOf, ExplorerTypeOK
<1> QED
  BY Invariance, <1>1, PTL
-----------------------------------------------------------------------------
\* What TableStore sees of the requests, of the answers and of the tables.
AskedOf == [c \in Calls |-> IF req[c] = Nothing THEN Nothing ELSE AskOf(req[c])]
OutcomeOf == [c \in Calls |-> Documented(c)]
Known == [t \in DOMAIN tables |-> ColumnNames(tables[t])]

\* An answer that hw6.md does not object to.
Plain(a) == a # <<"empty">> /\ (a # Nothing => a[1] \notin {"closed", "cut"})

\* Such are no answer yet, an error and whatever an SQL statement yields.
LEMMA PlainAnswers ==
  /\ Plain(Nothing)
  /\ \A s : Plain(Error(s))
  /\ \A k \in {"tables", "record", "records", "id", "updated", "deleted"} :
       \A x : Plain(<<k, x>>)
BY DEF Plain, Nothing, Error

\* The store sees them as they are.
LEMMA PlainOutcome ==
  ASSUME NEW c \in Calls, Plain(response[c])
  PROVE  Documented(c) = response[c]
BY DEF Plain, Documented, PutIgnored, Broke

\* It sees what becomes of one call at a time.
LEMMA OutcomeChange ==
  ASSUME NEW c \in Calls, \A d \in Calls : d # c => response'[d] = response[d] /\ req'[d] = req[d]
  PROVE  OutcomeOf' = [OutcomeOf EXCEPT ![c] = Documented(c)']
<1>1. \A d \in Calls : d # c => Documented(d)' = Documented(d)
  BY DEF Documented, PutIgnored, Broke
<1> QED
  BY <1>1 DEF OutcomeOf

\* A call that has arrived has asked for something.
LEMMA AskedSomething ==
  \A r : AskOf(r) # Nothing
BY DEF AskOf, Nothing

\* The answer of a call is one of the store, which takes what is cut short and
\* what is not answered at all for an error.
LEMMA AnswerMaps ==
  ASSUME Inv, NEW c \in Calls, NEW a, Executing(c, a)
  PROVE  /\ Plain(a) => Store!Answers(c, a)
         /\ a # Nothing /\ a[1] \in {"closed", "cut"} => Store!Answers(c, Store!Error(500))
<1>1. /\ response' = [response EXCEPT ![c] = a] /\ DOMAIN response = Calls
      /\ UNCHANGED <<tables, req>>
  BY DEF Executing, Inv, CallsInv
<1>2. response'[c] = a
  BY <1>1
<1>3. OutcomeOf' = [OutcomeOf EXCEPT ![c] = Documented(c)']
  BY <1>1, OutcomeChange
<1>4. AskedOf' = AskedOf /\ Known' = Known
  BY <1>1 DEF AskedOf, Known, AskOf
<1>5. Plain(a) => Documented(c)' = a
  BY <1>2 DEF Plain, Documented, PutIgnored, Broke
<1>6. a # Nothing /\ a[1] \in {"closed", "cut"} => Documented(c)' = Store!Error(500)
  BY <1>2 DEF Documented, Broke, Error, Store!Error
<1> QED
  BY <1>3, <1>4, <1>5, <1>6 DEF Store!Answers, OutcomeOf, AskedOf, Known

\* A call that executes a statement asks the store for it.
LEMMA AskingMaps ==
  ASSUME Inv, NEW c \in Calls, statement[c] \in Statements
  PROVE  /\ \A about : AboutOf(statement[c]) \in about =>
                         Store!Asking(c, MethodOf(statement[c]), about)
         /\ AskedOf[c] = AskOf(req[c]) /\ AskedOf[c] # Nothing /\ OutcomeOf[c] = Nothing
<1>1. /\ req[c] \in HttpRequests[c] /\ req[c].method = MethodOf(statement[c])
      /\ response[c] = Nothing /\ AskOf(req[c]).of = AboutOf(statement[c])
  BY DEF Inv, CallsInv, CallOf, Statements
<1>2. req[c] # Nothing
  BY <1>1, HttpRequestAssumption
<1>3. AskedOf[c] = AskOf(req[c])
  BY <1>2 DEF AskedOf
<1>4. AskOf(req[c]).method = req[c].method
  BY DEF AskOf
<1>5. OutcomeOf[c] = Nothing
  BY <1>1, PlainAnswers, PlainOutcome DEF OutcomeOf
<1> QED
  BY <1>1, <1>2, <1>3, <1>4, <1>5, AskedSomething
     DEF Store!Asking, Store!NotAsked, Store!Open, Nothing, AskedOf, OutcomeOf

\* An answer without an effect, a 500 or one that should have been, is the store's
\* giving up.
LEMMA GiveUpMaps ==
  ASSUME Inv, NEW c \in Calls, statement[c] \in Statements, NEW a, Executing(c, a),
         a = Error(500) \/ (a # Nothing /\ a[1] \in {"closed", "cut"}), UNCHANGED db
  PROVE  Store!GiveUp(c)
<1>1. AskedOf[c] # Nothing /\ OutcomeOf[c] = Nothing
  BY AskingMaps
<1>2. Store!Answers(c, Store!Error(500))
  BY AnswerMaps, PlainAnswers DEF Error, Store!Error
<1> QED
  BY <1>1, <1>2
     DEF Store!GiveUp, Store!NotAsked, Store!Open, Nothing, AskedOf, OutcomeOf, db

\* A statement with an effect, heard of or not, is the store's writing.
LEMMA WritesMaps ==
  ASSUME Inv, NEW c \in Calls, NEW a, Plain(a), NEW heard \in BOOLEAN,
         Executing(c, Heard(heard, a))
  PROVE  Store!Writes(c, a)
<1>1. Heard(heard, a) \in {a, Store!Error(500)}
  BY DEF Heard, Error, Store!Error
<1>2. Plain(Heard(heard, a))
  BY PlainAnswers DEF Heard
<1>3. Store!Answers(c, Heard(heard, a))
  BY <1>2, AnswerMaps
<1> QED
  BY <1>1, <1>3 DEF Store!Writes

\* Both mean the same rows by an id.
LEMMA UnderMaps ==
  ASSUME NEW c \in Calls, NEW id
  PROVE  Store!Under(Table(c), id) = Under(c, id)
BY DEF Store!Under, Under

\* What was asked for.
LEMMA AskedParts ==
  ASSUME NEW c \in Calls
  PROVE  LET a == AskOf(req[c])
         IN  /\ a.table = Table(c) /\ a.id = Id(c)
             /\ a.body = [f \in DOMAIN req[c].body |-> Cast(req[c].body[f])]
             /\ a.limit = Atoi(req[c].limit, 5) /\ a.offset = Atoi(req[c].offset, 0)
BY DEF AskOf, Table, Id

\* Rows that fit are records that fit.
LEMMA FittingMaps ==
  ASSUME NEW t \in DOMAIN Schema, NEW r, NEW next, RowFits(t, r, next)
  PROVE  Store!Fitting(t, r)
BY DEF RowFits, ColumnNames, Store!Fitting

\* A deletion removes.
LEMMA RemoveMaps ==
  ASSUME Inv, NEW c \in Calls, NEW heard \in BOOLEAN, statement[c] = "delete",
         deleteTableContentById(c, heard)
  PROVE  Store!Remove(c)
<1>1. Store!Asking(c, "DELETE", {"record"}) /\ AskedOf[c] = AskOf(req[c])
  BY AskingMaps DEF Statements, MethodOf, AboutOf
<1>2. Store!Writes(c, <<"deleted", Cardinality(Under(c, Id(c)))>>)
  BY WritesMaps, PlainAnswers DEF deleteTableContentById
<1>3. rows' = [rows EXCEPT ![Table(c)] = rows[Table(c)] \ Under(c, Id(c))]
  BY DEF deleteTableContentById, Stores
<1>4. Store!Under(Table(c), Id(c)) = Under(c, Id(c))
  BY UnderMaps
<1>5. AskedOf[c].table = Table(c) /\ AskedOf[c].id = Id(c)
  BY <1>1, AskedParts
<1> QED
  BY <1>1, <1>2, <1>3, <1>4, <1>5 DEF Store!Remove, Store!Becomes, AskedOf

\* An update changes.
LEMMA ChangeMaps ==
  ASSUME Inv, RowsInv', NEW c \in Calls, NEW heard \in BOOLEAN, statement[c] = "update",
         updateTableContent(c, heard)
  PROVE  Store!Change(c) \/ Store!GiveUp(c)
<1> DEFINE t == Table(c)
           body == [f \in DOMAIN req[c].body |-> Cast(req[c].body[f])]
           set == Assigned(t, req[c].body)
           To(r) == [f \in DOMAIN r |-> IF f \in DOMAIN set THEN set[f] ELSE r[f]]
           changed == {To(r) : r \in Under(c, Id(c))}
           As(r) == [f \in ColumnNames(Schema[t]) |->
                       IF Store!Told(t, f) /\ f \in DOMAIN body THEN body[f] ELSE r[f]]
           s == (rows[t] \ Under(c, Id(c))) \cup changed
<1>1. /\ t \in DOMAIN Schema /\ tables[t] \subseteq Schema[t] /\ TableFits(t)
      /\ \A f \in DOMAIN req[c].body : req[c].body[f].kind = "null" => req[c].body[f] = Null
      /\ t \in DOMAIN tables /\ UpdateAdmits(t, req[c].body)
  BY TableKnown DEF Statements, Inv, CallsInv, CallOf, Table
<1>2. CASE set = <<>>
  <2>1. Executing(c, Error(500)) /\ UNCHANGED db
    BY <1>2 DEF updateTableContent
  <2> QED
    BY <2>1, GiveUpMaps DEF Statements
<1>3. CASE set # <<>>
  <2>1. /\ Executing(c, Heard(heard, <<"updated", Cardinality(changed \ rows[t])>>))
        /\ rows' = [rows EXCEPT ![t] = s]
    BY <1>3 DEF updateTableContent, Stores
  <2>2. Store!Asking(c, "POST", {"record"}) /\ AskedOf[c] = AskOf(req[c])
    BY AskingMaps DEF Statements, MethodOf, AboutOf
  <2>3. AskedOf[c].table = t /\ AskedOf[c].id = Id(c) /\ AskedOf[c].body = body
    BY <2>2, AskedParts
  <2>4. Store!Under(t, Id(c)) = Under(c, Id(c)) /\ Under(c, Id(c)) \subseteq rows[t]
    BY UnderMaps DEF Under
  <2>5. /\ DOMAIN set = {f \in ColumnNames(tables[t]) : f \in DOMAIN body}
        /\ \A f \in DOMAIN set : set[f] = body[f]
    BY DEF Assigned, ColumnNames, Named
  <2>6. \A f : Store!Told(t, f) <=> f # KeyOf(t) /\ f \in ColumnNames(tables[t])
    BY <1>1 DEF Store!Told, KeyOf
  <2>7. KeyOf(t) \notin DOMAIN set
    BY <1>1, AssignedHolds
  <2> HIDE DEF set, body
  <2>8. ASSUME NEW r \in Under(c, Id(c))
        PROVE  As(r) = To(r)
    <3>1. DOMAIN r = ColumnNames(Schema[t])
      BY <1>1, <2>4 DEF TableFits, RowFits
    <3>2. \A f : Store!Told(t, f) /\ f \in DOMAIN body <=> f \in DOMAIN set
      BY <2>5, <2>6, <2>7
    <3> QED
      BY <2>5, <3>1, <3>2
  <2> HIDE DEF To, As
  <2>9. {As(r) : r \in Under(c, Id(c))} = changed
    BY <2>8
  <2>10. \A r \in changed : Store!Fitting(t, r)
    <3>1. rows'[t] = s
      BY <1>1, <2>1 DEF Inv, RowsInv
    <3>2. \A r \in s : RowFits(t, r, auto'[t])
      BY <1>1, <3>1 DEF RowsInv, TableFits, RowFits, KeyOf
    <3> QED
      BY <1>1, <3>2, FittingMaps
  <2> HIDE DEF changed
  <2>11. Store!Writes(c, <<"updated", Cardinality(changed \ rows[t])>>)
    BY <2>1, WritesMaps, PlainAnswers
  <2>12. Store!Becomes(t, s)
    BY <2>1 DEF Store!Becomes
  <2>13. Store!Change(c)
    <3> DEFINE a == AskedOf[c]
    <3> HIDE DEF t
    <3>1. Store!Under(a.table, a.id) = Under(c, Id(c))
      BY <2>3, <2>4
    <3>2. {[f \in ColumnNames(Schema[a.table]) |->
              IF Store!Told(a.table, f) /\ f \in DOMAIN a.body THEN a.body[f] ELSE r[f]] :
             r \in Store!Under(a.table, a.id)} = changed
      BY <2>3, <2>9, <3>1 DEF As
    <3> QED
      BY <2>2, <2>3, <2>10, <2>11, <2>12, <3>1, <3>2 DEF Store!Change, AskedOf
  <2> QED
    BY <2>13
<1> QED
  BY <1>2, <1>3

\* A creation creates.
LEMMA CreateMaps ==
  ASSUME Inv, RowsInv', NEW c \in Calls, NEW heard \in BOOLEAN, statement[c] = "insert",
         createTableContent(c, heard)
  PROVE  Store!Create(c) \/ Store!GiveUp(c)
<1> DEFINE t == Table(c)
           body == [f \in DOMAIN req[c].body |-> Cast(req[c].body[f])]
           given == Inserted(t, req[c].body)
           id == IF KeyOf(t) \in DOMAIN given THEN given[KeyOf(t)] ELSE Value("number", auto[t])
           new == [f \in ColumnNames(Schema[t]) |->
                     IF f = KeyOf(t) THEN id ELSE IF f \in DOMAIN given THEN given[f] ELSE Null]
           unfilled == {col \in Schema[t] : col.Null = "NO"
                                             /\ col.Field \notin {KeyOf(t)} \cup DOMAIN given}
<1>1. /\ t \in DOMAIN Schema /\ tables[t] \subseteq Schema[t] /\ t \in DOMAIN tables
      /\ KeyOf(t) \in ColumnNames(Schema[t])
  BY TableKnown DEF Statements, Inv, CallsInv, CallOf, Table
<1>2. CASE Under(c, id) # {} \/ unfilled # {}
  <2>1. Executing(c, Error(500)) /\ UNCHANGED db
    BY <1>2 DEF createTableContent, KeyOf
  <2> QED
    BY <2>1, GiveUpMaps DEF Statements
<1>3. CASE Under(c, id) = {} /\ unfilled = {}
  <2>1. Executing(c, Heard(heard, <<"id", id>>)) /\ rows' = [rows EXCEPT ![t] = rows[t] \cup {new}]
    BY <1>3 DEF createTableContent, Stores, KeyOf
  <2>2. Store!Asking(c, "PUT", {"table", "record"}) /\ AskedOf[c] = AskOf(req[c])
    BY AskingMaps DEF Statements, MethodOf, AboutOf
  <2>3. AskedOf[c].table = t /\ AskedOf[c].body = body
    BY <2>2, AskedParts
  <2>4. ASSUME NEW f \in DOMAIN body, Store!Told(t, f)
        PROVE  /\ f \in DOMAIN given /\ given[f] = body[f]
               /\ f # KeyOf(t) /\ f \in ColumnNames(Schema[t])
    <3>1. f # KeyOf(t) /\ f \in ColumnNames(tables[t]) /\ f \in DOMAIN req[c].body
      BY <1>1, <2>4 DEF Store!Told, KeyOf
    <3>2. f # IdColumn(tables[t])
      <4>1. f # ""
        <5>1. PICK col \in tables[t] : col.Field = f
          BY <3>1 DEF ColumnNames
        <5>2. \A other \in Schema[t] : other.Field # ""
          BY <1>1, SchemaAssumption
        <5>3. col.Field # ""
          BY <1>1, <5>2
        <5> QED
          BY <5>1, <5>3
      <4>2. IdColumn(tables[t]) \in {KeyOf(t), ""}
        BY <1>1, KnownKey
      <4> QED
        BY <3>1, <4>1, <4>2
    <3>3. f \in ColumnNames(Named(t, req[c].body)) \ {IdColumn(tables[t])}
      BY <3>1, <3>2 DEF ColumnNames, Named
    <3>4. f \in DOMAIN given /\ given[f] = Cast(req[c].body[f])
      BY <3>3 DEF Inserted
    <3>5. f \in ColumnNames(Schema[t])
      BY <1>1, <3>1 DEF ColumnNames
    <3> HIDE DEF given
    <3> QED
      BY <3>1, <3>4, <3>5
  <2> HIDE DEF given, body
  <2>5. \A f \in DOMAIN body : Store!Told(t, f) => new[f] = body[f]
    BY <2>4
  <2>6. new[KeyOf(t)] = id
    BY <1>1
  <2>7. Store!Under(t, id) = {} /\ new \notin rows[t]
    BY <1>3, <2>6, UnderMaps DEF Under, KeyOf
  <2> HIDE DEF id, new
  <2>8. rows'[t] = rows[t] \cup {new}
    BY <1>1, <2>1 DEF Inv, RowsInv
  <2>9. Store!Fitting(t, new)
    <3>1. RowFits(t, new, auto'[t])
      BY <1>1, <2>8 DEF RowsInv, TableFits, RowFits, KeyOf
    <3> QED
      BY <1>1, <3>1, FittingMaps
  <2>10. Store!Writes(c, <<"id", id>>)
    BY <2>1, WritesMaps, PlainAnswers
  <2>11. new \in rows'[t] \ rows[t] /\ Store!Becomes(t, rows[t] \cup {new})
    BY <2>1, <2>7, <2>8 DEF Store!Becomes
  <2>12. Store!Create(c)
    <3> HIDE DEF t
    <3> QED
      BY <2>2, <2>3, <2>5, <2>6, <2>7, <2>9, <2>10, <2>11 DEF Store!Create, AskedOf, KeyOf
  <2> QED
    BY <2>12
<1> QED
  BY <1>2, <1>3

\* A read of one record shows it.
LEMMA RecordMaps ==
  ASSUME Inv, NEW c \in Calls, statement[c] = "select", getTableContent(c)
  PROVE  Store!Show(c) \/ Store!GiveUp(c)
<1> DEFINE found == Under(c, Id(c))
           r == CHOOSE r \in found : TRUE
<1>1. UNCHANGED db
  BY DEF getTableContent
<1>2. Store!Asking(c, "GET", {"record"}) /\ AskedOf[c] = AskOf(req[c])
  BY AskingMaps DEF Statements, MethodOf, AboutOf
<1>3. AskedOf[c].table = Table(c) /\ AskedOf[c].id = Id(c)
  BY <1>2, AskedParts
<1>4. Store!Under(AskedOf[c].table, AskedOf[c].id) = found
  BY <1>3, UnderMaps
<1>5. CASE found = {}
  <2>1. Executing(c, Error(404))
    BY <1>5 DEF getTableContent
  <2>2. Store!Answers(c, Store!Error(404))
    BY <2>1, AnswerMaps, PlainAnswers DEF Error, Store!Error
  <2> HIDE DEF found
  <2> QED
    BY <1>1, <1>2, <1>4, <1>5, <2>2 DEF Store!Show, AskedOf, db
<1>6. CASE found # {} /\ Scans(c, r)
  <2>1. Executing(c, <<"record", r>>) /\ r \in found
    BY <1>6 DEF getTableContent
  <2>2. Store!Answers(c, <<"record", r>>)
    BY <2>1, AnswerMaps, PlainAnswers
  <2> HIDE DEF r, found
  <2> QED
    BY <1>1, <1>2, <1>4, <2>1, <2>2 DEF Store!Show, AskedOf, db
<1>7. CASE found # {} /\ ~Scans(c, r)
  <2>1. Executing(c, Error(500))
    BY <1>7 DEF getTableContent
  <2> QED
    BY <1>1, <2>1, GiveUpMaps DEF Statements
<1> QED
  BY <1>5, <1>6, <1>7

\* A list is whole, or counts as an error.
LEMMA RecordsMap ==
  ASSUME Inv, NEW c \in Calls, NEW heard \in BOOLEAN, statement[c] = "list",
         getTableContents(c, heard)
  PROVE  Store!List(c) \/ Store!GiveUp(c)
<1> DEFINE t == Table(c)
           limit == Atoi(req[c].limit, 5)
           offset == Atoi(req[c].offset, 0)
           left == Cardinality(rows[t]) - offset
           size == IF left < 0 THEN 0 ELSE IF left < limit THEN left ELSE limit
<1>1. UNCHANGED db
  BY DEF getTableContents
<1>2. Store!Asking(c, "GET", {"table"}) /\ AskedOf[c] = AskOf(req[c])
  BY AskingMaps DEF Statements, MethodOf, AboutOf
<1>3. AskedOf[c].table = Table(c) /\ AskedOf[c].limit = limit /\ AskedOf[c].offset = offset
  BY <1>2, AskedParts
<1>4. PICK page \in SUBSET rows[t] :
           /\ IF heard THEN Cardinality(page) = size ELSE Cardinality(page) < size
           /\ Executing(c, IF \A r \in page : Scans(c, r)
                           THEN <<IF heard THEN "records" ELSE "cut", page>> ELSE Error(500))
  BY DEF getTableContents
<1>5. CASE heard /\ \A r \in page : Scans(c, r)
  <2>1. limit \in Nat /\ offset \in Nat
    <3>1. req[c].limit \subseteq Nat /\ req[c].offset \subseteq Nat
      BY HttpRequestAssumption DEF Inv, CallsInv, CallOf
    <3> QED
      BY <3>1 DEF Atoi
  <2>2. Cardinality(rows[t]) \in Nat
    BY TableKnown, FS_CardinalityType DEF TableFits, Statements
  <2>3. Store!Answers(c, <<"records", page>>)
    BY <1>4, <1>5, AnswerMaps, PlainAnswers
  <2> HIDE DEF limit, offset, t
  <2> DEFINE rest == IF offset < Cardinality(rows[t]) THEN Cardinality(rows[t]) - offset ELSE 0
  <2>4. Cardinality(page) = IF rest < limit THEN rest ELSE limit
    BY <1>4, <1>5, <2>1, <2>2
  <2> HIDE DEF rest
  <2>5. t = AskedOf[c].table /\ limit = AskedOf[c].limit /\ offset = AskedOf[c].offset
    BY <1>3 DEF t
  <2>6. Store!List(c)
    BY <1>1, <1>2, <1>4, <2>3, <2>4, <2>5 DEF Store!List, AskedOf, db, rest
  <2> QED
    BY <2>6
<1>6. CASE ~heard /\ \A r \in page : Scans(c, r)
  <2>1. Executing(c, <<"cut", page>>) /\ <<"cut", page>>[1] = "cut"
    BY <1>4, <1>6
  <2>2. <<"cut", page>> # Nothing
    BY AnswersExist
  <2> QED
    BY <1>1, <2>1, <2>2, GiveUpMaps DEF Statements
<1>7. CASE ~\A r \in page : Scans(c, r)
  <2>1. Executing(c, Error(500))
    BY <1>4, <1>7
  <2> QED
    BY <1>1, <2>1, GiveUpMaps DEF Statements
<1> QED
  BY <1>5, <1>6, <1>7

\* A request arrives, and is refused or left open.
LEMMA ArriveMaps ==
  ASSUME Inv, NEW c \in Calls, NEW r \in HttpRequests[c], Receive(c, r)
  PROVE  Store!Arrive(c)
<1> DEFINE a == Route(r).response
           ask == AskOf(r)
           Outcome(o) == OutcomeOf' = [OutcomeOf EXCEPT ![c] = o]
<1>1. req[c] = Nothing /\ DOMAIN req = Calls /\ DOMAIN response = Calls /\ r # Nothing
  BY HttpRequestAssumption DEF Inv, CallsInv, CallOf, Receive
<1>2. /\ req' = [req EXCEPT ![c] = r] /\ response' = [response EXCEPT ![c] = a]
      /\ UNCHANGED <<tables, rows>>
  BY DEF Receive, db
<1>3. AskedOf[c] = Store!NotAsked
  BY <1>1 DEF AskedOf, Store!NotAsked, Nothing
<1>4. AskedOf' = [AskedOf EXCEPT ![c] = ask]
  <2>1. \A d \in Calls : AskOf(req[d])' = AskOf(req'[d])
    BY DEF AskOf
  <2> QED
    BY <1>1, <1>2, <2>1 DEF AskedOf
<1>5. ask \in {AskOf(q) : q \in UNION {HttpRequests[d] : d \in Calls}}
  OBVIOUS
<1>6. Known' = Known /\ DOMAIN Known = DOMAIN tables
  BY <1>2 DEF Known
<1>7. response'[c] = a /\ req'[c] = r
  BY <1>1, <1>2
<1>8. Outcome(Documented(c)')
  BY <1>1, <1>2, OutcomeChange
<1>9. Right(r, Route(r))
  BY RoutedRight
<1>10. ask.method = r.method /\ ask.table = r.table
       /\ ask.of = IF r.table = "/" THEN "tables" ELSE IF r.whole THEN "table" ELSE "record"
  BY DEF AskOf
<1>11. Plain(a) => Outcome(a)
  BY <1>7, <1>8 DEF Plain, Documented, PutIgnored, Broke
<1> HIDE DEF a, Outcome, ask
<1>12. \/ Outcome(Store!Open)
       \/ \E status \in {400, 500} : Outcome(Store!Error(status))
       \/ ask.table \notin DOMAIN Known /\ Outcome(Store!Error(404))
       \/ ask.of = "tables" /\ Outcome(<<"tables", DOMAIN Known>>)
       \/ ~Store!Named(ask) /\ Outcome(<<"empty">>)
  <2>1. CASE a = Nothing
    BY <1>11, <2>1, PlainAnswers DEF Store!Open, Nothing
  <2>2. CASE a \in {Error(400), Error(500)}
    BY <1>11, <2>2, PlainAnswers DEF Error, Store!Error
  <2>3. CASE a = Panicked
    <3>1. Documented(c)' = Store!Error(500)
      BY <1>7, <2>3 DEF Documented, Broke, Panicked, Nothing, Error, Store!Error
    <3> QED
      BY <1>8, <3>1
  <2>4. CASE a = Error(404) /\ r.table \notin DOMAIN tables
    BY <1>6, <1>10, <1>11, <2>4, PlainAnswers DEF Error, Store!Error
  <2>5. CASE a = <<"tables", DOMAIN tables>> /\ r.table = "/"
    BY <1>6, <1>10, <1>11, <2>5, PlainAnswers
  <2>6. CASE /\ a = <<"empty">> /\ r.table # "/"
             /\ \/ r.method \notin {"GET", "PUT", "POST", "DELETE"}
                \/ r.whole /\ r.method # "GET"
    <3>1. CASE r.method = "PUT"
      <4>1. Documented(c)' = Store!Error(500)
        BY <1>7, <2>6, <3>1 DEF Documented, PutIgnored, Error, Store!Error
      <4> QED
        BY <1>8, <4>1
    <3>2. CASE r.method # "PUT"
      <4>1. Documented(c)' = <<"empty">>
        BY <1>7, <2>6, <3>2 DEF Documented, PutIgnored, Broke
      <4>2. ~Store!Named(ask)
        BY <1>10, <2>6, <3>2 DEF Store!Named
      <4> QED
        BY <1>8, <4>1, <4>2
    <3> QED
      BY <3>1, <3>2
  <2> QED
    BY <1>9, <2>1, <2>2, <2>3, <2>4, <2>5, <2>6 DEF Right, Refusal, a
<1> QED
  BY <1>2, <1>3, <1>4, <1>5, <1>6, <1>12
     DEF Store!Arrive, AskedOf, OutcomeOf, Known, Outcome

\* What NewDbExplorer reads becomes known before a call arrives.
LEMMA LearnMaps ==
  ASSUME Inv, TablesInv', NewDbExplorer
  PROVE  Store!Learn
<1>1. boot # "ready" /\ UNCHANGED <<rows, req, response>>
  BY DEF NewDbExplorer, LoadTables, LoadTableInfo, LoadFails, db
<1>2. \A c \in Calls : req[c] = Nothing
  BY <1>1 DEF Inv, CallsInv, CallOf
<1>3. \A c \in Calls : AskedOf[c] = Store!NotAsked
  BY <1>2 DEF AskedOf, Store!NotAsked, Nothing
<1>4. AskedOf' = AskedOf /\ OutcomeOf' = OutcomeOf
  BY <1>1 DEF AskedOf, AskOf, OutcomeOf, Documented, PutIgnored, Broke
<1>5. /\ DOMAIN Known' \subseteq DOMAIN Schema
      /\ \A t \in DOMAIN Known' : Known'[t] \subseteq ColumnNames(Schema[t])
  BY DEF TablesInv, Known, ColumnNames
<1> QED
  BY <1>1, <1>3, <1>4, <1>5 DEF Store!Learn, AskedOf, OutcomeOf, Known

\* Whatever the requests, the order of their statements and the failures, every step
\* of the explorer is a step of TableStore: each call takes effect at most once and an
\* answer other than an error tells what it did.
THEOREM StoreRefinement == ExplorerSpec => ImplementsTableStore
<1>1. ExplorerInit => Store!StoreInit
  <2> SUFFICES ASSUME ExplorerInit PROVE Store!StoreInit
    OBVIOUS
  <2>1. \A c \in Calls : Documented(c) = Nothing
    BY PlainAnswers, PlainOutcome DEF ExplorerInit
  <2> QED
    BY <2>1 DEF ExplorerInit, Store!StoreInit, Nothing, Store!NotAsked, Store!Open
<1>2. Inv /\ Inv' /\ [ExplorerNext]_explorerVars => [Store!StoreNext]_(Store!storeVars)
  <2> SUFFICES ASSUME Inv, Inv', [ExplorerNext]_explorerVars
               PROVE  [Store!StoreNext]_(Store!storeVars)
    OBVIOUS
  <2>1. CASE NewDbExplorer
    BY <2>1, LearnMaps DEF Store!StoreNext, Inv
  <2>2. ASSUME NEW c \in Calls, Execute(c)
        PROVE  Store!StoreNext
    <3>1. CASE statement[c] = "select" /\ getTableContent(c)
      BY <3>1, RecordMaps DEF Store!StoreNext
    <3>2. CASE \E heard \in BOOLEAN : statement[c] = "list" /\ getTableContents(c, heard)
      BY <3>2, RecordsMap DEF Store!StoreNext
    <3>3. CASE \E heard \in BOOLEAN : statement[c] = "delete" /\ deleteTableContentById(c, heard)
      BY <3>3, RemoveMaps DEF Store!StoreNext
    <3>4. CASE \E heard \in BOOLEAN : statement[c] = "update" /\ updateTableContent(c, heard)
      BY <3>4, ChangeMaps DEF Store!StoreNext, Inv
    <3>5. CASE \E heard \in BOOLEAN : statement[c] = "insert" /\ createTableContent(c, heard)
      BY <3>5, CreateMaps DEF Store!StoreNext, Inv
    <3>6. CASE Fails(c)
      <4>1. statement[c] \in Statements /\ UNCHANGED db
        BY <3>6 DEF Fails, Statements, Inv, CallsInv
      <4>2. Executing(c, Panicked) \/ Executing(c, Error(500))
        BY <3>6 DEF Fails
      <4>3. Panicked # Nothing /\ Panicked[1] = "closed"
        BY DEF Panicked, Nothing
      <4>4. Store!GiveUp(c)
        BY <4>1, <4>2, <4>3, GiveUpMaps
      <4> QED
        BY <4>4 DEF Store!StoreNext
    <3> QED
      BY <2>2, <3>1, <3>2, <3>3, <3>4, <3>5, <3>6 DEF Execute
  <2>3. ASSUME NEW c \in Calls, NEW r \in HttpRequests[c], Receive(c, r)
        PROVE  Store!StoreNext
    BY <2>3, ArriveMaps DEF Store!StoreNext
  <2>4. CASE UNCHANGED explorerVars
    <3>1. UNCHANGED <<rows, OutcomeOf, AskedOf, Known>>
      BY <2>4 DEF explorerVars, db, AskedOf, Known, AskOf, OutcomeOf, Documented, PutIgnored,
                  Broke
    <3> QED
      BY <3>1 DEF Store!storeVars, AskedOf, OutcomeOf, Known
  <2> QED
    BY <2>1, <2>2, <2>3, <2>4 DEF ExplorerNext
<1> QED
  BY <1>1, <1>2, Invariance, PTL DEF ExplorerSpec, ImplementsTableStore, Store!StoreSpec
=============================================================================
