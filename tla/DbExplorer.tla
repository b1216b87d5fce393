---------------------------- MODULE DbExplorer ----------------------------
(***************************************************************************)
(* The database explorer of hw6_db_explorer.  NewDbExplorer reads the      *)
(* tables and their columns; after that every request is served by a       *)
(* goroutine of its own, which checks it and executes at most one SQL      *)
(* statement.  The database is external: it executes a statement in one    *)
(* step, fills the AUTO_INCREMENT primary key and refuses a second record  *)
(* with the same one, and an INSERT that leaves out a NOT NULL column.  It *)
(* is not assumed to check the values it is given, so that what keeps the  *)
(* records to their columns is the code of the explorer.                   *)
(***************************************************************************)
EXTENDS Integers, FiniteSets

CONSTANTS Calls,     \* HTTP requests, each served once
          HttpRequests, \* what the client of each call may send
          Schema,    \* the tables of the database: table -> set of columns
          FirstRows, \* their rows before the explorer starts
          TornTables, \* what SHOW TABLES may yield when the connection breaks
          TornInfos   \* and SHOW FULL COLUMNS: table -> set of sets of columns

\* Every table has a primary key of one column of type int, and its columns
\* have names of their own.
ASSUME SchemaAssumption ==
  /\ Schema # <<>>
  /\ \A t \in DOMAIN Schema :
       /\ \E key \in Schema[t] : {col \in Schema[t] : col.Key = "PRI"} = {key}
       /\ \A col \in Schema[t] : /\ col.Field # "" /\ col.Null \in {"YES", "NO"}
                                 /\ col.Key = "PRI" => col.Type = "int" /\ col.Null = "NO"
       /\ \A col, other \in Schema[t] : col.Field = other.Field => col = other
       /\ \A infos \in TornInfos[t] : infos \subseteq Schema[t]
  /\ \A seen \in TornTables : seen \subseteq DOMAIN Schema

VARIABLES tables,    \* server.Tables: table -> its TableInfo
          boot,      \* NewDbExplorer: "tables", "infos", "ready", "failed" or "panic"
          unread,    \* the tables whose columns it has still to read
          rows,      \* the database: table -> set of rows
          auto,      \* the next AUTO_INCREMENT value of each table
          statement, \* the statement that each call executes next
          req,       \* its request
          response   \* the status and body of its response

db == <<rows, auto>>
explorerVars == <<tables, boot, unread, rows, auto, statement, req, response>>
-----------------------------------------------------------------------------
(***************************************************************************)
(* Values, as JSON and the database hold them, and columns.  A body that   *)
(* is not a JSON object is BadBody, and a fraction has the value that is   *)
(* left of it without its decimals.                                        *)
(***************************************************************************)

Value(k, v) == [kind |-> k, value |-> v]
Null == Value("null", 0)
BadBody == [syntax |-> Value("error", 0)]
Nothing == <<>>

Column(f, type, null, key) == [Field |-> f, Type |-> type, Null |-> null, Key |-> key]

IdColumn(infos) ==
  IF \E col \in infos : col.Key = "PRI" THEN (CHOOSE col \in infos : col.Key = "PRI").Field ELSE ""
ColumnNames(infos) == {col.Field : col \in infos}

MaxId(s, key) == CHOOSE n \in {r[key].value : r \in s} \cup {0} :
                   \A r \in s : r[key].value <= n

ExplorerInit ==
  /\ tables = <<>>
  /\ boot = "tables"
  /\ unread = {}
  /\ rows = FirstRows
  /\ auto = [t \in DOMAIN Schema |-> MaxId(FirstRows[t], IdColumn(Schema[t])) + 1]
  /\ statement = [c \in Calls |-> "idle"]
  /\ req = [c \in Calls |-> Nothing]
  /\ response = [c \in Calls |-> Nothing]
-----------------------------------------------------------------------------
(***************************************************************************)
(* NewDbExplorer.                                                          *)
(***************************************************************************)

\* SHOW TABLES, with no columns yet.  rows.Err() is not looked at: when the rows
\* stop coming, those that came are the tables.
LoadTables ==
  /\ boot = "tables"
  /\ unread' \in {DOMAIN Schema} \cup TornTables
  /\ tables' = [t \in unread' |-> {}]
  /\ boot' = IF unread' = {} THEN "ready" ELSE "infos"
  /\ UNCHANGED <<db, statement, req, response>>

\* SHOW FULL COLUMNS, in the order in which range yields the tables; of these rows,
\* too, some may be missing.
LoadTableInfo(t) ==
  /\ boot = "infos"
  /\ t \in unread
  /\ \E infos \in {Schema[t]} \cup TornInfos[t] : tables' = [tables EXCEPT ![t] = infos]
  /\ unread' = unread \ {t}
  /\ boot' = IF unread' = {} THEN "ready" ELSE boot
  /\ UNCHANGED <<db, statement, req, response>>

\* A query or a Scan fails.  loadTableInfo defers rows.Close() before it looks
\* at the error of its query, when rows is nil.
LoadFails ==
  /\ boot \in {"tables", "infos"}
  /\ boot' \in {"failed"} \cup (IF boot = "infos" THEN {"panic"} ELSE {})
  /\ UNCHANGED <<tables, unread, db, statement, req, response>>
-----------------------------------------------------------------------------
(***************************************************************************)
(* What the handlers check.  The operators named ...Slip are the code with *)
(* one plausible mistake each; no specification uses them.                 *)
(***************************************************************************)

FitsSlip(col, v) ==
  IF col.Type = "int" THEN v.kind \in {"number", "fraction"}
  ELSE v.kind \in {"string", "null"}

\* A column of type int takes no null, whether it is nullable or not.
Fits(col, v) ==
  IF col.Type = "int" THEN v.kind \in {"number", "fraction"}
  ELSE v.kind = "string" \/ (v.kind = "null" /\ col.Null = "YES")

\* int(val) of a float64 cuts the decimals off.
Cast(v) == IF v.kind = "fraction" THEN Value("number", v.value) ELSE v

\* The columns of the table that the body names; other names are ignored.
Named(t, body) == {col \in tables[t] : col.Field \in DOMAIN body}

UpdateAdmits(t, body) ==
  \A col \in Named(t, body) :
    col.Field # IdColumn(tables[t]) /\ Fits(col, body[col.Field])

InsertAdmits(t, body) ==
  \A col \in Named(t, body) : col.Field # IdColumn(tables[t]) => Fits(col, body[col.Field])

AssignedSlip(t, body) ==
  [f \in {g \in ColumnNames(Named(t, body)) : body[g] # Null} |-> Cast(body[f])]

\* What UPDATE sets.
Assigned(t, body) == [f \in ColumnNames(Named(t, body)) |-> Cast(body[f])]

\* What INSERT gives: what the body names except the primary key, and a value
\* for every NOT NULL column it does not name, the primary key included.
Inserted(t, body) ==
  LET named == ColumnNames(Named(t, body)) \ {IdColumn(tables[t])}
      default == {col \in tables[t] \ Named(t, body) : col.Null = "NO"}
      Default(f) == IF \E col \in default : col.Field = f /\ col.Type = "int"
                    THEN Value("number", 1) ELSE Value("string", "")
  IN  [f \in named \cup ColumnNames(default) |-> IF f \in named THEN Cast(body[f]) ELSE Default(f)]

\* strconv.Atoi of a text, given the set of the numbers it denotes.
Atoi(ints, default) == IF ints = {} THEN default ELSE CHOOSE n \in ints : TRUE
-----------------------------------------------------------------------------
(***************************************************************************)
(* ServeHTTP: a request is answered at once, or executes a statement.      *)
(***************************************************************************)

\* An error has its status; the others are 200, what they hold and its name.
Error(status) == <<"error", status>>
Panicked == <<"closed">>  \* a panic: net/http closes the connection

Answered(a) == [statement |-> "answered", response |-> a]
Executes(op) == [statement |-> op, response |-> Nothing]

OfUpdate(t, r) ==
  CASE r.id = {} -> Answered(Error(400))
    [] r.id # {} /\ r.body = BadBody -> Answered(Error(500))
    [] r.id # {} /\ r.body # BadBody ->
         IF UpdateAdmits(t, r.body) THEN Executes("update") ELSE Answered(Error(400))

OfInsert(t, r) ==
  CASE r.body = BadBody -> Answered(Error(500))
    [] r.body # BadBody /\ ~InsertAdmits(t, r.body) -> Answered(Error(400))
    [] OTHER -> IF Inserted(t, r.body) = <<>> THEN Answered(Panicked) ELSE Executes("insert")

OfId(r, op) == IF r.id = {} THEN Answered(Error(400)) ELSE Executes(op)

\* A request for a table itself is answered with an empty body unless it is a
\* GET; one for a table and more goes by its method.
Route(r) ==
  CASE r.table = "/" -> Answered(<<"tables", DOMAIN tables>>)
    [] r.table # "/" /\ r.table \notin DOMAIN tables -> Answered(Error(404))
    [] OTHER ->
         IF r.whole THEN IF r.method = "GET" THEN Executes("list") ELSE Answered(<<"empty">>)
         ELSE CASE r.method = "GET" -> OfId(r, "select")
                [] r.method = "PUT" -> OfInsert(r.table, r)
                [] r.method = "POST" -> OfUpdate(r.table, r)
                [] r.method = "DELETE" -> OfId(r, "delete")
                [] OTHER -> Answered(<<"empty">>)

Receive(c, r) ==
  /\ boot = "ready" /\ statement[c] = "idle"
  /\ req' = [req EXCEPT ![c] = r]
  /\ statement' = [statement EXCEPT ![c] = Route(r).statement]
  /\ response' = [response EXCEPT ![c] = Route(r).response]
  /\ UNCHANGED <<tables, boot, unread, db>>
-----------------------------------------------------------------------------
(***************************************************************************)
(* The statements, and the answers the handlers make of their results.     *)
(***************************************************************************)

Table(c) == req[c].table
Id(c) == Value("number", Atoi(req[c].id, 0))
Key(c) == IdColumn(tables[Table(c)])
Under(c, id) == {r \in rows[Table(c)] : r[IdColumn(Schema[Table(c)])] = id}

\* The statement has a name for the column of the id: without one it is an error.
KnowsKey(c) == Key(c) # ""

Executing(c, a) ==
  /\ statement' = [statement EXCEPT ![c] = "answered"]
  /\ response' = [response EXCEPT ![c] = a]
  /\ UNCHANGED <<tables, boot, unread, req>>

Stores(c, s) == rows' = [rows EXCEPT ![Table(c)] = s]

\* Scan reads a column of type int into an integer, which a NULL is not, and wants
\* a place for every column of the row.
Scans(c, r) ==
  /\ Cardinality(tables[Table(c)]) = Cardinality(DOMAIN r)
  /\ \A col \in tables[Table(c)] : col.Type = "int" => r[col.Field] # Null

getTableContent(c) ==
  /\ KnowsKey(c)
  /\ LET found == Under(c, Id(c))
     IN  Executing(c,
           IF found = {} THEN Error(404)
           ELSE LET r == CHOOSE r \in found : TRUE
                IN  IF Scans(c, r) THEN <<"record", r>> ELSE Error(500))
  /\ UNCHANGED db

\* The answer that the database gives may get lost on its way to the explorer.
Heard(heard, a) == IF heard THEN a ELSE Error(500)

\* LIMIT ? OFFSET ? without an order: any of the rows, as many as are left.
\* rows.Err() is not looked at after the loop: when the rows stop coming, those
\* that came are the answer, with status 200 as ever; "cut" is a mark of the model.
getTableContents(c, heard) ==
  /\ LET left == Cardinality(rows[Table(c)]) - Atoi(req[c].offset, 0)
         limit == Atoi(req[c].limit, 5)
         size == IF left < 0 THEN 0 ELSE IF left < limit THEN left ELSE limit
     IN  \E page \in SUBSET rows[Table(c)] :
           /\ IF heard THEN Cardinality(page) = size ELSE Cardinality(page) < size
           /\ Executing(c, IF \A r \in page : Scans(c, r)
                           THEN <<IF heard THEN "records" ELSE "cut", page>>
                           ELSE Error(500))
  /\ UNCHANGED db

deleteTableContentById(c, heard) ==
  /\ KnowsKey(c)
  /\ Executing(c, Heard(heard, <<"deleted", Cardinality(Under(c, Id(c)))>>))
  /\ Stores(c, rows[Table(c)] \ Under(c, Id(c)))
  /\ UNCHANGED auto

\* RowsAffected counts the rows that an update really changed.
updateTableContent(c, heard) ==
  LET set == Assigned(Table(c), req[c].body)
      changed == {[f \in DOMAIN r |-> IF f \in DOMAIN set THEN set[f] ELSE r[f]] :
                    r \in Under(c, Id(c))}
  IN  IF set = <<>>
      THEN /\ Executing(c, Error(500))
           /\ UNCHANGED db
      ELSE /\ KnowsKey(c)
           /\ Executing(c,
                Heard(heard, <<"updated", Cardinality(changed \ rows[Table(c)])>>))
           /\ Stores(c, (rows[Table(c)] \ Under(c, Id(c))) \cup changed)
           /\ UNCHANGED auto

createTableContent(c, heard) ==
  LET t == Table(c)
      key == IdColumn(Schema[t])
      given == Inserted(t, req[c].body)
      id == IF key \in DOMAIN given THEN given[key] ELSE Value("number", auto[t])
      new == [f \in ColumnNames(Schema[t]) |->
                IF f = key THEN id ELSE IF f \in DOMAIN given THEN given[f] ELSE Null]
      unfilled == {col \in Schema[t] : col.Null = "NO"
                                        /\ col.Field \notin {key} \cup DOMAIN given}
  IN  IF Under(c, id) # {} \/ unfilled # {}
      THEN /\ Executing(c, Error(500))
           /\ UNCHANGED db
      ELSE /\ Executing(c, Heard(heard, <<"id", id>>))
           /\ Stores(c, rows[t] \cup {new})
           /\ auto' = [auto EXCEPT ![t] = IF id.value >= @ THEN id.value + 1 ELSE @]

\* The statement is not executed.  getTableContents defers rows.Close()
\* before it looks at err.
Fails(c) ==
  /\ statement[c] \notin {"idle", "answered"}
  /\ Executing(c, IF statement[c] = "list" THEN Panicked ELSE Error(500))
  /\ UNCHANGED db

Execute(c) ==
  \/ statement[c] = "select" /\ getTableContent(c)
  \/ \E heard \in BOOLEAN :
       \/ statement[c] = "list" /\ getTableContents(c, heard)
       \/ statement[c] = "delete" /\ deleteTableContentById(c, heard)
       \/ statement[c] = "update" /\ updateTableContent(c, heard)
       \/ statement[c] = "insert" /\ createTableContent(c, heard)
  \/ Fails(c)

NewDbExplorer == LoadTables \/ LoadFails \/ \E t \in DOMAIN Schema : LoadTableInfo(t)

ExplorerNext ==
  NewDbExplorer \/ \E c \in Calls : Execute(c) \/ \E r \in HttpRequests[c] : Receive(c, r)

ExplorerSpec == ExplorerInit /\ [][ExplorerNext]_explorerVars
-----------------------------------------------------------------------------
\* A value that a column can hold.
Holds(col, v) ==
  \/ v = Null /\ col.Null = "YES"
  \/ v.kind = (IF col.Type = "int" THEN "number" ELSE "string")

\* The rows there are at the start are like that and finitely many, with a greatest key.
ASSUME FirstRowsAssumption ==
  /\ DOMAIN FirstRows = DOMAIN Schema
  /\ \A t \in DOMAIN Schema :
       LET key == IdColumn(Schema[t])
           ids == {r[key].value : r \in FirstRows[t]} \cup {0}
       IN  /\ IsFiniteSet(FirstRows[t])
           /\ \A r \in FirstRows[t] : /\ DOMAIN r = ColumnNames(Schema[t])
                                      /\ \A col \in Schema[t] : Holds(col, r[col.Field])
           /\ \A r, s \in FirstRows[t] : r[key] = s[key] => r = s
           /\ ids \subseteq Int /\ \E n \in ids : \A i \in ids : i <= n

\* Limits and offsets are not negative, and there is one null.
ASSUME HttpRequestAssumption ==
  \A c \in Calls : \A r \in HttpRequests[c] :
    /\ r # Nothing /\ r.limit \subseteq Nat /\ r.offset \subseteq Nat
    /\ \A f \in DOMAIN r.body : r.body[f].kind = "null" => r.body[f] = Null

\* The tables hold columns of the schema, if not all; a row has a value of the
\* right type in every column, none but where the column is nullable, and a
\* primary key of its own that AUTO_INCREMENT will not give again.
ExplorerTypeOK ==
  /\ boot \in {"tables", "infos", "ready", "failed", "panic"}
  /\ DOMAIN tables \subseteq DOMAIN Schema
  /\ \A t \in DOMAIN tables : tables[t] \subseteq Schema[t]
  /\ unread \subseteq DOMAIN tables /\ (boot = "ready" => unread = {})
  /\ DOMAIN rows = DOMAIN Schema
  /\ \A t \in DOMAIN rows :
       LET key == IdColumn(Schema[t])
       IN  /\ \A r \in rows[t] : /\ DOMAIN r = ColumnNames(Schema[t])
                                 /\ \A col \in Schema[t] : Holds(col, r[col.Field])
                                 /\ r[key].value < auto[t]
           /\ \A r, s \in rows[t] : r[key] = s[key] => r = s
  /\ statement \in [Calls -> {"idle", "select", "list", "insert", "update", "delete", "answered"}]
  /\ \A c \in Calls : /\ req[c] \in HttpRequests[c] \cup {Nothing}
                       /\ statement[c] = "answered" <=> response[c] # Nothing

\* hw6.md:13: PUT /$table creates a record.  Refuted: a request for a table itself
\* that is not a GET is answered with 200 and nothing is done.
PutIgnored(c) == response[c] = <<"empty">> /\ req[c].method = "PUT" /\ req[c].whole
PutCreates == \A c \in Calls : ~PutIgnored(c)

\* hw6.md:26: an error is a 500.  Refuted by panics and by lists that are cut short.
Broke(c) == response[c] # Nothing /\ response[c][1] \in {"closed", "cut"}
ErrorsAre500 == \A c \in Calls : ~Broke(c)

\* The explorer serves its requests as TableStore says, whatever the order of
\* their statements, the failures and the answers that get lost: a record
\* holds what the bodies of its calls said of the columns that the explorer has read,
\* its primary key never changes, a list is whole, and a call that was refused left
\* no trace.  The answers that PutCreates and ErrorsAre500 refute, and no others,
\* count as the errors they should have been: nor do those calls leave a trace.
Documented(c) == IF PutIgnored(c) \/ Broke(c) THEN Error(500) ELSE response[c]

AskOf(r) ==
  [method |-> r.method, table |-> r.table,
   of |-> IF r.table = "/" THEN "tables" ELSE IF r.whole THEN "table" ELSE "record",
   id |-> Value("number", Atoi(r.id, 0)), body |-> [f \in DOMAIN r.body |-> Cast(r.body[f])],
   limit |-> Atoi(r.limit, 5), offset |-> Atoi(r.offset, 0)]

Store == INSTANCE TableStore WITH
           records <- rows,
           asked <- [c \in Calls |-> IF req[c] = Nothing THEN Nothing ELSE AskOf(req[c])],
           outcome <- [c \in Calls |-> Documented(c)],
           known <- [t \in DOMAIN tables |-> ColumnNames(tables[t])],
           Tables <- DOMAIN Schema, FirstRecords <- FirstRows, Size <- Cardinality,
           Key <- LAMBDA t : IdColumn(Schema[t]),
           Columns <- LAMBDA t : ColumnNames(Schema[t]),
           Allowed <- LAMBDA t, f, v : \E col \in Schema[t] : col.Field = f /\ Holds(col, v),
           Asks <- {AskOf(r) : r \in UNION {HttpRequests[c] : c \in Calls}}
ImplementsTableStore == Store!StoreSpec
=============================================================================
