---------------------------- MODULE TableStore ----------------------------
(***************************************************************************)
(* What the database explorer of hw6_db_explorer promises its clients:     *)
(* every call takes effect at most once, at one instant between its        *)
(* arrival and its answer, and an answer other than an error tells what    *)
(* the call did then.  A record always fits its table, keeps its primary   *)
(* key while it exists and shares it with no other record.                 *)
(***************************************************************************)
EXTENDS Naturals

CONSTANTS Calls,
          Tables,       \* the tables there are
          FirstRecords, \* their records at the start: table -> set of records
          Key(_),       \* the primary key of a table
          Columns(_),   \* the columns of a table
          Allowed(_, _, _), \* a column of a table may hold a value
          Size(_),      \* how many elements a set has
          Asks          \* what calls may ask for: [method, of, table, id, body, ...],
                        \* of "tables" (/), "table" (/$table) or "record" (/$table/$id)

NotAsked == <<>>
Open == <<>>

VARIABLES records,
          known,    \* the tables, and of their columns those that calls can fill
          asked, outcome

storeVars == <<records, known, asked, outcome>>

StoreInit ==
  /\ records = FirstRecords
  /\ known = <<>>
  /\ asked = [c \in Calls |-> NotAsked]
  /\ outcome = [c \in Calls |-> Open]

Fitting(t, r) == DOMAIN r = Columns(t) /\ \A f \in Columns(t) : Allowed(t, f, r[f])
Under(t, id) == {r \in records[t] : r[Key(t)] = id}
Told(t, f) == f # Key(t) /\ f \in known[t]

Becomes(t, s) == records' = [records EXCEPT ![t] = s]
Answers(c, a) == outcome' = [outcome EXCEPT ![c] = a] /\ UNCHANGED <<known, asked>>
Error(status) == <<"error", status>>
Writes(c, answer) == \E a \in {answer, Error(500)} : Answers(c, a)
Asking(c, method, of) ==
  /\ asked[c] # NotAsked /\ outcome[c] = Open
  /\ asked[c].method = method /\ asked[c].of \in of

\* What hw6.md names: GET of all three, PUT of a table, with a slash behind it or
\* more, and POST and DELETE of a record.
Named(a) ==
  \/ a.method = "GET"
  \/ a.method = "PUT" /\ a.of # "tables"
  \/ a.method \in {"POST", "DELETE"} /\ a.of = "record"

\* What is known is settled before the first call, and is all they are told of.
Learn ==
  /\ \A c \in Calls : asked[c] = NotAsked
  /\ DOMAIN known' \subseteq Tables
  /\ \A t \in DOMAIN known' : known'[t] \subseteq Columns(t)
  /\ UNCHANGED <<records, asked, outcome>>

\* A call that arrives may be refused, a list of tables is answered at once, and
\* what has no name may be answered with nothing.
Arrive(c) ==
  /\ asked[c] = NotAsked
  /\ \E a \in Asks :
       /\ asked' = [asked EXCEPT ![c] = a]
       /\ \/ outcome' = [outcome EXCEPT ![c] = Open]
          \/ \E status \in {400, 500} : outcome' = [outcome EXCEPT ![c] = Error(status)]
          \/ a.table \notin DOMAIN known /\ outcome' = [outcome EXCEPT ![c] = Error(404)]
          \/ a.of = "tables" /\ outcome' = [outcome EXCEPT ![c] = <<"tables", DOMAIN known>>]
          \/ ~Named(a) /\ outcome' = [outcome EXCEPT ![c] = <<"empty">>]
  /\ UNCHANGED <<records, known>>

\* A new record: what the body tells of it is as the body tells, and what the
\* body does not tell is empty or a value of the store's choice.
Create(c) ==
  /\ Asking(c, "PUT", {"table", "record"})
  /\ LET t == asked[c].table
         body == asked[c].body
     IN  \E new \in records'[t] \ records[t] :
           /\ Fitting(t, new)
           /\ Under(t, new[Key(t)]) = {}
           /\ \A f \in DOMAIN body : Told(t, f) => new[f] = body[f]
           /\ Becomes(t, records[t] \cup {new})
           /\ Writes(c, <<"id", new[Key(t)]>>)

Change(c) ==
  /\ Asking(c, "POST", {"record"})
  /\ LET t == asked[c].table
         body == asked[c].body
         changed == {[f \in Columns(t) |-> IF Told(t, f) /\ f \in DOMAIN body
                                          THEN body[f] ELSE r[f]] : r \in Under(t, asked[c].id)}
     IN  /\ \A r \in changed : Fitting(t, r)
         /\ Becomes(t, (records[t] \ Under(t, asked[c].id)) \cup changed)
         /\ Writes(c, <<"updated", Size(changed \ records[t])>>)

Remove(c) ==
  /\ Asking(c, "DELETE", {"record"})
  /\ LET t == asked[c].table
     IN  /\ Becomes(t, records[t] \ Under(t, asked[c].id))
         /\ Writes(c, <<"deleted", Size(Under(t, asked[c].id))>>)

\* One record, if there is one.
Show(c) ==
  /\ Asking(c, "GET", {"record"})
  /\ LET one == Under(asked[c].table, asked[c].id)
     IN  \/ \E r \in one : Answers(c, <<"record", r>>)
         \/ one = {} /\ Answers(c, Error(404))
  /\ UNCHANGED records

\* Any records, as many as the offset leaves, up to the limit.
List(c) ==
  /\ Asking(c, "GET", {"table"})
  /\ LET all == records[asked[c].table]
         left == IF asked[c].offset < Size(all) THEN Size(all) - asked[c].offset ELSE 0
     IN  \E page \in SUBSET all :
           /\ Size(page) = IF left < asked[c].limit THEN left ELSE asked[c].limit
           /\ Answers(c, <<"records", page>>)
  /\ UNCHANGED records

\* An error, without an effect.
GiveUp(c) ==
  /\ asked[c] # NotAsked /\ outcome[c] = Open
  /\ Answers(c, Error(500))
  /\ UNCHANGED records

StoreNext ==
  Learn \/ \E c \in Calls :
    Arrive(c) \/ Create(c) \/ Change(c) \/ Remove(c) \/ Show(c) \/ List(c) \/ GiveUp(c)

StoreSpec == StoreInit /\ [][StoreNext]_storeVars
=============================================================================
