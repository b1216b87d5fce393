# Verification of coursera_go

The repository holds seven independent Go programs, `hw1_tree` to
`hw7_microservice`; they share no code and no data. This directory models the
logic of all of them, checks the models with TLC and proves most of what is
checked with TLAPS for every value of the constants.

    tlc -config ms_logging.cfg MCMicroservice.tla    # any run: PROJECT.json pairs module and cfg
    tlapm MicroserviceProofs.tla                     # likewise each other ...Proofs module

`PROJECT.json` lists the components, the runs, the lines each definition
models (`map`), the hazards, the findings, and for every checked property a
mutant: a plausible mistake in a modelled definition that the property notices.
The operators named `...Slip` are those mistakes; no specification uses them.

## 1. Inventory

| program | state | operations | what is hard |
|---|---|---|---|
| hw7 `service.go`, request path | `Admin`: a mutex, two maps (logging channels, statistics), two counters | interceptors for every call; `Logging`, `Statistics` streams; `Check`, `Add`, `Test` | one goroutine per call; unguarded counters; sends on unbuffered channels under the mutex; clients that leave, or stay and stop reading |
| hw7 `service.go`, lifecycle | listener, two goroutines, the `grpc.Server` | `StartMyMicroservice`, cancellation, `Serve`, `Stop` | `Stop` against `Serve` in any order; an `Accept` that fails for a while or for good; `log.Fatal`; ports reused by the next start |
| hw2 `signer.go`, `common.go` | five channels, WaitGroups, a mutex, the overheating flag | `ExecutePipeline`, `SingleHash`, `MultiHash`, `CombineResults`, `DataSigner*` | three levels of goroutines; closing channels; results out of order; overheating |
| hw5 `api.go`, `api_handlers.go`, `codegen.go` | users, next id, an RWMutex | `Profile`, `Create` (twice) behind generated checks | concurrent creates; a pointer read after the unlock; the checks the generator makes of the tags |
| hw6 `db_explorer.go` | table infos; the database | start, list of tables, list, read, create, change, delete | one statement per request and no transaction; statements that fail, whose answer is lost or breaks off; a start that reads only part of the tables; NULLs, types, fractions |
| hw4 `client.go`, `client_test.go` | the caller's place in the result | `FindUsers`, the test's `SearchService`, a caller that pages and retries | limit + 1 paging under a cap; answers that are late, lost or cut short; which party refuses what |
| hw3 `fast.go`, `common.go` | the one `User` that every line is decoded into; browsers seen | `FastSearch` against `SlowSearch` | must print the same, though the one parses the file whole and the other line by line |
| hw1 `main.go` | the stack of calls | `dirTree` | which entry is the last once files are left out; directories that are gone when their turn comes |
| hw5 `codegen.go` | routes per receiver | the generator: handlers, `Unmarshall`s, `ServeHTTP`s | two walks over the source, a map in any order, errors dropped, panics half way |

The protobuf part of hw7 (`service.go` from line 242 on) is generated by
protoc, and its `vendor/` directory is third-party code.

How the parts interact. In hw7 a call of either service enters
`UnaryACLInterceptor` or `StreamACLInterceptor`, which run `checkACL`,
`logstash` and `statistics` before the handler; `logstash` hands the event to
every registered `Logging` goroutine through its channel, `statistics` counts in
the `Stat` of every `Statistics` goroutine. In hw2 the jobs interact only
through channels. In hw5 the generated handler fills a params struct and calls
the method. In hw6 a handler checks a body against the columns that
`NewDbExplorer` read, and executes one statement through `database/sql`.

What makes each correct, in short:
 - request path: every logger gets every event, in one order, without gap; every
   counted call is reported once; every call is answered; nothing outlives the server;
 - lifecycle: a failed start leaves nothing; a server serves until it is cancelled, or
   the process ends: it never falls silent; a stop frees the port and ends its
   goroutines, and kills nobody;
 - signer: the output is the sorted hashes of the input, whatever the schedule;
   md5 never overheats; values flow before the source ends; the pipeline ends;
 - user API: calls behave as if they ran one after the other; only what the tags
   admit is stored;
 - database explorer: rows always fit their table, keys never change, a call
   acts at most once and its answer tells the truth;
 - search client: a page is what was asked for, paging collects everybody once,
   errors blame the right party, and paging ends;
 - fast search: it prints what the slow one prints, and elsewhere misses nobody;
 - tree: every line is the right node at the right place, as far as the drawing got;
 - generator: what it wrote is complete and belongs to the right receiver.

## 2. The modules

| module | models |
|---|---|
| `AccessControl` | `checkACL`: entries `/service/name` and `/service/*` of the ACL |
| `LogFeed` | abstract: a feed of events, subscribers see gapless runs of it |
| `Microservice` | the request path; refines `LogFeed` |
| `Lifecycle` | `StartMyMicroservice`, its two goroutines and grpc's `Serve`/`Stop` |
| `Order` | sorting, listing in order, and taking entries out of a slice |
| `HashTerms` | md5 and crc32 as free terms, and the hash `hw2.md` defines |
| `Signature` | abstract: inputs taken one by one, one delivery of the sorted hashes |
| `Signer` | the pipeline; refines `Signature` |
| `ParamRules` | the checks that the generator makes of tags and annotations |
| `UserRegistry` | abstract: calls that take effect at one instant on a register of users |
| `UserApi` | the handlers and methods of hw5; refines `UserRegistry` |
| `TableStore` | abstract: calls that take effect at most once on tables of records |
| `DbExplorer` | the handlers and statements of hw6; refines `TableStore` |
| `SearchClient` | hw4: `FindUsers`, the `SearchService`, the network, a caller that pages |
| `FastSearch` | hw3: `SlowSearch`, then `FastSearch`, over one file |
| `DirTree` | hw1: `printDirTree` as a stack of calls |
| `Generator` | hw5: the `main` of `codegen.go` |
| `MC...` | the small instances TLC runs |
| `...Proofs` | the theorems: `MicroserviceProofs`, `LifecycleProofs`, `SignerProofs`, `UserApiProofs`, `DbExplorerProofs`; `SearchProofs` about `SearchClient` and `FastSearch`; `ListingProofs` about `DirTree` and `Generator`; `OrderProofs` about `Order` |

**Microservice.** The variables are the fields of `Admin` under their names,
`pc` (where the goroutine of each call is), the locals that outlive a step
(`tmp`, `id`, `pending`, `hand`), the contexts (`done`, `stopped`), and history.
What one `Lock`/`Unlock` pair encloses without blocking is one action; `logstash`
blocks on channels under `mu` and is three: `LogstashLock`, `LogstashSend` per
channel of the range in any order, `LogstashUnlock`. `a.uuid++` and
`a.statuuid++` run without the mutex and are a load and a store each; the later
read of `uuid` as a key is a third step. A send on an unbuffered channel is a
step of both goroutines. A client may stop reading (`MayStall`): grpc's send
quota (`flowcontrol.go`, here `Window` messages) then blocks `Send` until it reads
or its context is done; `Statistics` sends with `mu` held. A `Stat` is the set of calls counted in it, of which
`ByMethod` and `ByConsumer` are the numbers per method and per consumer.

**Lifecycle.** Several servers share a process and its ports, as in the tests.
`Serve` and `Stop` of `grpc.Server` are modelled from the vendored source with
the steps that its mutex, its two events and its WaitGroup make visible:
`Stop` fires `quit`, takes the listeners, closes them, waits for the WaitGroup and
fires `done`; `Serve` refuses when `lis` is nil, accepts, and leaves when `Accept`
fails. It fails when the listener is closed (`AcceptFails`), but also with the listener
open: with a temporary error (`AcceptTemporary`), which `Serve` waits out and during
which `quit` makes it return although `Stop` may not have closed the listener yet
(`Backoff`, `server.go:637-645`; the deferred closing in `Untrack` then finds it), and
for good (`AcceptBreaks`, `:653`): `err` is what `Serve` returns. Last, `Serve` waits
for `done` if `quit` has fired. An accepted connection is a number in `conns` and in
`serveWG` until `handleRawConn` returns, at most `MaxConns` at a time. The length of
the delay is left out: it decides nothing. `log.Fatal` frees every port and ends
everything.

**Signer.** A stage, each of its workers (one per value) and each crc32 of a
worker is a process. The channels have the capacity of the code, a WaitGroup is
its counter, `overheated` and `panicked` record a failed `CompareAndSwap` and a
send on a closed channel. md5 and crc32 are free constructors, so that equal
results mean equal computations. `time.Sleep` is left out: it only delays.

**ParamRules, UserApi.** `UserApi` interleaves the goroutines of requests at
every access of the RWMutex and the map; `Response` reads the user through the
pointer after the unlock, as the code does. The RWMutex is Go's: a writer whose turn it
is (`Lock`) keeps new readers out (`RLock`, state `rwait`) while it waits for those
that are there (`Drain`), and its `Unlock` lets the waiting readers in before the next
writer. Texts are records of what the checks
look at: length, the numbers they parse to, the words they consist of. A
parameter of a POST is read from the body and, when the check and the struct read
different places, from the URL, as the generated code does.

**DbExplorer.** `NewDbExplorer` loads the tables, then the columns of each in any
order, and may fail or panic. A request is routed and checked in one step (only
`tables`, which no longer changes, is read) and then executes its statement in
another; that statement may fail without effect, or take effect and lose its
answer; a list may break off half way, and so may the answers to SHOW TABLES and
SHOW FULL COLUMNS, which `rows.Err()` would tell and nobody asks (`TornTables`,
`TornInfos`): the explorer then serves the part it has read. An answer `"cut"` is such a shortened
list, a mark that only the model sees; `"closed"` is a connection that net/http closes
after a panic. The database is
external and only assumed to make a statement atomic, to fill AUTO_INCREMENT keys,
to refuse duplicate ones and an INSERT that leaves out a NOT NULL column: it does
not check the types and NULLs it is given, so that what keeps rows in shape is
the explorer. **TableStore** promises what `hw6.md` says: a `PUT` of a table creates,
a list is as long as the limit and the records allow, an error is an answer with a
status, and only a call of a form that `hw6.md` does not name may be answered with
nothing. Any call may be refused with 400 or 500, on arrival or, with 500, later:
which body is refused is the explorer's affair. Two kinds of answers of the code break
this promise. They are findings (`PutCreates`, `ErrorsAre500`), and the refinement maps
them, and no others, to the error they should have been (`Documented`): it shows that
these calls leave no trace either.

**SearchClient.** One caller, which begins with any request, asks for the next page
behind the users it got while `NextPage` is set, and may retry after an error.
`Serve` is an answer in time, `Lose` a late, broken or truncated one. The texts of
queries that make the test's server misbehave are queries of the model. `Found`
is the sorted list that the server finds: filtering and sorting are left out.

**FastSearch.** A line is what the two decoders tell apart: an object, `null`,
nothing or garbage, and for each field a value of the right type, of another, or
none. `FastSearch` decodes into one `User` that it never clears.

**DirTree.** A call of the recursion is the listing that is left of it and its
tabs; reading a directory is a step of its own, which may fail and end the
program. **Generator.** A declaration is what the generator looks at in it: the
functions of the file and its types, in the order of the text, wherever a type stands
(`ast.Inspect` also comes to types in groups and in functions, and the loop over
`node.Decls` looks at functions only, so that one sequence serves both);
`os.Create` may fail, which the code ignores.

**Order.** What the programs get from Go's `sort.Strings` and `ioutil.ReadDir`, and
what is left of a slice when a loop takes entries out. `Ascending` and `Sorted` are
choices among functions, which say what is returned and not how it is computed:
`OrderProofs` proves that there always is one.

Which composes which: `Microservice` EXTENDS `AccessControl` and instantiates
`LogFeed`; `Signer` EXTENDS `HashTerms` and instantiates `Signature`; `HashTerms`,
`DirTree` and `Generator` EXTEND `Order`; `UserApi`
EXTENDS `ParamRules` and instantiates `UserRegistry`; `DbExplorer` instantiates
`TableStore`. `MCPrograms` EXTENDS `SearchClient`, `FastSearch`, `DirTree`,
`Generator`, `MCDbExplorer` and `MCLifecycle`, which share nothing: the variable `on`
says which of the six runs from an initial state on, and the variables of the others
stay as they are. Interleaving them would multiply the states and show nothing more.
`Microservice` and `Lifecycle` are separate: they meet only in
`Stop`, which `Microservice` sees as "every stream context is done".

## 3. The runs

| run | question | instance |
|---|---|---|
| `ms_logging` | Are events delivered completely, in one order, and after the ACL? Can anything but a returned logger keep a call from its answer or an event from a logger, if clients read? | 2 business calls (one without metadata), a logger that may leave and one that may stop reading, a stop, fairness |
| `ms_statistics` | Where does every counted call end up, also when two streams share an id, and whom does a blocked report hold up? | 1 business call, 2 statistics streams that may leave, one of which may stop reading, fairness |
| `ms_lost_logger` | Do two loggers both receive the log? (refuted) | 2 loggers |
| `ms_hang` | Is every admitted business call answered? (refuted) | 1 business call, 1 logger that may leave, fairness |
| `ms_leak` | Do all goroutines end with the server? (refuted) | 1 business call, 1 statistics stream, a stop, fairness |
| `lc_fatal` | Does a stop leave the process alive? (refuted) | 3 starts, 2 on one address and one with a bad ACL, 1 connection at a time |
| `sg_pipeline` | Does the pipeline compute the signature, flow, and end? | 2 inputs in descending order, 2 hashes per value, fairness |
| `ua_calls` | Do concurrent calls behave as atomic ones, and is only valid data stored? | 3 requests: 2 of 5 kinds that meet, 1 of 19 kinds, one for each reason to refuse it, fairness |
| `ua_enum` | Is a stored status one of the enum's? (refuted) | 1 request |
| `db_put` | Does `PUT /$table` create a record? (refuted) | 3 such requests |
| `db_error` | Is every error a 500? (refuted) | 3 lists |
| `programs` | The lifecycle: do starts, failures, stops, connections, errors of `Accept` and the reuse of a port go as promised? | the starts of `lc_fatal`, one patient caller, fairness |
| | The explorer: do rows keep their shape and answers tell the truth? | 3 requests: 1 of 5 kinds that write, 1 of 7 that meet, 1 of 29 kinds; starts that break off in 2 ways per query |
| | Are pages, searches, drawings and generated files right? | 6 users and a largest page of 3; every file of up to 3 lines of 14 kinds; every tree of 4 nodes; every source of up to 3 declarations of 9 kinds; fairness of the client |

Why the bounds are enough to meet the interesting cases:
 - Two loggers are what a race on `uuid`, a broadcast in any order and an
   abandoned channel besides a live one need; two business calls make a queue
   at the mutex while an event is half broadcast, and one of them is refused. A
   `Window` of 1 makes a client that does not read block the second message.
   Two statistics streams can share an id and reset each other, and both are
   calls that the other counts. What holds for any number of calls is proved.
 - Two servers on one address meet at `Listen`, one of them cancelled only when it
   serves, the other at any time; the third fails before it listens. The second may
   start and serve while the goroutines of the first are still ending, and must not be
   disturbed by what they close. One connection in its handshake at a time is what `Stop`
   may have to wait for besides `Serve`. Any number of servers, addresses and connections
   is in the proofs.
 - With two inputs every stage has two workers that race for the mutex, for the
   output channel of capacity 1 and for the end of the stage; two hashes per value
   (the constant `Th`, 6 in the code) already let crc32 results arrive out
   of order. `<<2, 1>>` makes the order of arrival differ from the sorted order.
   A source that stops sending and a sink that stops receiving are included.
 - Three requests give two racing creates of one login and a profile between
   them, and for hw6 a record changed, deleted and created again while a third
   call looks; the calls of hw6 being alike, one of them always writes and only one may
   be refused. The requests hold one of each kind that the code tells apart.
 - `MaxLimit` (25 in the code) is 3: with five users found and limits and offsets on
   both sides of 0, of the cap and of the end, a last page is full, short or empty.
   Three lines are a line that fills a field, one that lacks it and one that has
   it again, or an end with a newline; four nodes are a directory with a file
   behind it, two levels down; three declarations are two methods of one receiver
   between which another's lies.

Every configuration says CHECK_DEADLOCK FALSE: the systems do stop, when every
call has been served, every server stopped, or the pipeline has returned. That
they do not stop too early is what the liveness properties say.

No run uses symmetry. No counter needs a bound: each call, server, value and
request occurs once, except the report loop of `Statistics`, whose state (sets of
calls, unread messages up to `Window`) is finite.

### Fairness

`FairSpec` is weak fairness of each goroutine's own steps: the Go scheduler runs
every goroutine that can run. In `Microservice`, where `Statistics` takes `mu`
again and again, the steps that take the mutex have strong fairness: a waiter of a
`sync.Mutex` for more than a millisecond switches it to its starvation mode and is
handed the lock. Nothing makes a client call, leave or read, a caller cancel, or
the source of the pipeline send: those steps have no fairness. That clients go on
reading is the premise `ClientsRead` of the two properties that need it, not a
part of the specification. In `Lifecycle` fairness stops with the process;
`handleRawConn` is fair because the connection has a deadline until its handshake is
over (`server.go:676`), and nothing obliges a client to connect or `Accept` to fail. In
`UserApi` calls are finitely many, so that weak fairness is enough for its RWMutex,
which hands the lock to waiting readers and writers in turn.
`SearchFairness` covers `FindUsers`, the end of every wait (`client.Timeout` is one
second) and a caller that goes on to the next page; nothing makes it retry.

## 4. What the runs show

Holding. The log feed is complete and in order for every client that stays; the
ACL, the log and the count of a call come in that order; a counted call is in the
current statistics, was reported, or fell into one gap: between the `Unlock`
after a report and the next reset (`service.go:138-141`), where the code loses it.
If clients read, a call hangs, or an event stays away, only if a logging stream has
returned; a client that is connected and does not read holds up everybody else for
as long as it likes (`service.go:104`, and with `mu` held `:141`). A
server that is not cancelled accepts, through temporary errors of `Accept` and whatever
the other servers do, unless its own `Accept` fails for good: then `log.Fatal` ends the
process, and no server is left silent in one that lives on. A server that is cancelled
after `Serve` has begun stops without an error (`CleanStop`; only an `Accept` that
fails for good by itself excepts it), its port is freed, `Serve`, `Stop` and its
connections end whatever their order, and no start or stop takes another's port. The signer implements its definition and
never overheats, panics or stalls. The user API is linearizable. The database
explorer keeps its rows in shape through failures, also when it knows only part of
the tables, and but for the two findings below its answers are what `hw6.md` says. Paging with `FindUsers` collects every user once whatever is lost on the
way, and ends. The two searches agree on every well-formed file, and on every file
that both get through the fast one misses nobody. Drawings are right as far as they
go, and what the generator wrote after it ended well with a file is complete.

Refuted, each by one run and listed under `findings`:
 - `ms_lost_logger`: two `Logging` calls can register under one key
   (`service.go:96-99`), and the first then receives nothing.
 - `ms_hang`: `Logging` returns without removing its channel (`service.go:105`);
   the next call blocks in `logstash` for ever with the mutex held.
 - `ms_leak`: the loop of `Statistics` has no exit (`service.go:132`).
 - `lc_fatal`: a context cancelled before the server goroutine calls `Serve` makes
   it fail, and `log.Fatal` (`service.go:87`) ends the process.
 - `ua_enum`: the generated enum check accepts any text that occurs between two
   bars in the list (`codegen.go:258`), `user|moderator` for one.
 - `db_put`: `PUT /$table`, the form `hw6.md:13` gives for a create, is answered with
   an empty 200 and creates nothing (`db_explorer.go:82-86`); `PUT /$table/`, as in the
   test, creates.
 - `db_error`: `hw6.md:26` wants 500 for an error, but `rows.Err()` is never looked at
   (`db_explorer.go:342`), so that a list whose rows stop coming is answered with 200 and
   those that came; a failed query of a list panics on `rows.Close()` of nil rows
   (`:335`), and a create of no column on an empty slice (`:317`).

Seen while modelling, part of the models, and not made into runs of their own:
 - hw6: a create without the primary key sends 1 for it (`db_explorer.go:305`), so it
   conflicts with record 1 or reuses the id of a deleted one;
 - hw6: at the start, too, a failed query panics on `rows.Close()` of nil rows (`:440`),
   and tables or columns that stop coming are left out (`:417`, `:444`);
 - hw6: an int column cannot be set to NULL, but a create that omits it stores one,
   and reading it fails with 500 (`:200`, `:467`); fractions are cut off to the int;
 - hw5: Content-Type is set after `WriteHeader` and so is not sent; a field without
   paramname is read under its snake case, where `hw5.md` says lowercase;
 - hw5: `os.Create`'s error is dropped (`codegen.go:135`), so that without a parameter
   struct the generator ends well having written nothing; an annotation whose JSON
   does not parse gives a handler without URL and authorization (`:477`); a struct is a
   parameter struct if its first field's tag says so (`isParamStruct`); a receiver that
   is no pointer panics when the file is half written;
 - hw4: a limit of 0 pages for ever (the only page is empty and `NextPage` is set); a
   caller that adds a limit of its own above 25, rather than the users it got, to the
   offset skips users; the comment at `client.go:55` calls -1 descending, which the
   constants and the server do not; `client.go:114` compares a literal instead of
   the constant `ErrorBadOrderField`;
 - hw3: `FastSearch` gives a line that lacks a field the value of an earlier line
   (`fast.go:57`), and panics where `SlowSearch` skips a user of wrong types;
 - hw1: `dirTree` returns an error and never does: `log.Fatal` ends the program.

## 5. The proofs

The theorems hold for every value of the constants under the named assumptions
beside their declarations: `CallAssumption` (the kinds of calls are disjoint),
`ServerAssumption`, `InputAssumption`, `ThAssumption`, `LessAssumption` (the order of
strings is irreflexive and transitive on the hashes); `TextAssumption` (a text is
read as at most one number); `SchemaAssumption` (a table has one primary key, an int
that is not NULL, and columns of different names), `FirstRowsAssumption` (the rows at
the start are finitely many and in shape), `RequestAssumption` and `HttpRequestAssumption` (the types of
requests; limits and offsets of hw6 that are not negative); `FileAssumption` (the
shape of lines), `TreeAssumption` (finitely many nodes, each with a number above that
of its parent) and `SourceFilesAssumption` (the shape of declarations). TLC evaluates
each of them on its instances. Each proof module about a program defines an inductive
invariant (`IInv`, `Inv`, `BothInv`, `SearchInv`, `TreeInv`, `GeneratorInv`), proves that
it holds at the start and is kept by every action, and draws the theorems from it.

**MicroserviceProofs**: `TypeCorrect`, `FeedContiguous`, `BroadcastsComplete`,
`InterceptorsInOrder`, `ReportedOnce`, `StatsAccounted` and `FeedRefinement`
(`Spec => ImplementsLogFeed`). None of the properties is inductive. That
the feed is complete when `mu` is free needs `CaughtUp`: while an event is being
broadcast, a stream lags by one exactly as long as its key is `pending`; that
needs `MutexInv` (the one goroutine in the critical section owns the last event of
the feed) and `ChannelInv` (no two keys lead to one stream, although two streams
may have fought for one key). `HandInv` ties the event in a stream's hand to its
place in the feed, and with it `FeedIsContiguous` survives the send.
`InterceptorsInOrder` needs `OrderInv`, which reads the history off `pc`, and
`ReportedOnce` needs `StatInv`: an entry never holds a call that is not counted yet.
`StatsAccounted` needs `IdInv` and `AccountInv`, which follow a stream also through
the steps in which its id is read and its `Stat` is replaced.
`HeldForReason` is the part of `HangsOnlyOnReturned` and `EventsReachLoggers` that needs
no fairness: while a call holds `mu`, it or a stream it has yet to send to can go on,
or it waits for a client that does not read (`WindowInv`: only such a client lets its
window fill) or for a stream that has returned and is still registered.

**LifecycleProofs**: `TypeCorrect`, `FailedStart`, `Accepts`, `StopsCleanly` and the
action property `PortKept`. The invariant says for each server how `start`,
`stopper`, `server`, `lis`, the WaitGroup and the port agree (`StartOf`, `StopperOf`,
`ServerOf`), why `Serve` has ended (`ErrOf`: `quit` has fired, or its own `Accept` has
failed for good, and `Accept` never finds the listener closed before `quit`) and, once
`log.Fatal` has run, only that nobody listens (`DeadInv`). `Accepts` is `ErrOf` with
`ServerOf`: an uncancelled server that is past `accept` and `backoff` has failed for good
and has not ended, so that the process does. `StopsCleanly` also needs `PatientOf`: a
patient server is cancelled only past `serve`, when its listener is tracked, so that
`Stop` finds it. `StopNeverDeadlocks`: `Stop` waits for the WaitGroup of `Serve` and the
connections, `Serve` for the end of `Accept` and for `done`, and of a cancelled server
one of these can go on until both have ended; `StopInv` adds that `Stop` waits only
once the listener is closed, and has fired `done` when it ends.

**SignerProofs**: `TypeCorrect`, `NeverOverheats`, `NeverPanics`, `HashesCorrect`, for
every input, every number of hashes and every order of the goroutines. The heart
is counting: `StageInv` and `CrcInv` say that a WaitGroup is the cardinality of
the set of goroutines that are not done (with the theorems on finite sets), so
that a stage returns, and a channel closes, only when that set is empty;
`ChanInv`, `ArgInv` and `MychInv` trace each value from the source through at most
one place at a time.
`SignatureRefinement` (`Spec => ImplementsSignature`) needs also that nothing is lost,
which those do not say. `FlowInv`: a value that left a stage is in its channel or has
a worker behind it, a stage that left its range leaves no value behind, and the
source has sent what came out. `CollectInv`: what `CombineResults` holds is the hashes
of the inputs it received, in some order. `OutputInv`: the sink has nothing, or the one
value. So when `CombineResults` ends its range every input is in it, and since a
sorted arrangement does not depend on the order of arrival (`SameArrangements`), what
it sends is what `Signature` delivers. `DeliveredInOrder` says the same without
`Sorted`: an arrangement of the hashes with none behind a greater one.
`NeverStalls` and `OnlyForward` are what `Terminates` and `Flows` rest on. `NeverStalls`:
some goroutine behind the source can go on, or every stage has returned, or the source
can send and all it has sent has reached `CombineResults`; the argument runs from the
last stage backwards (`IdleHashStage`), with `StartedInv` for what a worker waits for:
the holder of the mutex is in the md5, and the crc32 goroutines have been started.
`OnlyForward`: every step takes a stage, a worker, a crc32 goroutine or a count further
and none back, and each has an end; so `OverheatLock` never spins, and the pipeline takes
finitely many steps. What it takes to conclude `Terminates` is that a goroutine that can
go on does, which is the fairness of `FairSpec`.

**UserApiProofs**: `TypeCorrect`, `StayTrue`, `ValidRegistered`, and
`RegistryRefinement` (`Spec => ImplementsRegistry`). `LockInv` says who holds `mu` and
that a writer is alone; `CreateInv` that a `Create` past its check has a login that is
still free and the last id; `ResultInv` that what a method came to stays true, because
users are never replaced. With them the store of `Create` and the lookup of `Profile`
are the instants at which calls of `UserRegistry` take effect. `NeverWaitsInVain`
follows from `LockInv` alone: a reader may wait for a writer that itself waits for the
readers before it, but there the chain ends: those hold the lock and wait for nobody.

**DbExplorerProofs**: `TypeCorrect` (the shape of the rows) and `StoreRefinement`
(`ExplorerSpec => ImplementsTableStore`). `RowsInv` adds to `ExplorerTypeOK` that keys
are numbers and tables finite, `CallsInv` that a call which executes a statement was checked against
the tables as they are. The lemmas `AssignedHolds` and `InsertedHolds` say that what
the handlers admit fits the columns and leaves the key alone, whatever part of the
columns the explorer has read; `UpdateRows`, `DeleteRows` and `CreateRows` carry that
to the rows, and `ChangeMaps`, `CreateMaps` and the other `...Maps` to the store;
`PlainOutcome` that the store sees all answers but those of the two findings as they are.

**SearchProofs**, about `SearchClient`: `PagesTrue`, `CollectedOnce`, `BlamesRight`. `SentInv` and
`AnswerInv` say what a request and an answer under way tell the truth about, `PageOf`
what a page is for the request it answers; that everybody is collected once is then
that what was collected ends where the next request begins.

About `FastSearch`: `FilledRead`, `CleanAgree`, `NobodyMissed`. `SlowInv` and `FastInv`
describe each program by what it has done with the lines before the one it is at,
without recursion: `Filled` picks the latest line that has a field.

**OrderProofs**: `AscendingRight` (every number of a finite set once, in order),
`EntriesRight` and `Sortable`, and lemmas on what one more element changes
(`AscendingLast`, `EntriesLast`, `EntriesAppended`). These are inductions over data, and
the library's induction theorems cannot be used, because they take an operator as a
parameter. The induction rests instead on a set: strict inclusion is well-founded on
the finite subsets of a set, so a set of counterexamples has a least one (`LeastSet`),
and from that follow a least number (`Least`) and induction (`Induct`).

**ListingProofs**, about `DirTree`: `TreeInvariance` and `TreeDrawnRight`, for any
finite tree. `Way` is a recursive function; `WayExists` proves that it exists, and the
lemmas on `Under` and `Precedes` that a node precedes another exactly when their ways
part in this order. `DrawnRight` alone is not inductive: it says of a line what is
before it, and nothing of what is to come. `TreeInv` says it for the whole stack:
`FilesInv` that the files of a call are the rest of a directory and its tabs their
bars, `CallsInv` that what an inner call has left comes before what the calls around it
have, and `WaitingInv` that every visible node is drawn or waits (in or under a file of
some call, or in the directory to be read next) and what is drawn precedes what waits.
The next node drawn is then the first of those that wait.

About `Generator`: `GeneratorInvariance` and `GeneratorWhole`, for any source file.
`GeneratorInv` says at every step that the file holds what the declarations passed so
far call for: `PiecesInv` the handlers of those before `Passed` and the `Unmarshall`s of
those before `Walked`; `ServersInv` that each receiver passed is still in `servers` with
its routes or has its `ServeHTTP`, and `ServedInv` that it is not both.

Every safety property, action property and refinement that a passing run checks is
stated by a theorem. Only model-checked: liveness (the prover has no fairness and no
ENABLED), that is `HangsOnlyOnReturned`, `EventsReachLoggers`, `PortFreed`,
`StartGoroutinesEnd`, `Terminates`, `Flows`, `EveryCallAnswered` and `PagingEnds`; and
the findings, of which a counterexample is the proof. `NeverStalls`, `OnlyForward`,
`StopNeverDeadlocks`, `HeldForReason` and `NeverWaitsInVain` prove the part of most of
them that is about states and single steps. They spell out when a goroutine can go on
(`CanGo`, `StopperCanGo`, `HolderCanGo`, ...), each disjunct the guard of one action.

## 6. Not modelled

 - The generated protobuf code and the vendored libraries, except `Serve`, `Stop` and
   the send quota; the example under `hw5_codegen/example`; the encoder that
   easyjson generated for hw3, which nothing calls.
 - JSON, headers, wording and logging; the text of generated code beyond what
   `ParamRules` says of it.
 - In hw6, negative limits and servers that report the type as `int(11)`, where the
   code takes no column for an int.
 - In hw4, filtering and sorting in the test's server: `Found` is their result. In hw1,
   sizes and the characters of a line. In hw3, the text of a browser's name beyond
   whether it says Android or MSIE.

## 7. Plan

Done: every program of the repository is modelled, most concurrency first, and every
safety property of the runs is proved.

What is left, in this order:
 1. Progress of a caller that pages (`PagingEnds`): that a page that is not the last
    moves the offset on, as an action property.
 2. A store that tells when a call may be refused and a read may fail, so that the NULL
    in an int column of hw6 and the reuse of id 1 are properties and not remarks.
