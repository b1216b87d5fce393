------------------------------ MODULE Lifecycle ------------------------------
(***************************************************************************)
(* Starting and stopping the service: StartMyMicroservice of               *)
(* hw7_microservice/service.go with the parts of grpc.Server it drives,    *)
(* Serve and Stop.  A successful start leaves two goroutines: the stopper, *)
(* which waits for the context and calls Stop, and the server, which calls *)
(* Serve and kills the process when Serve returns an error.  Each accepted *)
(* connection adds a goroutine that Stop waits for until its handshake is  *)
(* over.  Several services run in one process, as in the tests, and share  *)
(* its ports.                                                              *)
(***************************************************************************)
EXTENDS Integers

CONSTANTS Servers,   \* calls of StartMyMicroservice
          Addrs,     \* TCP addresses
          Addr,      \* the address of each call
          BadAcl,    \* the calls whose ACL is not JSON
          Patient,   \* the calls whose context is cancelled only once Serve has begun
          MaxConns,  \* bound: connections of one server in their handshake at a time
          Nobody     \* nobody listens

ASSUME ServerAssumption ==
  /\ Addr \in [Servers -> Addrs]
  /\ BadAcl \subseteq Servers
  /\ Patient \subseteq Servers
  /\ MaxConns \in Nat
  /\ Nobody \notin Servers

VARIABLES
  port,       \* the server that listens on each address, or Nobody
  start,      \* where each call of StartMyMicroservice is
  stopper,    \* where its stopper goroutine is
  server,     \* where its server goroutine is
  cancelled,  \* the servers whose context is cancelled
  lis,        \* grpc.Server.lis: an empty map, one that tracks lis, or nil
  quit,       \* the servers whose quit event has fired
  done,       \* the servers whose done event has fired
  serveWG,    \* grpc.Server.serveWG
  conns,      \* how many handleRawConn goroutines each server runs
  err,        \* what Serve returns, or "nil" as long as it has not
  dead        \* log.Fatal has ended the process

goVars   == <<start, stopper, server>>
grpcVars == <<lis, quit, done, serveWG, conns, err>>
vars == <<port, start, stopper, server, cancelled, lis, quit, done, serveWG, conns, err, dead>>

Init ==
  /\ port = [a \in Addrs |-> Nobody]
  /\ start = [s \in Servers |-> "idle"]
  /\ stopper = [s \in Servers |-> "none"]
  /\ server = [s \in Servers |-> "none"]
  /\ cancelled = {}
  /\ lis = [s \in Servers |-> "empty"]
  /\ quit = {} /\ done = {}
  /\ serveWG = [s \in Servers |-> 0]
  /\ conns = [s \in Servers |-> 0]
  /\ err = [s \in Servers |-> "nil"]
  /\ dead = FALSE

\* A goroutine moves; the operators named ...Slip are the code with one
\* plausible mistake each, and no specification uses them.
Starting(s, from, to)  == start[s] = from /\ start' = [start EXCEPT ![s] = to]
Stopping(s, from, to) == stopper[s] = from /\ stopper' = [stopper EXCEPT ![s] = to]
Serving(s, from, to) == server[s] = from /\ server' = [server EXCEPT ![s] = to]

Listening(s) == port[Addr[s]] = s

ClosedSlip(s) == port

\* lis.Close(): it has no effect on a listener that is closed.
Closed(s) == IF Listening(s) THEN [port EXCEPT ![Addr[s]] = Nobody] ELSE port
-----------------------------------------------------------------------------
(***************************************************************************)
(* StartMyMicroservice.                                                    *)
(***************************************************************************)

ParsedSlip(s) == "listen"

\* json.Unmarshal of the ACL; an error is returned.
Parsed(s) == IF s \in BadAcl THEN "failed" ELSE "listen"

ParseAcl(s) ==
  /\ Starting(s, "idle", Parsed(s))
  /\ UNCHANGED <<port, stopper, server, cancelled, grpcVars, dead>>

Free(a) == port[a] = Nobody

\* net.Listen: an address in use is an error, which is returned.
Listen(s) ==
  /\ \/ /\ Free(Addr[s])
        /\ Starting(s, "listen", "spawn")
        /\ port' = [port EXCEPT ![Addr[s]] = s]
     \/ /\ ~Free(Addr[s])
        /\ Starting(s, "listen", "failed")
        /\ UNCHANGED port
  /\ UNCHANGED <<stopper, server, cancelled, grpcVars, dead>>

\* The two go statements, and return nil.
Spawn(s) ==
  /\ Starting(s, "spawn", "started")
  /\ stopper' = [stopper EXCEPT ![s] = "select"]
  /\ server' = [server EXCEPT ![s] = "serve"]
  /\ UNCHANGED <<port, cancelled, grpcVars, dead>>
-----------------------------------------------------------------------------
(***************************************************************************)
(* The stopper goroutine: <-ctx.Done(), then s.Stop().                     *)
(***************************************************************************)

CtxDoneSlip(s) == TRUE

CtxDone(s) == s \in cancelled

\* s.quit.Fire()
FireQuit(s) ==
  /\ CtxDone(s)
  /\ Stopping(s, "select", "lock")
  /\ quit' = quit \cup {s}
  /\ UNCHANGED <<port, start, server, cancelled, lis, done, serveWG, conns, err, dead>>

\* Under s.mu: listeners := s.lis; s.lis = nil.
TakeListeners(s) ==
  /\ Stopping(s, "lock", IF lis[s] = "tracked" THEN "close" ELSE "wait")
  /\ lis' = [lis EXCEPT ![s] = "nil"]
  /\ UNCHANGED <<port, start, server, cancelled, quit, done, serveWG, conns, err, dead>>

\* lis.Close() for the listener that Serve had entered.
CloseListener(s) ==
  /\ Stopping(s, "close", "wait")
  /\ port' = Closed(s)
  /\ UNCHANGED <<start, server, cancelled, grpcVars, dead>>

\* The deferred s.serveWG.Wait(); s.done.Fire().
FireDone(s) ==
  /\ serveWG[s] = 0
  /\ Stopping(s, "wait", "ended")
  /\ done' = done \cup {s}
  /\ UNCHANGED <<port, start, server, cancelled, lis, quit, serveWG, conns, err, dead>>
-----------------------------------------------------------------------------
(***************************************************************************)
(* The server goroutine: s.Serve(lis), then log.Fatal on an error.         *)
(***************************************************************************)

\* Serve, under s.mu: after a Stop it closes the listener and fails with
\* ErrServerStopped, otherwise the listener enters s.lis.
EnterServe(s) ==
  \/ /\ lis[s] = "nil"
     /\ Serving(s, "serve", "returned")
     /\ port' = Closed(s)
     /\ err' = [err EXCEPT ![s] = "stopped"]
     /\ UNCHANGED <<start, stopper, cancelled, lis, quit, done, serveWG, conns, dead>>
  \/ /\ lis[s] # "nil"
     /\ Serving(s, "serve", "accept")
     /\ serveWG' = [serveWG EXCEPT ![s] = @ + 1]
     /\ lis' = [lis EXCEPT ![s] = "tracked"]
     /\ UNCHANGED <<port, start, stopper, cancelled, quit, done, conns, err, dead>>

\* A client connects: s.serveWG.Add(1), and the goroutine of the connection.
Accept(s) ==
  /\ Listening(s) /\ server[s] = "accept"
  /\ conns[s] < MaxConns
  /\ serveWG' = [serveWG EXCEPT ![s] = @ + 1]
  /\ conns' = [conns EXCEPT ![s] = @ + 1]
  /\ UNCHANGED <<port, goVars, cancelled, lis, quit, done, err, dead>>

\* handleRawConn returns: after the handshake, at its deadline, or at once when
\* quit has fired.
HandleRawConn(s) ==
  /\ conns[s] > 0
  /\ serveWG' = [serveWG EXCEPT ![s] = @ - 1]
  /\ conns' = [conns EXCEPT ![s] = @ - 1]
  /\ UNCHANGED <<port, goVars, cancelled, lis, quit, done, err, dead>>

\* lis.Accept() fails with a temporary error, as when the process has too many
\* files open: Serve waits before it tries again.
AcceptTemporary(s) ==
  /\ Listening(s)
  /\ Serving(s, "accept", "backoff")
  /\ UNCHANGED <<port, start, stopper, cancelled, grpcVars, dead>>

AgainSlip == "untrack"

Again == "accept"

\* The timer ends the wait, or, if it has fired, quit: then Serve returns nil,
\* and Stop may not have come to the listener yet.
Backoff(s) ==
  /\ \/ Serving(s, "backoff", Again)
     \/ s \in quit /\ Serving(s, "backoff", "untrack")
  /\ UNCHANGED <<port, start, stopper, cancelled, grpcVars, dead>>

QuitFiredSlip(s) == FALSE

QuitFired(s) == s \in quit

\* Serve returns nil if quit has fired, and the error of Accept otherwise.
Fail(s, e) ==
  /\ Serving(s, "accept", "untrack")
  /\ err' = IF QuitFired(s) THEN err ELSE [err EXCEPT ![s] = e]
  /\ UNCHANGED <<port, start, stopper, cancelled, lis, quit, done, serveWG, conns, dead>>

\* lis.Accept() fails once the listener is closed.
AcceptFails(s) == ~Listening(s) /\ Fail(s, "closed")

\* It fails for good with the listener open.
AcceptBreaks(s) == Listening(s) /\ Fail(s, "broken")

\* The deferred closing of a listener that is still in s.lis.
Untrack(s) ==
  /\ Serving(s, "untrack", "defer")
  /\ port' = IF lis[s] = "tracked" THEN Closed(s) ELSE port
  /\ lis' = IF lis[s] = "tracked" THEN [lis EXCEPT ![s] = "empty"] ELSE lis
  /\ UNCHANGED <<start, stopper, cancelled, quit, done, serveWG, conns, err, dead>>

DoneWGSlip(s) == UNCHANGED serveWG

DoneTwiceSlip(s) == serveWG' = [serveWG EXCEPT ![s] = @ - (IF s \in quit THEN 2 ELSE 1)]

DoneWG(s) == serveWG' = [serveWG EXCEPT ![s] = @ - 1]

\* The deferred s.serveWG.Done(), and, if quit has fired, the wait for done.
LeaveServe(s) ==
  /\ Serving(s, "defer", IF s \in quit THEN "wait" ELSE "returned")
  /\ DoneWG(s)
  /\ UNCHANGED <<port, start, stopper, cancelled, lis, quit, done, conns, err, dead>>

AwaitDone(s) ==
  /\ s \in done
  /\ Serving(s, "wait", "returned")
  /\ UNCHANGED <<port, start, stopper, cancelled, grpcVars, dead>>

\* err = s.Serve(lis): on an error log.Fatal ends the process, and the system
\* closes its sockets.
Served(s) ==
  /\ Serving(s, "returned", "ended")
  /\ dead' = (err[s] # "nil")
  /\ port' = IF err[s] # "nil" THEN [a \in Addrs |-> Nobody] ELSE port
  /\ UNCHANGED <<start, stopper, cancelled, grpcVars>>
-----------------------------------------------------------------------------
\* The caller cancels the context, before, during or after the start; a
\* patient one, like the tests with their wait(1), once Serve has begun.
Cancel(s) ==
  /\ s \notin cancelled
  /\ s \in Patient => server[s] \notin {"none", "serve"}
  /\ cancelled' = cancelled \cup {s}
  /\ UNCHANGED <<port, goVars, grpcVars, dead>>

Starter(s) == Listen(s) \/ Spawn(s)
Stopper(s) == FireQuit(s) \/ TakeListeners(s) \/ CloseListener(s) \/ FireDone(s)
Server(s) ==
  \/ EnterServe(s) \/ Backoff(s) \/ AcceptFails(s) \/ Untrack(s)
  \/ LeaveServe(s) \/ AwaitDone(s) \/ Served(s)

\* What clients and the operating system do to a server that accepts.
Network(s) == Accept(s) \/ AcceptTemporary(s) \/ AcceptBreaks(s)

Step(s) ==
  \/ ParseAcl(s) \/ Starter(s) \/ Cancel(s)
  \/ Stopper(s) \/ Server(s) \/ Network(s) \/ HandleRawConn(s)

Next == ~dead /\ \E s \in Servers : Step(s)

Spec == Init /\ [][Next]_vars

\* The Go scheduler runs every runnable goroutine until the process ends; a
\* call that began goes on, and a handshake ends at its deadline.  Nothing
\* obliges anybody to call, to cancel or to connect, or Accept to fail.
Scheduled ==
  \A s \in Servers : /\ WF_vars(~dead /\ Starter(s))
                     /\ WF_vars(~dead /\ Stopper(s))
                     /\ WF_vars(~dead /\ Server(s))
                     /\ WF_vars(~dead /\ HandleRawConn(s))
FairSpec == Spec /\ Scheduled
-----------------------------------------------------------------------------
TypeOK ==
  /\ port \in [Addrs -> Servers \cup {Nobody}]
  /\ start \in [Servers -> {"idle", "listen", "failed", "spawn", "started"}]
  /\ stopper \in [Servers -> {"none", "select", "lock", "close", "wait", "ended"}]
  /\ server \in [Servers -> {"none", "serve", "accept", "backoff", "untrack", "defer",
                             "wait", "returned", "ended"}]
  /\ cancelled \subseteq Servers
  /\ lis \in [Servers -> {"empty", "tracked", "nil"}]
  /\ quit \subseteq Servers /\ done \subseteq Servers
  /\ serveWG \in [Servers -> 0 .. (MaxConns + 1)]
  /\ conns \in [Servers -> 0 .. MaxConns]
  /\ err \in [Servers -> {"nil", "stopped", "closed", "broken"}]
  /\ dead \in BOOLEAN

\* TestACLParseError: a start that fails, and one on a bad ACL always does,
\* holds no port and leaves no goroutine.
FailedStartLeavesNothing ==
  \A s \in Servers : s \in BadAcl \/ start[s] = "failed" =>
    /\ stopper[s] = "none" /\ server[s] = "none"
    /\ ~Listening(s)

\* While the process lives, a port changes hands only when it was free, the
\* context of the server that held it is cancelled, or that server's own Accept
\* has failed for good: another start on the same address, the end of another
\* server or a temporary error takes no port away.
PortKeptUntilCancel ==
  [][\A a \in Addrs : port'[a] # port[a] /\ ~dead' =>
       port[a] = Nobody \/ port[a] \in cancelled \/ err[port[a]] = "broken"]_vars

\* A server whose context is not cancelled accepts calls on its port, or waits
\* to try again, through temporary errors and whatever the other servers do.
\* If it does not, its Accept has failed for good, and log.Fatal is due: it
\* never falls silent in a process that lives on.
AcceptsUntilCancel ==
  \A s \in Servers \ cancelled : server[s] # "none" /\ ~dead =>
    \/ Listening(s) /\ server[s] \in {"serve", "accept", "backoff"}
    \/ err[s] = "broken" /\ server[s] # "ended"

\* A server that is stopped once Serve has begun, as the tests stop it, stops
\* without an error, whatever the others do: that Stop closes the listener or
\* sets s.lis to nil is not what log.Fatal is called for.  Only an Accept that
\* fails for good by itself makes its Serve fail.
CleanStop == \A s \in Patient : err[s] \in {"nil", "broken"}

\* TestServerStartStop: calling finish() stops the server and frees its port.
PortFreed ==
  \A s \in Servers :
    (s \in cancelled /\ start[s] = "started") ~> port[Addr[s]] # s

\* TestServerLeak: both goroutines of a cancelled server end; Stop waits for
\* the WaitGroup of Serve and of the connections, Serve waits for Stop's done
\* event, and neither waits for ever.
StartGoroutinesEnd ==
  \A s \in Servers :
    (s \in cancelled /\ start[s] = "started") ~>
      dead \/ (stopper[s] = "ended" /\ server[s] = "ended" /\ conns[s] = 0)

\* service_test.go: finish() must stop the server, so nothing but an Accept that
\* fails for good may end the process.  Refuted when finish() comes before Serve
\* does: Serve fails with ErrServerStopped and log.Fatal ends the whole process.
StopNeverKills == dead => \E s \in Servers : err[s] = "broken"
=============================================================================
