--------------------------- MODULE LifecycleProofs ---------------------------
(***************************************************************************)
(* Proofs about Lifecycle, for every set of servers and every assignment   *)
(* of addresses: a started server keeps its port until it is cancelled or  *)
(* its Accept fails for good, and one that is cancelled once Serve has     *)
(* begun stops without an error.                                           *)
(***************************************************************************)
EXTENDS Lifecycle, TLAPS

\* How far a start has come decides what there is of its server.
StartOf(s) ==
  /\ s \in BadAcl => start[s] \in {"idle", "failed"}
  /\ start[s] \in {"idle", "listen", "failed"} => ~Listening(s)
  /\ start[s] = "spawn" => Listening(s)
  /\ start[s] = "started" <=> stopper[s] # "none"
  /\ start[s] = "started" <=> server[s] # "none"

\* The stopper works for a cancelled context, and sets lis to nil on its way.
StopperOf(s) ==
  /\ s \in quit <=> stopper[s] \in {"lock", "close", "wait", "ended"}
  /\ s \in quit => s \in cancelled
  /\ lis[s] = "nil" <=> stopper[s] \in {"close", "wait", "ended"}
  /\ stopper[s] = "close" => server[s] \notin {"none", "serve"}

\* Serve has the listener in s.lis, open, until its stopper takes it out or Serve
\* closes it; while it accepts, only its stopper closes it.
ServerOf(s) ==
  /\ server[s] = "serve" => Listening(s)
  /\ server[s] \in {"none", "serve"} => lis[s] # "tracked" /\ conns[s] = 0
  /\ server[s] \in {"accept", "backoff"} => lis[s] \in {"tracked", "nil"}
  /\ server[s] \in {"accept", "backoff"} /\ ~Listening(s) => stopper[s] \in {"wait", "ended"}
  /\ lis[s] = "tracked" => server[s] \in {"accept", "backoff", "untrack"} /\ Listening(s)
  /\ serveWG[s] = conns[s] +
       IF server[s] \in {"accept", "backoff", "untrack", "defer"} THEN 1 ELSE 0

\* Why Serve has ended: nothing but quit makes it return nil, and before quit
\* nothing but Accept itself makes it fail.
ErrOf(s) ==
  /\ server[s] \in {"untrack", "defer", "wait", "returned", "ended"} =>
       s \in quit \/ err[s] = "broken"
  /\ err[s] = "stopped" => server[s] \in {"returned", "ended"} /\ s \in quit
  /\ err[s] = "broken" => server[s] \in {"untrack", "defer", "wait", "returned"}
  /\ err[s] # "closed"

\* A patient caller does not cancel its server before Serve has begun, and Serve
\* does not find it stopped.
PatientOf(s) ==
  s \in Patient => /\ s \in cancelled => server[s] \notin {"none", "serve"}
                   /\ err[s] \in {"nil", "broken"}

LiveOf(s) == StartOf(s) /\ StopperOf(s) /\ ServerOf(s) /\ ErrOf(s) /\ PatientOf(s)

LiveInv == \A s \in Servers : LiveOf(s)

\* After log.Fatal nothing runs and nobody listens; what was true of the
\* failed starts still is.
DeadInv ==
  /\ \A a \in Addrs : port[a] = Nobody
  /\ CleanStop
  /\ \A s \in Servers : s \in BadAcl \/ start[s] = "failed" =>
       stopper[s] = "none" /\ server[s] = "none"

IInv == TypeOK /\ (IF dead THEN DeadInv ELSE LiveInv)
-----------------------------------------------------------------------------
\* The initial state satisfies the inductive invariant.
LEMMA InitInv == Init => IInv
<1> SUFFICES ASSUME Init PROVE IInv
  OBVIOUS
<1>1. TypeOK
  <2>1. /\ serveWG \in [Servers -> 0 .. (MaxConns + 1)] /\ conns \in [Servers -> 0 .. MaxConns]
        /\ lis \in [Servers -> {"empty", "tracked", "nil"}]
        /\ err \in [Servers -> {"nil", "stopped", "closed", "broken"}]
    BY ServerAssumption DEF Init
  <2>2. port \in [Addrs -> Servers \cup {Nobody}] /\ cancelled \subseteq Servers /\ dead \in BOOLEAN
    BY DEF Init
  <2>3. quit \subseteq Servers /\ done \subseteq Servers
    BY DEF Init
  <2> QED
    BY <2>1, <2>2, <2>3 DEF Init, TypeOK
<1>2. ASSUME NEW s \in Servers PROVE LiveOf(s)
  BY ServerAssumption
     DEF Init, LiveOf, StartOf, StopperOf, ServerOf, ErrOf, PatientOf, Listening
<1> QED
  BY <1>1, <1>2 DEF IInv, LiveInv, Init

\* A step of one server leaves what is known of another alone, as long as the
\* other's listener stays as it is.
LEMMA OtherServer ==
  ASSUME NEW t \in Servers, LiveOf(t),
         start'[t] = start[t], stopper'[t] = stopper[t], server'[t] = server[t],
         lis'[t] = lis[t], serveWG'[t] = serveWG[t], conns'[t] = conns[t], err'[t] = err[t],
         t \in cancelled' <=> t \in cancelled, t \in quit' <=> t \in quit,
         port'[Addr[t]] = t <=> port[Addr[t]] = t
  PROVE  LiveOf(t)'
BY DEF LiveOf, StartOf, StopperOf, ServerOf, ErrOf, PatientOf, Listening

\* Closing a listener takes no port from another server.
LEMMA ClosedOther ==
  ASSUME TypeOK, NEW s \in Servers, NEW t \in Servers \ {s}, port' = Closed(s)
  PROVE  port'[Addr[t]] = t <=> port[Addr[t]] = t
BY ServerAssumption DEF TypeOK, Closed, Listening

\* Closing a listener closes it.
LEMMA ClosedOwn ==
  ASSUME TypeOK, NEW s \in Servers, port' = Closed(s)
  PROVE  port' \in [Addrs -> Servers \cup {Nobody}] /\ port'[Addr[s]] # s
BY ServerAssumption DEF TypeOK, Closed, Listening

\* Each step of s but the one that ends the process leaves the ports alone, takes
\* a free one, or closes the listener of s.
LEMMA PortStep ==
  ASSUME NEW s \in Servers, Step(s), ~dead'
  PROVE  Listen(s) \/ port' = Closed(s) \/ port' = port
BY DEF Step, ParseAcl, Starter, Spawn, Cancel, Stopper, FireQuit, TakeListeners, CloseListener,
       FireDone, Server, EnterServe, Backoff, Fail, AcceptFails, Untrack, LeaveServe, AwaitDone,
       Served, Network, Accept, AcceptTemporary, AcceptBreaks, HandleRawConn

\* A step of s changes nothing of another server but its port.
LEMMA OwnStep ==
  ASSUME TypeOK, NEW s \in Servers, Step(s), NEW t \in Servers \ {s}
  PROVE  /\ start'[t] = start[t] /\ stopper'[t] = stopper[t] /\ server'[t] = server[t]
         /\ lis'[t] = lis[t] /\ serveWG'[t] = serveWG[t]
         /\ conns'[t] = conns[t] /\ err'[t] = err[t]
         /\ t \in cancelled' <=> t \in cancelled
         /\ t \in quit' <=> t \in quit
         /\ t \in done' <=> t \in done
<1>1. CASE ParseAcl(s) \/ Starter(s) \/ Cancel(s)
  BY <1>1 DEF TypeOK, Starting, ParseAcl, Starter, Listen, Spawn, Cancel, goVars, grpcVars
<1>2. CASE Stopper(s)
  BY <1>2 DEF TypeOK, Stopping, Stopper, FireQuit, TakeListeners, CloseListener, FireDone, grpcVars
<1>3. CASE EnterServe(s) \/ Backoff(s) \/ AcceptFails(s) \/ AcceptBreaks(s) \/ AcceptTemporary(s)
  BY <1>3 DEF TypeOK, Serving, EnterServe, Backoff, Fail, AcceptFails, AcceptBreaks,
              AcceptTemporary, grpcVars
<1>4. CASE Untrack(s) \/ LeaveServe(s) \/ AwaitDone(s) \/ Served(s)
  BY <1>4 DEF TypeOK, Serving, Untrack, LeaveServe, DoneWG, AwaitDone, Served, grpcVars
<1>5. CASE Accept(s) \/ HandleRawConn(s)
  BY <1>5 DEF TypeOK, Accept, HandleRawConn, goVars
<1> QED
  BY <1>1, <1>2, <1>3, <1>4, <1>5 DEF Step, Server, Network

\* What each kind of step makes of the server it is a step of, and of the rest.
LEMMA LiveStep ==
  ASSUME IInv, ~dead, NEW s \in Servers, Step(s), ~dead'
  PROVE  LiveInv'
<1> USE ServerAssumption
<1>0. TypeOK /\ \A t \in Servers : LiveOf(t)
  BY DEF IInv, LiveInv
<1>1. ASSUME NEW t \in Servers \ {s} PROVE LiveOf(t)'
  <2>1. port'[Addr[t]] = t <=> port[Addr[t]] = t
    <3>1. CASE Listen(s)
      BY <1>0, <3>1 DEF Listen, Free, TypeOK
    <3>2. CASE port' = Closed(s)
      BY <1>0, <3>2, ClosedOther
    <3> QED
      BY <3>1, <3>2, PortStep
  <2> QED
    BY <1>0, <2>1, OwnStep, OtherServer
<1>2. StartOf(s) /\ StopperOf(s) /\ ServerOf(s) /\ ErrOf(s) /\ PatientOf(s)
  BY <1>0 DEF LiveOf
<1> DEFINE Own == StartOf(s)' /\ StopperOf(s)' /\ ServerOf(s)' /\ ErrOf(s)' /\ PatientOf(s)'
<1>3. CASE ParseAcl(s)
  <2>1. Own
    BY <1>0, <1>2, <1>3
       DEF ParseAcl, Parsed, Starting, TypeOK, StartOf, StopperOf, ServerOf, ErrOf, PatientOf,
           Listening, grpcVars
  <2> QED
    BY <1>1, <2>1 DEF LiveInv, LiveOf
<1>4. CASE Listen(s)
  <2>1. Own
    BY <1>0, <1>2, <1>4
       DEF Listen, Starting, TypeOK, StartOf, StopperOf, ServerOf, ErrOf, PatientOf, Listening,
           grpcVars
  <2> QED
    BY <1>1, <2>1 DEF LiveInv, LiveOf
<1>5. CASE Spawn(s)
  <2>1. Own
    BY <1>0, <1>2, <1>5
       DEF Spawn, Starting, TypeOK, StartOf, StopperOf, ServerOf, ErrOf, PatientOf, Listening, grpcVars
  <2> QED
    BY <1>1, <2>1 DEF LiveInv, LiveOf
<1>6. CASE Cancel(s)
  <2>1. Own
    BY <1>0, <1>2, <1>6
       DEF Cancel, TypeOK, StartOf, StopperOf, ServerOf, ErrOf, PatientOf, Listening, grpcVars,
           goVars
  <2> QED
    BY <1>1, <2>1 DEF LiveInv, LiveOf
<1>7. CASE FireQuit(s) \/ TakeListeners(s) \/ FireDone(s)
  <2>1. Own
    BY <1>0, <1>2, <1>7
       DEF CtxDone, FireQuit, TakeListeners, FireDone, Stopping, TypeOK, StartOf, StopperOf,
           ServerOf, ErrOf, PatientOf, Listening
  <2> QED
    BY <1>1, <2>1 DEF LiveInv, LiveOf
<1>8. CASE CloseListener(s)
  <2>1. port'[Addr[s]] # s
    BY <1>0, <1>8, ClosedOwn DEF CloseListener
  <2>2. Own
    BY <1>0, <1>2, <1>8, <2>1
       DEF CloseListener, Stopping, TypeOK, StartOf, StopperOf, ServerOf, ErrOf, PatientOf,
           Listening, grpcVars
  <2> QED
    BY <1>1, <2>2 DEF LiveInv, LiveOf
<1>9. CASE EnterServe(s)
  <2>1. CASE lis[s] = "nil"
    <3>1. port'[Addr[s]] # s
      BY <1>0, <1>9, <2>1, ClosedOwn DEF EnterServe
    <3>2. s \in quit /\ s \notin Patient
      BY <1>2, <1>9, <2>1 DEF EnterServe, Serving, StopperOf, PatientOf
    <3>3. Own
      BY <1>0, <1>2, <1>9, <2>1, <3>1, <3>2
         DEF EnterServe, Serving, TypeOK, StartOf, StopperOf, ServerOf, ErrOf, PatientOf, Listening
    <3> QED
      BY <1>1, <3>3 DEF LiveInv, LiveOf
  <2>2. CASE lis[s] # "nil"
    <3>1. Own
      BY <1>0, <1>2, <1>9, <2>2
         DEF EnterServe, Serving, TypeOK, StartOf, StopperOf, ServerOf, ErrOf, PatientOf, Listening
    <3> QED
      BY <1>1, <3>1 DEF LiveInv, LiveOf
  <2> QED
    BY <2>1, <2>2
<1>10. CASE Accept(s) \/ HandleRawConn(s)
  <2>1. Own
    BY <1>0, <1>2, <1>10
       DEF Accept, HandleRawConn, TypeOK, StartOf, StopperOf, ServerOf, ErrOf, PatientOf,
           Listening, goVars
  <2> QED
    BY <1>1, <2>1 DEF LiveInv, LiveOf
<1>11. CASE AcceptTemporary(s) \/ Backoff(s)
  <2>1. Own
    BY <1>0, <1>2, <1>11
       DEF AcceptTemporary, Backoff, Again, Serving, TypeOK, StartOf, StopperOf, ServerOf,
           ErrOf, PatientOf, Listening, grpcVars
  <2> QED
    BY <1>1, <2>1 DEF LiveInv, LiveOf
<1>12. CASE AcceptFails(s)
  <2>1. s \in quit
    BY <1>2, <1>12 DEF AcceptFails, Fail, Serving, StopperOf, ServerOf
  <2>2. Own
    BY <1>0, <1>2, <1>12, <2>1
       DEF AcceptFails, Fail, QuitFired, Serving, TypeOK, StartOf, StopperOf, ServerOf, ErrOf,
           PatientOf, Listening
  <2> QED
    BY <1>1, <2>2 DEF LiveInv, LiveOf
<1>13. CASE AcceptBreaks(s)
  <2>1. Own
    BY <1>0, <1>2, <1>13
       DEF AcceptBreaks, Fail, QuitFired, Serving, TypeOK, StartOf, StopperOf, ServerOf, ErrOf,
           PatientOf, Listening
  <2> QED
    BY <1>1, <2>1 DEF LiveInv, LiveOf
<1>14. CASE Untrack(s)
  <2>1. lis[s] = "tracked" => port'[Addr[s]] # s
    BY <1>0, <1>14, ClosedOwn DEF Untrack
  <2>2. Own
    BY <1>0, <1>2, <1>14, <2>1
       DEF Untrack, Serving, TypeOK, StartOf, StopperOf, ServerOf, ErrOf, PatientOf, Listening
  <2> QED
    BY <1>1, <2>2 DEF LiveInv, LiveOf
<1>15. CASE LeaveServe(s)
  <2>1. Own
    BY <1>0, <1>2, <1>15
       DEF LeaveServe, DoneWG, Serving, TypeOK, StartOf, StopperOf, ServerOf, ErrOf, PatientOf,
           Listening
  <2> QED
    BY <1>1, <2>1 DEF LiveInv, LiveOf
<1>16. CASE AwaitDone(s) \/ Served(s)
  <2>1. port' = port /\ (Served(s) => err[s] = "nil")
    BY <1>16 DEF AwaitDone, Served
  <2>2. Own
    BY <1>0, <1>2, <1>16, <2>1
       DEF AwaitDone, Served, Serving, TypeOK, StartOf, StopperOf, ServerOf, ErrOf, PatientOf,
           Listening, grpcVars
  <2> QED
    BY <1>1, <2>2 DEF LiveInv, LiveOf
<1> QED
  BY <1>3, <1>4, <1>5, <1>6, <1>7, <1>8, <1>9, <1>10, <1>11, <1>12, <1>13, <1>14, <1>15, <1>16
     DEF Step, Starter, Stopper, Server, Network

\* Every step keeps the types.
LEMMA TypeStep ==
  ASSUME IInv, ~dead, NEW s \in Servers, Step(s)
  PROVE  TypeOK'
<1> USE ServerAssumption
<1>0. TypeOK /\ StopperOf(s) /\ ServerOf(s)
  BY DEF IInv, LiveInv, LiveOf
<1>1. CASE ParseAcl(s) \/ Starter(s) \/ Cancel(s)
  BY <1>0, <1>1
     DEF TypeOK, Starting, ParseAcl, Parsed, Starter, Listen, Spawn, Cancel, grpcVars, goVars
<1>2. CASE FireQuit(s) \/ TakeListeners(s) \/ FireDone(s)
  BY <1>0, <1>2 DEF TypeOK, Stopping, FireQuit, TakeListeners, FireDone
<1>3. CASE CloseListener(s)
  BY <1>0, <1>3, ClosedOwn DEF TypeOK, Stopping, CloseListener, grpcVars
<1>4. CASE EnterServe(s)
  <2>1. CASE lis[s] = "nil"
    BY <1>0, <1>4, <2>1, ClosedOwn DEF TypeOK, Serving, EnterServe
  <2>2. CASE lis[s] # "nil"
    <3>1. serveWG'[s] = 1 /\ serveWG' \in [Servers -> 0 .. (MaxConns + 1)]
      BY <1>0, <1>4, <2>2 DEF TypeOK, EnterServe, Serving, ServerOf
    <3> QED
      BY <1>0, <1>4, <2>2, <3>1 DEF TypeOK, Serving, EnterServe
  <2> QED
    BY <2>1, <2>2
<1>5. CASE Accept(s) \/ HandleRawConn(s)
  <2>1. serveWG' \in [Servers -> 0 .. (MaxConns + 1)] /\ conns' \in [Servers -> 0 .. MaxConns]
    BY <1>0, <1>5 DEF TypeOK, Accept, HandleRawConn, ServerOf
  <2> QED
    BY <1>0, <1>5, <2>1 DEF TypeOK, Accept, HandleRawConn, goVars
<1>6. CASE LeaveServe(s)
  <2>1. serveWG' \in [Servers -> 0 .. (MaxConns + 1)]
    BY <1>0, <1>6 DEF TypeOK, LeaveServe, DoneWG, Serving, ServerOf
  <2> QED
    BY <1>0, <1>6, <2>1 DEF TypeOK, LeaveServe, Serving
<1>7. CASE AcceptFails(s) \/ AcceptBreaks(s)
  BY <1>0, <1>7 DEF TypeOK, Serving, AcceptFails, AcceptBreaks, Fail
<1>8. CASE AcceptTemporary(s) \/ Backoff(s) \/ AwaitDone(s)
  BY <1>0, <1>8 DEF TypeOK, Serving, AcceptTemporary, Backoff, Again, AwaitDone, grpcVars
<1>9. CASE Untrack(s)
  <2>1. port' \in [Addrs -> Servers \cup {Nobody}]
    BY <1>0, <1>9, ClosedOwn DEF TypeOK, Untrack
  <2> QED
    BY <1>0, <1>9, <2>1 DEF TypeOK, Serving, Untrack
<1>10. CASE Served(s)
  <2>1. dead' \in BOOLEAN
    BY <1>10 DEF Served
  <2>2. port' \in [Addrs -> Servers \cup {Nobody}]
    BY <1>0, <1>10 DEF TypeOK, Served
  <2> QED
    BY <1>0, <1>10, <2>1, <2>2 DEF TypeOK, Serving, Served, grpcVars
<1> QED
  BY <1>1, <1>2, <1>3, <1>4, <1>5, <1>6, <1>7, <1>8, <1>9, <1>10 DEF Step, Stopper, Server, Network

\* A server that kills the process was cancelled by an impatient caller, or its
\* Accept failed for good.
LEMMA DeadStep ==
  ASSUME IInv, ~dead, NEW s \in Servers, Step(s), dead'
  PROVE  DeadInv'
<1>1. Served(s) /\ err[s] # "nil"
  BY DEF Step, ParseAcl, Starter, Listen, Spawn, Cancel, Stopper, FireQuit, TakeListeners,
         CloseListener, FireDone, Server, EnterServe, Backoff, AcceptFails, Fail, Untrack,
         LeaveServe, AwaitDone, Served, Network, Accept, AcceptTemporary, AcceptBreaks,
         HandleRawConn
<1>2. TypeOK /\ \A t \in Servers : StartOf(t) /\ PatientOf(t)
  BY DEF IInv, LiveInv, LiveOf
<1>3. \A a \in Addrs : port'[a] = Nobody
  BY <1>1 DEF Served
<1>4. CleanStop'
  BY <1>1, <1>2, ServerAssumption DEF Served, grpcVars, PatientOf, CleanStop
<1>5. ASSUME NEW t \in Servers, t \in BadAcl \/ start'[t] = "failed"
      PROVE  stopper'[t] = "none" /\ server'[t] = "none"
  <2>1. stopper[t] = "none" /\ server[t] = "none"
    BY <1>1, <1>2, <1>5 DEF Served, StartOf
  <2>2. t # s
    BY <1>1, <2>1 DEF Served, Serving
  <2> QED
    BY <1>1, <1>2, <2>1, <2>2 DEF Served, Serving, TypeOK
<1> QED
  BY <1>3, <1>4, <1>5 DEF DeadInv

\* The conjunction is an invariant of every behaviour.
THEOREM Invariance == Spec => []IInv
<1>1. Init => IInv
  BY InitInv
<1>2. IInv /\ [Next]_vars => IInv'
  <2> SUFFICES ASSUME IInv, [Next]_vars PROVE IInv'
    OBVIOUS
  <2>1. CASE UNCHANGED vars
    BY <2>1 DEF vars, IInv, TypeOK, DeadInv, CleanStop, LiveInv, LiveOf, StartOf, StopperOf,
                ServerOf, ErrOf, PatientOf, Listening
  <2>2. CASE Next
    BY <2>2, TypeStep, LiveStep, DeadStep DEF Next, IInv
  <2> QED
    BY <2>1, <2>2
<1> QED
  BY <1>1, <1>2, PTL DEF Spec

\* The variables have their types; the WaitGroup stays within the goroutines it counts.
THEOREM TypeCorrect == Spec => []TypeOK
<1>1. IInv => TypeOK
  BY DEF IInv
<1> QED
  BY <1>1, Invariance, PTL

\* A start that fails leaves nothing behind.
THEOREM FailedStart == Spec => []FailedStartLeavesNothing
<1>1. IInv => FailedStartLeavesNothing
  BY ServerAssumption
     DEF IInv, LiveInv, LiveOf, DeadInv, StartOf, Listening, FailedStartLeavesNothing
<1> QED
  BY <1>1, Invariance, PTL

\* A server whose context is not cancelled accepts calls, through temporary errors of
\* Accept, or its Accept has failed for good and log.Fatal is due.
THEOREM Accepts == Spec => []AcceptsUntilCancel
<1>1. IInv => AcceptsUntilCancel
  <2> SUFFICES ASSUME IInv, NEW s \in Servers \ cancelled, server[s] # "none", ~dead
               PROVE  \/ Listening(s) /\ server[s] \in {"serve", "accept", "backoff"}
                      \/ err[s] = "broken" /\ server[s] # "ended"
    BY DEF AcceptsUntilCancel
  <2>1. /\ StopperOf(s) /\ ServerOf(s) /\ ErrOf(s)
        /\ server[s] \in {"none", "serve", "accept", "backoff", "untrack", "defer", "wait",
                          "returned", "ended"}
    BY DEF IInv, LiveInv, LiveOf, TypeOK
  <2>2. s \notin quit /\ stopper[s] \notin {"wait", "ended"}
    BY <2>1 DEF StopperOf
  <2>3. CASE server[s] \in {"serve", "accept", "backoff"}
    BY <2>1, <2>2, <2>3 DEF ServerOf
  <2>4. CASE server[s] \in {"untrack", "defer", "wait", "returned", "ended"}
    BY <2>1, <2>2, <2>4 DEF ErrOf
  <2> QED
    BY <2>1, <2>3, <2>4
<1> QED
  BY <1>1, Invariance, PTL

\* Stopping a server whose Serve has begun never makes its Serve fail.
THEOREM StopsCleanly == Spec => []CleanStop
<1>1. IInv => CleanStop
  BY ServerAssumption DEF IInv, DeadInv, LiveInv, LiveOf, PatientOf, CleanStop
<1> QED
  BY <1>1, Invariance, PTL

\* While the process lives, no port is taken from a server that is not
\* cancelled and whose Accept works, by other starts or by other servers that end.
THEOREM PortKept == Spec => PortKeptUntilCancel
<1> DEFINE Kept == \A a \in Addrs : port'[a] # port[a] /\ ~dead' =>
                     port[a] = Nobody \/ port[a] \in cancelled \/ err[port[a]] = "broken"
<1>1. IInv /\ [Next]_vars => [Kept]_vars
  <2> SUFFICES ASSUME IInv, Next, NEW a \in Addrs, port'[a] # port[a], ~dead', port[a] # Nobody
               PROVE  port[a] \in cancelled \/ err[port[a]] = "broken"
    OBVIOUS
  <2>1. PICK s \in Servers : Step(s)
    BY DEF Next
  <2>2. TypeOK /\ StopperOf(s) /\ ServerOf(s) /\ ErrOf(s)
    BY DEF IInv, LiveInv, LiveOf, Next
  <2>3. ~Listen(s)
    BY <2>2, ServerAssumption DEF Listen, Free, TypeOK
  <2>4. port' = Closed(s)
    BY <2>1, <2>3, PortStep
  <2>5. CloseListener(s) \/ (EnterServe(s) /\ lis[s] = "nil") \/ Untrack(s)
    BY <2>1, <2>3
       DEF Step, ParseAcl, Starter, Spawn, Cancel, Stopper, FireQuit, TakeListeners, FireDone,
           Server, EnterServe, Backoff, AcceptFails, Fail, LeaveServe, AwaitDone, Served,
           Network, Accept, AcceptTemporary, AcceptBreaks, HandleRawConn
  <2>6. s \in cancelled \/ err[s] = "broken"
    BY <2>2, <2>5 DEF CloseListener, Stopping, EnterServe, Untrack, Serving, StopperOf, ErrOf
  <2>7. Addr[s] = a /\ port[a] = s
    BY <2>2, <2>4, ServerAssumption DEF Closed, Listening, TypeOK
  <2> QED
    BY <2>6, <2>7
<1> QED
  BY <1>1, Invariance, PTL DEF Spec, PortKeptUntilCancel
-----------------------------------------------------------------------------
(***************************************************************************)
(* Progress.  Stop and Serve of a cancelled server wait for each other:    *)
(* Stop for the WaitGroup of Serve and of the connections, Serve for the   *)
(* end of Accept and for Stop's done event.  StartGoroutinesEnd needs      *)
(* fairness; that they never wait in a circle does not.                    *)
(***************************************************************************)

\* The stopper, or the server, of s does not block.
StopperCanGo(s) ==
  \/ stopper[s] = "select" /\ s \in cancelled
  \/ stopper[s] \in {"lock", "close"}
  \/ stopper[s] = "wait" /\ serveWG[s] = 0
ServerCanGo(s) ==
  \/ server[s] \in {"serve", "backoff", "untrack", "defer", "returned"}
  \/ server[s] = "accept" /\ ~Listening(s)
  \/ server[s] = "wait" /\ s \in done

NoDeadlock ==
  \A s \in cancelled : start[s] = "started" /\ ~dead =>
    \/ stopper[s] = "ended" /\ server[s] = "ended"
    \/ StopperCanGo(s) \/ ServerCanGo(s) \/ conns[s] > 0

\* Stop waits for Serve only when the listener it accepts from is closed, and fires done
\* when it ends.
StopOf(s) ==
  /\ stopper[s] \in {"wait", "ended"} /\ server[s] \in {"accept", "backoff"} => ~Listening(s)
  /\ stopper[s] = "ended" => s \in done
StopInv == ~dead => \A s \in Servers : StopOf(s)

\* A step of one server leaves what Stop and Serve of another wait for as it is.
LEMMA OtherStop ==
  ASSUME NEW t \in Servers, StopOf(t),
         stopper'[t] = stopper[t], server'[t] = server[t],
         t \in done => t \in done', Listening(t)' => Listening(t)
  PROVE  StopOf(t)'
BY DEF StopOf

\* Every step of a living process keeps what Stop and Serve wait for.
LEMMA StopStep ==
  ASSUME IInv, ~dead, ~dead', \A t \in Servers : StopOf(t), NEW s \in Servers, Step(s)
  PROVE  \A t \in Servers : StopOf(t)'
<1>0. /\ TypeOK /\ \A t \in Servers : StartOf(t) /\ StopperOf(t) /\ ServerOf(t)
      /\ Nobody \notin Servers
  BY ServerAssumption DEF IInv, LiveInv, LiveOf
<1> USE <1>0
<1>1. ASSUME NEW t \in Servers \ {s} PROVE StopOf(t)'
  <2>1. Listening(t)' => Listening(t)
    <3>1. CASE Listen(s)
      BY <3>1, ServerAssumption DEF Listen, Listening, TypeOK
    <3>2. CASE port' = port
      BY <3>2 DEF Listening
    <3>3. CASE port' = Closed(s)
      BY <3>3, ClosedOther DEF Listening
    <3> QED
      BY <3>1, <3>2, <3>3, PortStep
  <2> QED
    BY <2>1, OwnStep, OtherStop
<1>2. StopOf(s)'
  <2>1. CASE ParseAcl(s) \/ Cancel(s)
    BY <2>1, OtherStop DEF ParseAcl, Cancel, Listening, goVars, grpcVars
  <2>2. CASE Listen(s)
    <3>1. stopper[s] = "none" /\ stopper' = stopper
      BY <2>2 DEF Listen, Starting, StartOf
    <3> QED
      BY <3>1 DEF StopOf
  <2>3. CASE Spawn(s)
    <3>1. stopper'[s] = "select"
      BY <2>3 DEF Spawn, TypeOK
    <3> QED
      BY <3>1 DEF StopOf
  <2>4. CASE FireQuit(s)
    <3>1. stopper'[s] = "lock"
      BY <2>4 DEF FireQuit, Stopping, TypeOK
    <3> QED
      BY <3>1 DEF StopOf
  <2>5. CASE TakeListeners(s)
    <3>1. /\ stopper[s] = "lock" /\ stopper'[s] = IF lis[s] = "tracked" THEN "close" ELSE "wait"
          /\ server' = server
      BY <2>5 DEF TakeListeners, Stopping, TypeOK
    <3>2. server[s] \in {"accept", "backoff"} => lis[s] = "tracked"
      BY <3>1 DEF ServerOf, StopperOf
    <3> QED
      BY <3>1, <3>2 DEF StopOf
  <2>6. CASE CloseListener(s)
    <3>1. stopper'[s] = "wait" /\ port' = Closed(s)
      BY <2>6 DEF CloseListener, Stopping, TypeOK
    <3>2. ~Listening(s)'
      BY <3>1, ClosedOwn DEF Listening
    <3> QED
      BY <3>1, <3>2 DEF StopOf
  <2>7. CASE FireDone(s)
    <3>1. conns[s] \in Nat
      BY ServerAssumption DEF TypeOK
    <3>2. server[s] \notin {"accept", "backoff"} /\ server' = server /\ s \in done'
      BY <2>7, <3>1 DEF FireDone, ServerOf
    <3> QED
      BY <3>2 DEF StopOf
  <2>8. CASE EnterServe(s)
    <3>1. lis[s] # "nil" => stopper[s] \notin {"wait", "ended"}
      BY DEF StopperOf
    <3>2. /\ stopper' = stopper /\ done' = done
          /\ server'[s] = IF lis[s] = "nil" THEN "returned" ELSE "accept"
      BY <2>8 DEF EnterServe, Serving, TypeOK
    <3> QED
      BY <3>1, <3>2 DEF StopOf
  <2>9. CASE AcceptTemporary(s) \/ Backoff(s)
    <3>1. /\ stopper' = stopper /\ done' = done /\ port' = port
          /\ server[s] \in {"accept", "backoff"}
      BY <2>9 DEF AcceptTemporary, Backoff, Serving, grpcVars
    <3> QED
      BY <3>1 DEF StopOf, Listening
  <2>10. CASE Accept(s) \/ HandleRawConn(s)
    BY <2>10, OtherStop DEF Accept, HandleRawConn, Listening, goVars
  <2>11. CASE \/ AcceptFails(s) \/ AcceptBreaks(s) \/ Untrack(s) \/ LeaveServe(s)
              \/ AwaitDone(s) \/ Served(s)
    <3>1. stopper' = stopper /\ done' = done /\ server'[s] \notin {"accept", "backoff"}
      BY <2>11 DEF AcceptFails, AcceptBreaks, Fail, Untrack, LeaveServe, AwaitDone, Served,
                   Serving, TypeOK, grpcVars
    <3> QED
      BY <3>1 DEF StopOf
  <2> QED
    BY <2>1, <2>2, <2>3, <2>4, <2>5, <2>6, <2>7, <2>8, <2>9, <2>10, <2>11
       DEF Step, Starter, Stopper, Server, Network
<1> QED
  BY <1>1, <1>2

\* Stop and Serve never deadlock: of a cancelled server that has started, one of the two
\* goroutines or a connection in its handshake can go on until both have ended.
THEOREM StopNeverDeadlocks == Spec => []NoDeadlock
<1>1. Init => StopInv
  BY DEF Init, StopInv, StopOf
<1>2. IInv /\ StopInv /\ [Next]_vars => StopInv'
  <2> SUFFICES ASSUME IInv, StopInv, [Next]_vars, ~dead' PROVE \A t \in Servers : StopOf(t)'
    BY DEF StopInv
  <2>1. CASE UNCHANGED vars
    BY <2>1 DEF vars, StopInv, StopOf, Listening
  <2>2. CASE Next
    <3>1. PICK s \in Servers : Step(s)
      BY <2>2 DEF Next
    <3>2. ~dead /\ \A t \in Servers : StopOf(t)
      BY <2>2 DEF Next, StopInv
    <3> QED
      BY <3>1, <3>2, StopStep
  <2> QED
    BY <2>1, <2>2
<1>3. IInv /\ StopInv => NoDeadlock
  <2> SUFFICES ASSUME IInv, StopInv, NEW s \in cancelled, start[s] = "started", ~dead
               PROVE  \/ stopper[s] = "ended" /\ server[s] = "ended"
                      \/ StopperCanGo(s) \/ ServerCanGo(s) \/ conns[s] > 0
    BY DEF NoDeadlock
  <2>1. /\ s \in Servers /\ StopOf(s) /\ StartOf(s) /\ ServerOf(s)
        /\ stopper[s] \in {"none", "select", "lock", "close", "wait", "ended"}
        /\ server[s] \in {"none", "serve", "accept", "backoff", "untrack", "defer", "wait",
                          "returned", "ended"}
        /\ conns[s] \in Nat
    BY ServerAssumption DEF IInv, StopInv, LiveInv, LiveOf, TypeOK
  <2>2. stopper[s] # "none" /\ server[s] # "none"
    BY <2>1 DEF StartOf
  <2>3. CASE stopper[s] \in {"select", "lock", "close"}
    BY <2>3 DEF StopperCanGo
  <2>4. CASE stopper[s] = "wait"
    <3>1. \/ serveWG[s] = 0 \/ conns[s] > 0
          \/ server[s] \in {"accept", "backoff", "untrack", "defer"}
      BY <2>1 DEF ServerOf
    <3> QED
      BY <2>1, <2>4, <3>1 DEF StopOf, StopperCanGo, ServerCanGo
  <2>5. CASE stopper[s] = "ended"
    BY <2>1, <2>2, <2>5 DEF StopOf, ServerCanGo
  <2> QED
    BY <2>1, <2>2, <2>3, <2>4, <2>5
<1> QED
  BY <1>1, <1>2, <1>3, Invariance, PTL DEF Spec
=============================================================================
