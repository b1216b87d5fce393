---------------------------- MODULE Microservice ----------------------------
(***************************************************************************)
(* The request path of the gRPC service of hw7_microservice/service.go:    *)
(* every call runs in a goroutine of its own through the ACL interceptor,  *)
(* logstash (an event to every logging stream), statistics (a count in     *)
(* every statistics stream) and then its handler.  The goroutines share    *)
(* the fields of Admin; mu guards the two maps, nothing guards the two     *)
(* counters.  What one Lock/Unlock pair encloses without blocking is one   *)
(* action; logstash, which blocks on channels under mu, is several.        *)
(*                                                                         *)
(* A logging channel is named by the call that made it, a Stat by the set  *)
(* of calls counted in it: ByMethod and ByConsumer count the members by    *)
(* FullMethod and by consumer.                                             *)
(***************************************************************************)
EXTENDS AccessControl, Integers

CONSTANTS BizCalls,    \* unary calls: Check, Add, Test
          LogCalls,    \* Admin.Logging streams
          StatCalls,   \* Admin.Statistics streams
          Acl,         \* the parsed ACL: consumer -> sequence of entries
          Metadata,    \* call -> values of its "consumer" metadata key
          FullMethod,  \* call -> <<service, name>>
          MayLeave,    \* the calls whose client may disconnect
          MayStall,    \* the streams whose client may stop reading
          Window,      \* the sends that a stream takes ahead of its client
          MayStop,     \* whether the server's context may be cancelled
          None         \* no holder, no event in hand

Calls == BizCalls \cup LogCalls \cup StatCalls

ASSUME CallAssumption ==
  /\ BizCalls \cap LogCalls = {}
  /\ BizCalls \cap StatCalls = {}
  /\ LogCalls \cap StatCalls = {}
  /\ None \notin Calls
  /\ MayLeave \subseteq Calls
  /\ MayStall \subseteq LogCalls \cup StatCalls
  /\ Window \in Nat \ {0}
  /\ MayStop \in BOOLEAN

VARIABLES
  mu,            \* Admin.mu: the call that holds it, or None
  uuid,          \* Admin.uuid
  logsChannels,  \* Admin.logsChannels: id -> channel
  statuuid,      \* Admin.statuuid
  stats,         \* Admin.stats: id -> the calls counted in it
  pc,            \* where the goroutine of each call is
  tmp,           \* the value a goroutine loaded for its x++
  id,            \* Statistics: the local uuid
  pending,       \* logstash: ids of the map the range has yet to visit
  hand,          \* Logging: the event received and not yet sent
  done,          \* the calls whose stream context is done
  stopped,       \* grpc.Server.Stop was called
  unread,        \* the sends on each stream that its client has yet to read
  \* history
  published,     \* the calls in the order their events were broadcast
  joined,        \* Len(published) when a logging stream registered
  delivered,     \* the events sent on each logging stream
  counted,       \* the calls statistics has counted
  since,         \* counted when a statistics stream made its first Stat
  reported,      \* the calls in the Stats sent on a statistics stream
  missed         \* the calls counted between its report and its next Stat

adminVars == <<mu, uuid, logsChannels, statuuid, stats>>
feedHist  == <<published, joined, delivered>>
statHist  == <<counted, since, reported, missed>>
vars == <<mu, uuid, logsChannels, statuuid, stats, pc, tmp, id, pending, hand,
          done, stopped, unread, published, joined, delivered, counted, since,
          reported, missed>>

NotJoined == -1  \* joined of a stream that has not registered

\* m[k] = v on a Go map: k may be new.
Put(m, k, v) == [x \in DOMAIN m \cup {k} |-> IF x = k THEN v ELSE m[x]]

Goto(c, from, to) == pc[c] = from /\ pc' = [pc EXCEPT ![c] = to]

\* The operators named ...Slip are the code with one plausible mistake each.
\* No specification uses them: put in place of the operator they precede, they
\* show that the properties notice the mistake.
FreeSlip == TRUE
UnlockSlip == UNCHANGED mu

\* mu.Lock() returns only while nobody holds mu; mu.Unlock() frees it.
Free == mu = None
Unlock == mu' = None

Init ==
  /\ mu = None
  /\ uuid = 0 /\ statuuid = 0
  /\ logsChannels = [u \in {} |-> None]
  /\ stats = [u \in {} |-> {}]
  /\ pc = [c \in Calls |-> "idle"]
  /\ tmp = [c \in Calls |-> 0]
  /\ id = [c \in StatCalls |-> 0]
  /\ pending = {}
  /\ hand = [l \in LogCalls |-> None]
  /\ done = {} /\ stopped = FALSE
  /\ unread = [s \in LogCalls \cup StatCalls |-> 0]
  /\ published = <<>>
  /\ joined = [l \in LogCalls |-> NotJoined]
  /\ delivered = [l \in LogCalls |-> <<>>]
  /\ counted = {}
  /\ since = [s \in StatCalls |-> {}]
  /\ reported = [s \in StatCalls |-> {}]
  /\ missed = [s \in StatCalls |-> {}]
-----------------------------------------------------------------------------
(***************************************************************************)
(* The interceptors: checkACL, logstash, statistics, then the handler.     *)
(***************************************************************************)

AdmittedSlip(c) == TRUE

Admitted(c) == checkACL(Acl, Metadata[c], FullMethod[c])

\* Unary/StreamACLInterceptor: a call arrives and is admitted or rejected.
Intercept(c) ==
  /\ ~stopped
  /\ Goto(c, "idle", IF Admitted(c) THEN "logstash" ELSE "denied")
  /\ UNCHANGED <<adminVars, tmp, id, pending, hand, done, stopped, unread, feedHist, statHist>>

RangeKeysSlip == DOMAIN logsChannels \ {uuid}
RangeOverSlip == TRUE

\* The range over s.logsChannels: its keys, and its end.
RangeKeys == DOMAIN logsChannels
RangeOver == pending = {}

\* logstash: s.mu.Lock() and the start of the range over logsChannels.
LogstashLock(c) ==
  /\ Free
  /\ Goto(c, "logstash", "broadcast")
  /\ mu' = c
  /\ pending' = RangeKeys
  /\ published' = Append(published, c)
  /\ UNCHANGED <<uuid, logsChannels, statuuid, stats, tmp, id, hand, done,
                 stopped, unread, joined, delivered, statHist>>

\* logstash: ch <- e on an unbuffered channel, which meets the stream's
\* event := <-ch; the map is ranged over in any order.
LogstashSend(c, l) ==
  /\ mu = c
  /\ pc[c] = "broadcast"
  /\ pc[l] = "select"
  /\ \E u \in pending : logsChannels[u] = l /\ pending' = pending \ {u}
  /\ hand' = [hand EXCEPT ![l] = c]
  /\ pc' = [pc EXCEPT ![l] = "send"]
  /\ UNCHANGED <<adminVars, tmp, id, done, stopped, unread, feedHist, statHist>>

\* logstash: the range is over, s.mu.Unlock().
LogstashUnlock(c) ==
  /\ mu = c
  /\ RangeOver
  /\ Goto(c, "broadcast", "statistics")
  /\ Unlock
  /\ UNCHANGED <<uuid, logsChannels, statuuid, stats, tmp, id, pending, hand,
                 done, stopped, unread, feedHist, statHist>>

CountInSlip(c) ==
  [u \in DOMAIN stats |->
     IF \A v \in DOMAIN stats : u <= v THEN stats[u] \cup {c} ELSE stats[u]]

\* The loop over s.stats: every Stat counts the call.
CountIn(c) == [u \in DOMAIN stats |-> stats[u] \cup {c}]

\* statistics: count the call in every Stat, under mu.
Count(c) ==
  /\ Free
  /\ Goto(c, "statistics", "handler")
  /\ stats' = CountIn(c)
  /\ counted' = counted \cup {c}
  /\ missed' = [s \in StatCalls |->
                  IF pc[s] = "restart" THEN missed[s] \cup {c} ELSE missed[s]]
  /\ UNCHANGED <<mu, uuid, logsChannels, statuuid, tmp, id, pending, hand,
                 done, stopped, unread, feedHist, since, reported>>

\* Biz.Check, Biz.Add and Biz.Test answer at once.
Answer(c) ==
  /\ c \in BizCalls
  /\ Goto(c, "handler", "answered")
  /\ UNCHANGED <<adminVars, tmp, id, pending, hand, done, stopped, unread, feedHist, statHist>>
-----------------------------------------------------------------------------
(***************************************************************************)
(* Admin.Logging.  a.uuid++ runs outside mu: a load and a store, between   *)
(* which other goroutines may run, and the key is loaded again under mu.   *)
(***************************************************************************)

IncrementedSlip(c) == tmp[c] - 1

\* The value that x++ stores.
Incremented(c) == tmp[c] + 1

LoggingLoad(l) ==
  /\ l \in LogCalls
  /\ Goto(l, "handler", "store_uuid")
  /\ tmp' = [tmp EXCEPT ![l] = uuid]
  /\ UNCHANGED <<adminVars, id, pending, hand, done, stopped, unread, feedHist, statHist>>

LoggingStore(l) ==
  /\ Goto(l, "store_uuid", "register")
  /\ uuid' = Incremented(l)
  /\ UNCHANGED <<mu, logsChannels, statuuid, stats, tmp, id, pending, hand,
                 done, stopped, unread, feedHist, statHist>>

\* a.mu.Lock(); a.logsChannels[a.uuid] = ch; a.mu.Unlock()
LoggingRegister(l) ==
  /\ Free
  /\ Goto(l, "register", "select")
  /\ logsChannels' = Put(logsChannels, uuid, l)
  /\ joined' = [joined EXCEPT ![l] = Len(published)]
  /\ UNCHANGED <<mu, uuid, statuuid, stats, tmp, id, pending, hand, done,
                 stopped, unread, published, delivered, statHist>>

CanSendSlip(s) == unread[s] < Window

\* Stream.Send: it waits for write quota, which the client gives back by
\* reading, and fails once the context is done (grpc's writeQuota.get).
CanSend(s) == s \in done \/ unread[s] < Window
Send(s) ==
  unread' = IF s \in MayStall \ done THEN [unread EXCEPT ![s] = @ + 1] ELSE unread

\* stream.Send(event), the error of which is ignored.
LoggingSend(l) ==
  /\ Goto(l, "send", "select")
  /\ CanSend(l)
  /\ Send(l)
  /\ hand' = [hand EXCEPT ![l] = None]
  /\ delivered' = IF l \in done THEN delivered
                  ELSE [delivered EXCEPT ![l] = Append(@, hand[l])]
  /\ UNCHANGED <<adminVars, tmp, id, pending, done, stopped, published, joined, statHist>>

\* case <-stream.Context().Done(): the channel stays in logsChannels.
LoggingReturn(l) ==
  /\ l \in done
  /\ Goto(l, "select", "returned")
  /\ UNCHANGED <<adminVars, tmp, id, pending, hand, done, stopped, unread, feedHist, statHist>>
-----------------------------------------------------------------------------
(***************************************************************************)
(* Admin.Statistics.  a.statuuid++ and uuid := a.statuuid run outside mu.  *)
(***************************************************************************)

StatisticsLoad(s) ==
  /\ s \in StatCalls
  /\ Goto(s, "handler", "store_statuuid")
  /\ tmp' = [tmp EXCEPT ![s] = statuuid]
  /\ UNCHANGED <<adminVars, id, pending, hand, done, stopped, unread, feedHist, statHist>>

StatisticsStore(s) ==
  /\ Goto(s, "store_statuuid", "load_statuuid")
  /\ statuuid' = Incremented(s)
  /\ UNCHANGED <<mu, uuid, logsChannels, stats, tmp, id, pending, hand, done,
                 stopped, unread, feedHist, statHist>>

StatisticsId(s) ==
  /\ Goto(s, "load_statuuid", "start")
  /\ id' = [id EXCEPT ![s] = statuuid]
  /\ UNCHANGED <<adminVars, tmp, pending, hand, done, stopped, unread, feedHist, statHist>>

FreshStatSlip(s) ==
  IF id[s] \in DOMAIN stats THEN stats ELSE Put(stats, id[s], {})

\* a.stats[uuid] = &Stat{...}
FreshStat(s) == Put(stats, id[s], {})

\* The head of the loop: a.stats[uuid] = an empty Stat, under mu, and then
\* the sleep of IntervalSeconds.  since is the history of the first time.
StatisticsReset(s) ==
  /\ Free
  /\ pc[s] \in {"start", "restart"}
  /\ pc' = [pc EXCEPT ![s] = "sleep"]
  /\ stats' = FreshStat(s)
  /\ since' = IF pc[s] = "start" THEN [since EXCEPT ![s] = counted] ELSE since
  /\ UNCHANGED <<mu, uuid, logsChannels, statuuid, tmp, id, pending, hand,
                 done, stopped, unread, feedHist, counted, reported, missed>>

\* The sleep is over: a.mu.Lock().
StatisticsWake(s) ==
  /\ Free
  /\ Goto(s, "sleep", "report")
  /\ mu' = s
  /\ UNCHANGED <<uuid, logsChannels, statuuid, stats, tmp, id, pending, hand,
                 done, stopped, unread, feedHist, statHist>>

\* stream.Send(a.stats[uuid]), with mu held, and a.mu.Unlock().  Neither the
\* error nor the context is looked at: the loop goes on after the client left.
StatisticsReport(s) ==
  /\ mu = s
  /\ Goto(s, "report", "restart")
  /\ CanSend(s)
  /\ Send(s)
  /\ Unlock
  /\ reported' = IF s \in done THEN reported
                 ELSE [reported EXCEPT ![s] = @ \cup stats[id[s]]]
  /\ UNCHANGED <<uuid, logsChannels, statuuid, stats, tmp, id, pending, hand,
                 done, stopped, feedHist, counted, since, missed>>
-----------------------------------------------------------------------------
(***************************************************************************)
(* The environment, and the specification.                                 *)
(***************************************************************************)

\* The client of a running call goes away: its context is done.
Leave(c) ==
  /\ c \in MayLeave \ done
  /\ pc[c] # "idle"
  /\ done' = done \cup {c}
  /\ UNCHANGED <<adminVars, pc, tmp, id, pending, hand, stopped, unread, feedHist, statHist>>

\* The context of StartMyMicroservice is cancelled: s.Stop() cancels every
\* call and no new one is accepted.
Stop ==
  /\ MayStop /\ ~stopped
  /\ stopped' = TRUE
  /\ done' = {c \in Calls : pc[c] # "idle"} \cup done
  /\ UNCHANGED <<adminVars, pc, tmp, id, pending, hand, unread, feedHist, statHist>>

\* The client of a stream reads, and gives quota back.
Read(s) ==
  /\ s \notin done
  /\ unread[s] > 0
  /\ unread' = [unread EXCEPT ![s] = @ - 1]
  /\ UNCHANGED <<adminVars, pc, tmp, id, pending, hand, done, stopped, feedHist, statHist>>

\* The steps of the goroutine that serves call c, once it was accepted.
Serve(c) ==
  \/ LogstashLock(c)
  \/ \E l \in LogCalls : LogstashSend(c, l)
  \/ LogstashUnlock(c)
  \/ Count(c)
  \/ Answer(c)
  \/ LoggingLoad(c)
  \/ LoggingStore(c)
  \/ LoggingRegister(c)
  \/ LoggingSend(c)
  \/ LoggingReturn(c)
  \/ StatisticsLoad(c)
  \/ StatisticsStore(c)
  \/ StatisticsId(c)
  \/ StatisticsReset(c)
  \/ StatisticsWake(c)
  \/ StatisticsReport(c)

Next ==
  \/ \E c \in Calls : Intercept(c) \/ Serve(c) \/ Leave(c)
  \/ \E s \in MayStall : Read(s)
  \/ Stop

Spec == Init /\ [][Next]_vars

\* The steps that take mu.
Lock(c) ==
  LogstashLock(c) \/ Count(c) \/ LoggingRegister(c) \/ StatisticsReset(c) \/ StatisticsWake(c)

\* The Go scheduler runs every runnable goroutine and a sleep ends: weak
\* fairness of every goroutine.  A sync.Mutex lets no waiter starve: strong
\* fairness of the steps that take it.  Nothing obliges a client to call, to
\* read or to leave, or the server to stop.
FairSpec == Spec /\ \A c \in Calls : WF_vars(Serve(c)) /\ SF_vars(Lock(c))

\* The clients go on reading.
ClientsRead == \A s \in MayStall : WF_vars(Read(s))
-----------------------------------------------------------------------------
(***************************************************************************)
(* Properties.                                                             *)
(***************************************************************************)

CallStates ==
  {"idle", "denied", "logstash", "broadcast", "statistics", "handler",
   "answered", "store_uuid", "register", "select", "send", "returned",
   "store_statuuid", "load_statuuid", "start", "sleep", "report", "restart"}

\* The types of the variables (struct Admin and the goroutines' locals).
TypeOK ==
  /\ mu \in Calls \cup {None}
  /\ uuid \in Nat /\ statuuid \in Nat
  /\ DOMAIN logsChannels \subseteq Nat
  /\ logsChannels \in [DOMAIN logsChannels -> LogCalls]
  /\ DOMAIN stats \subseteq Nat
  /\ stats \in [DOMAIN stats -> SUBSET Calls]
  /\ pc \in [Calls -> CallStates]
  /\ tmp \in [Calls -> Nat]
  /\ id \in [StatCalls -> Nat]
  /\ pending \subseteq DOMAIN logsChannels
  /\ hand \in [LogCalls -> Calls \cup {None}]
  /\ done \subseteq Calls
  /\ stopped \in BOOLEAN
  /\ unread \in [LogCalls \cup StatCalls -> 0 .. Window]
  /\ published \in Seq(Calls)
  /\ joined \in [LogCalls -> Nat \cup {NotJoined}]
  /\ delivered \in [LogCalls -> Seq(Calls)]
  /\ counted \subseteq Calls
  /\ since \in [StatCalls -> SUBSET Calls]
  /\ reported \in [StatCalls -> SUBSET Calls]
  /\ missed \in [StatCalls -> SUBSET Calls]

Registered == {logsChannels[u] : u \in DOMAIN logsChannels}
Published  == {published[i] : i \in DOMAIN published}

\* How far into the feed a stream has come: what it was sent, and the event
\* it holds.
Received(l) ==
  joined[l] + Len(delivered[l]) + (IF hand[l] = None THEN 0 ELSE 1)

\* What a logging client receives is a run of consecutive broadcasts, in
\* broadcast order, from where it registered (logstash sends under mu).
FeedIsContiguous ==
  \A l \in LogCalls : joined[l] # NotJoined =>
    /\ Received(l) <= Len(published)
    /\ \A i \in DOMAIN delivered[l] : delivered[l][i] = published[joined[l] + i]

\* Whenever mu is free, every stream registered in logsChannels whose client
\* is there has received every event broadcast since it registered: logstash
\* does not unlock before all have (unbuffered channels).
BroadcastComplete ==
  mu = None =>
    \A l \in Registered \ done : Received(l) = Len(published)

\* The interceptors run the ACL, the log and the statistics in that order:
\* a handler runs only for a counted call, a call is counted only after it
\* was broadcast, and is broadcast only if the ACL admits it.
ObservedInOrder ==
  /\ \A c \in Calls :
       pc[c] \notin {"idle", "denied", "logstash", "broadcast", "statistics"} => c \in counted
  /\ counted \subseteq Published
  /\ \A c \in Published : checkACL(Acl, Metadata[c], FullMethod[c])

\* A call is reported at most once on a statistics stream: between Reset and
\* Report the Stat holds nothing the stream has already sent, even when two
\* streams came to share an id.
NoDoubleReport ==
  \A s \in StatCalls :
    pc[s] \in {"sleep", "report"} => stats[id[s]] \cap reported[s] = {}

SharesId(s) == \E t \in StatCalls \ {s} : id[t] = id[s]

\* Each call counted since the stream started is in its Stat, was reported, or
\* was counted in the gap between a report and the next Stat, and in only one of
\* the three.
Accounted(s) ==
  /\ stats[id[s]] \cup reported[s] \cup missed[s] = counted \ since[s]
  /\ stats[id[s]] \cap (reported[s] \cup missed[s]) = {}
  /\ reported[s] \cap missed[s] = {}

\* The accounting holds for every statistics stream that shares no id with
\* another (service.go:131-141), whatever calls and streams run beside it.
StatsAccounting ==
  \A s \in StatCalls \ done :
    pc[s] \in {"sleep", "report"} /\ ~SharesId(s) => Accounted(s)

\* The logging service implements the feed it promises.
Feed == INSTANCE LogFeed WITH Subscribers <- LogCalls, Events <- Calls,
          feed <- published, start <- joined, seen <- delivered
ImplementsLogFeed == Feed!FeedSpec

\* A logging stream that has returned is still in logsChannels.
Abandoned == \E l \in Registered : pc[l] = "returned"

\* While the clients read, every admitted business call is answered; only an
\* abandoned channel can make it hang.
HangsOnlyOnReturned ==
  ClientsRead =>
    \A c \in BizCalls : pc[c] = "logstash" ~> pc[c] = "answered" \/ Abandoned

\* While the clients read, every event reaches every stream that is registered
\* when it is broadcast, unless the client of the stream leaves or an abandoned
\* channel is in the way.
EventsReachLoggers ==
  ClientsRead =>
    \A c \in Calls, l \in LogCalls :
      (pc[c] = "broadcast" /\ l \in Registered) ~>
        \/ \E i \in DOMAIN delivered[l] : delivered[l][i] = c
        \/ l \in done
        \/ Abandoned

\* hw7.md: the business logic does nothing, one just calls it: every admitted
\* call is answered.  Refuted when a logging client has left.
BizAnswered == \A c \in BizCalls : pc[c] = "logstash" ~> pc[c] = "answered"

\* hw7.md: two logging clients may connect and both receive the stream of
\* logs.  Refuted: streams whose a.uuid++ race share a key of logsChannels.
EveryLoggerRegistered ==
  \A l \in LogCalls : pc[l] = "select" => l \in Registered

\* TestServerLeak: stopping the server ends every goroutine it had.  Refuted by
\* a statistics stream, whose loop never looks at its context.
Ended(c) == pc[c] \in {"idle", "denied", "answered", "returned"}
GoroutinesEnd == \A c \in Calls : stopped ~> Ended(c)
=============================================================================
