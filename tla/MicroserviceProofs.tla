------------------------ MODULE MicroserviceProofs ------------------------
(***************************************************************************)
(* Proofs about Microservice, for every set of calls, every ACL and every  *)
(* subset of the clients that may leave: the types, the feed that logging  *)
(* streams see (complete, in order, an implementation of LogFeed), the     *)
(* order of the interceptors, and that no stream reports a call twice.     *)
(***************************************************************************)
EXTENDS Microservice, TLAPS

\* A goroutine runs the handler of its own kind of call.
KindInv ==
  \A c \in Calls :
    /\ pc[c] \in {"store_uuid", "register", "select", "send", "returned"} => c \in LogCalls
    /\ pc[c] \in {"store_statuuid", "load_statuuid", "start", "sleep", "report", "restart"}
         => c \in StatCalls

\* The goroutine that blocks in a critical section is the one that holds mu; in
\* the one of logstash, its event is the last of the feed.
MutexInv ==
  /\ \A c \in Calls : pc[c] \in {"broadcast", "report"} <=> mu = c
  /\ (\A c \in Calls : pc[c] # "broadcast") => pending = {}
  /\ \A c \in Calls : pc[c] = "broadcast" => /\ Len(published) > 0
                                            /\ published[Len(published)] = c

\* Which streams have a channel, an event in hand, a place in the feed.
ChannelInv ==
  /\ \A l \in LogCalls :
       /\ joined[l] # NotJoined <=> pc[l] \in {"select", "send", "returned"}
       /\ hand[l] # None <=> pc[l] = "send"
       /\ joined[l] = NotJoined => delivered[l] = <<>>
  /\ \A u \in DOMAIN logsChannels : joined[logsChannels[u]] # NotJoined
  /\ \A u, v \in DOMAIN logsChannels : logsChannels[u] = logsChannels[v] => u = v

\* A registered stream lags behind the feed exactly while the range of the
\* broadcast has yet to visit it.
CaughtUp ==
  \A u \in DOMAIN logsChannels, l \in LogCalls : logsChannels[u] = l =>
    /\ u \in pending => Received(l) < Len(published)
    /\ l \notin done =>
         Received(l) = IF u \in pending THEN Len(published) - 1 ELSE Len(published)

\* The event in the hand of a live stream is the next one it has to send.
HandInv ==
  \A l \in LogCalls \ done : hand[l] # None => hand[l] = published[Received(l)]

FeedInv == FeedIsContiguous /\ CaughtUp /\ HandInv

\* What the place of a call in its interceptors says of the history.
OrderInv ==
  \A c \in Calls :
    /\ c \in Published <=> pc[c] \notin {"idle", "denied", "logstash"}
    /\ c \in counted <=>
         pc[c] \notin {"idle", "denied", "logstash", "broadcast", "statistics"}
    /\ pc[c] \notin {"idle", "denied"} => Admitted(c)

\* A Stat and a report hold calls that statistics has counted.
StatInv ==
  /\ \A s \in StatCalls : pc[s] \in {"sleep", "report"} => id[s] \in DOMAIN stats
  /\ \A u \in DOMAIN stats : stats[u] \subseteq counted
  /\ \A s \in StatCalls : reported[s] \subseteq counted

InLoop == {"start", "sleep", "report", "restart"}

\* A stream in its loop has an id above 0; before that its id is still 0.
IdInv ==
  \A s \in StatCalls :
    /\ pc[s] \in InLoop => id[s] > 0
    /\ pc[s] \notin InLoop => id[s] = 0
    /\ pc[s] = "load_statuuid" => statuuid > 0

\* What the place of a statistics stream in its loop says of the calls it has
\* counted, reported and missed.
AccountInv ==
  \A s \in StatCalls :
    /\ since[s] \subseteq counted /\ missed[s] \subseteq counted
    /\ pc[s] \notin {"sleep", "report", "restart"} => reported[s] = {} /\ missed[s] = {}
    /\ s \notin done /\ ~SharesId(s) =>
         /\ pc[s] \in {"sleep", "report"} => Accounted(s)
         /\ pc[s] = "restart" => /\ reported[s] \cup missed[s] = counted \ since[s]
                                /\ reported[s] \cap missed[s] = {}

IInv ==
  /\ TypeOK /\ KindInv /\ MutexInv /\ ChannelInv /\ FeedInv
  /\ OrderInv /\ StatInv /\ NoDoubleReport /\ IdInv /\ AccountInv
-----------------------------------------------------------------------------
(***************************************************************************)
(* Initial states, and the preservation of each part of IInv.              *)
(***************************************************************************)

\* The initial state satisfies the inductive invariant.
LEMMA InitInv == Init => IInv
<1> SUFFICES ASSUME Init PROVE IInv
  OBVIOUS
<1>1. TypeOK
  <2>1. logsChannels \in [{} -> LogCalls] /\ stats \in [{} -> SUBSET Calls]
    BY DEF Init
  <2>2. DOMAIN logsChannels = {} /\ DOMAIN stats = {}
    BY <2>1
  <2>3. /\ published \in Seq(Calls)
        /\ delivered \in [LogCalls -> Seq(Calls)]
    BY DEF Init
  <2>4. pc \in [Calls -> CallStates] /\ unread \in [LogCalls \cup StatCalls -> 0 .. Window]
    BY CallAssumption DEF Init, CallStates
  <2> QED
    BY <2>1, <2>2, <2>3, <2>4 DEF Init, TypeOK
<1>2. KindInv /\ MutexInv /\ ChannelInv
  BY CallAssumption DEF Init, KindInv, MutexInv, ChannelInv, NotJoined, Calls
<1>3. FeedInv
  BY CallAssumption DEF Init, FeedInv, FeedIsContiguous, CaughtUp, HandInv, NotJoined, Calls
<1>4. OrderInv /\ StatInv /\ NoDoubleReport /\ IdInv /\ AccountInv
  BY CallAssumption DEF Init, OrderInv, StatInv, NoDoubleReport, IdInv, InLoop, AccountInv,
                        Published, Calls
<1> QED
  BY <1>1, <1>2, <1>3, <1>4 DEF IInv

\* Every step keeps the types.
LEMMA TypeStep == IInv /\ [Next]_vars => TypeOK'
<1> SUFFICES ASSUME IInv, [Next]_vars PROVE TypeOK'
  OBVIOUS
<1> USE CallAssumption
<1>0. TypeOK /\ ChannelInv /\ KindInv
  BY DEF IInv
<1>1. ASSUME NEW c \in Calls, Intercept(c) PROVE TypeOK'
  BY <1>0, <1>1 DEF TypeOK, Intercept, Goto, adminVars, feedHist, statHist, CallStates
<1>2. ASSUME NEW c \in Calls, LogstashLock(c) PROVE TypeOK'
  BY <1>0, <1>2 DEF TypeOK, LogstashLock, Goto, statHist, CallStates, RangeKeys
<1>3. ASSUME NEW c \in Calls, NEW l \in LogCalls, LogstashSend(c, l) PROVE TypeOK'
  BY <1>0, <1>3 DEF TypeOK, LogstashSend, adminVars, feedHist, statHist, CallStates
<1>4. ASSUME NEW c \in Calls, LogstashUnlock(c) PROVE TypeOK'
  BY <1>0, <1>4 DEF TypeOK, LogstashUnlock, Goto, Unlock, feedHist, statHist, CallStates
<1>5. ASSUME NEW c \in Calls, Count(c) PROVE TypeOK'
  BY <1>0, <1>5 DEF TypeOK, Count, Goto, CountIn, feedHist, CallStates
<1>6. ASSUME NEW c \in Calls, Answer(c) PROVE TypeOK'
  BY <1>0, <1>6 DEF TypeOK, Answer, Goto, adminVars, feedHist, statHist, CallStates
<1>7. ASSUME NEW l \in Calls, LoggingLoad(l) PROVE TypeOK'
  BY <1>0, <1>7 DEF TypeOK, LoggingLoad, Goto, adminVars, feedHist, statHist, CallStates
<1>8. ASSUME NEW l \in Calls, LoggingStore(l) PROVE TypeOK'
  BY <1>0, <1>8 DEF TypeOK, LoggingStore, Goto, Incremented, feedHist, statHist, CallStates
<1>9. ASSUME NEW l \in Calls, LoggingRegister(l) PROVE TypeOK'
  BY <1>0, <1>9 DEF TypeOK, KindInv, LoggingRegister, Goto, Put, statHist, CallStates
<1>10. ASSUME NEW l \in Calls, LoggingSend(l) PROVE TypeOK'
  <2>1. l \in LogCalls /\ unread' \in [LogCalls \cup StatCalls -> 0 .. Window]
    BY <1>0, <1>10 DEF TypeOK, KindInv, LoggingSend, Goto, CanSend, Send
  <2>2. delivered' \in [LogCalls -> Seq(Calls)]
    <3>1. hand[l] \in Calls /\ delivered[l] \in Seq(Calls)
      BY <1>0, <1>10, <2>1 DEF TypeOK, ChannelInv, LoggingSend, Goto
    <3>2. Append(delivered[l], hand[l]) \in Seq(Calls)
      BY <3>1
    <3> QED
      BY <1>0, <1>10, <2>1, <3>2 DEF TypeOK, LoggingSend
  <2> QED
    BY <1>0, <1>10, <2>1, <2>2 DEF TypeOK, LoggingSend, Goto, adminVars, statHist, CallStates
<1>11. ASSUME NEW l \in Calls, LoggingReturn(l) PROVE TypeOK'
  BY <1>0, <1>11 DEF TypeOK, LoggingReturn, Goto, adminVars, feedHist, statHist, CallStates
<1>12. ASSUME NEW s \in Calls, StatisticsLoad(s) PROVE TypeOK'
  BY <1>0, <1>12 DEF TypeOK, StatisticsLoad, Goto, adminVars, feedHist, statHist, CallStates
<1>13. ASSUME NEW s \in Calls, StatisticsStore(s) PROVE TypeOK'
  BY <1>0, <1>13 DEF TypeOK, StatisticsStore, Goto, Incremented, feedHist, statHist, CallStates
<1>14. ASSUME NEW s \in Calls, StatisticsId(s) PROVE TypeOK'
  BY <1>0, <1>14 DEF TypeOK, StatisticsId, Goto, adminVars, feedHist, statHist, CallStates
<1>15. ASSUME NEW s \in Calls, StatisticsReset(s) PROVE TypeOK'
  BY <1>0, <1>15 DEF TypeOK, KindInv, StatisticsReset, FreshStat, Put, feedHist, CallStates
<1>16. ASSUME NEW s \in Calls, StatisticsReport(s) PROVE TypeOK'
  <2>1. s \in StatCalls /\ unread' \in [LogCalls \cup StatCalls -> 0 .. Window]
    BY <1>0, <1>16 DEF TypeOK, KindInv, StatisticsReport, Goto, CanSend, Send
  <2> QED
    BY <1>0, <1>16, <2>1 DEF IInv, TypeOK, StatInv, StatisticsReport, Goto, Unlock, feedHist, CallStates
<1>20. ASSUME NEW s \in Calls, StatisticsWake(s) PROVE TypeOK'
  BY <1>0, <1>20 DEF TypeOK, StatisticsWake, Goto, feedHist, statHist, CallStates
<1>21. ASSUME NEW s \in MayStall, Read(s) PROVE TypeOK'
  BY <1>0, <1>21 DEF TypeOK, Read, adminVars, feedHist, statHist
<1>17. ASSUME NEW c \in Calls, Leave(c) PROVE TypeOK'
  BY <1>0, <1>17 DEF TypeOK, Leave, adminVars, feedHist, statHist
<1>18. CASE Stop
  BY <1>0, <1>18 DEF TypeOK, Stop, adminVars, feedHist, statHist
<1>19. CASE UNCHANGED vars
  BY <1>0, <1>19 DEF TypeOK, vars
<1> QED
  BY <1>1, <1>2, <1>3, <1>4, <1>5, <1>6, <1>7, <1>8, <1>9, <1>10, <1>11, <1>12,
     <1>13, <1>14, <1>15, <1>16, <1>17, <1>18, <1>19, <1>20, <1>21 DEF Next, Serve

\* Every step leaves each goroutine in the handler of its kind of call.
LEMMA KindStep == IInv /\ [Next]_vars => KindInv'
<1> SUFFICES ASSUME IInv, [Next]_vars PROVE KindInv'
  OBVIOUS
<1>0. pc \in [Calls -> CallStates] /\ KindInv
  BY DEF IInv, TypeOK
<1> USE <1>0 DEF KindInv, Goto
<1>1. ASSUME NEW c \in Calls, Intercept(c) \/ LogstashLock(c) \/ LogstashUnlock(c) \/ Count(c) \/ Answer(c)
      PROVE KindInv'
  BY <1>1 DEF Intercept, LogstashLock, LogstashUnlock, Count, Answer
<1>2. ASSUME NEW c \in Calls, NEW l \in LogCalls, LogstashSend(c, l) PROVE KindInv'
  BY <1>2 DEF LogstashSend
<1>3. ASSUME NEW l \in Calls, \/ LoggingLoad(l) \/ LoggingStore(l) \/ LoggingRegister(l)
                              \/ LoggingSend(l) \/ LoggingReturn(l)
      PROVE KindInv'
  BY <1>3 DEF LoggingLoad, LoggingStore, LoggingRegister, LoggingSend, LoggingReturn
<1>4. ASSUME NEW s \in Calls, \/ StatisticsLoad(s) \/ StatisticsStore(s) \/ StatisticsId(s)
                              \/ StatisticsReset(s) \/ StatisticsWake(s) \/ StatisticsReport(s)
      PROVE KindInv'
  BY <1>4 DEF StatisticsLoad, StatisticsStore, StatisticsId, StatisticsReset,
              StatisticsWake, StatisticsReport
<1>5. ASSUME NEW c \in Calls, Leave(c) PROVE KindInv'
  BY <1>5 DEF Leave
<1>6. CASE Stop \/ (\E s \in MayStall : Read(s)) \/ UNCHANGED vars
  BY <1>6 DEF Stop, Read, vars
<1> QED
  BY <1>1, <1>2, <1>3, <1>4, <1>5, <1>6 DEF Next, Serve

\* Every step keeps mu with the goroutine that is in the critical section.
LEMMA MutexStep == IInv /\ [Next]_vars => MutexInv'
<1> SUFFICES ASSUME IInv, [Next]_vars PROVE MutexInv'
  OBVIOUS
<1>0. /\ pc \in [Calls -> CallStates] /\ mu \in Calls \cup {None}
      /\ published \in Seq(Calls) /\ None \notin Calls
      /\ MutexInv
  BY CallAssumption DEF IInv, TypeOK
<1> USE <1>0 DEF MutexInv, Goto
<1>1. ASSUME NEW c \in Calls, Intercept(c) PROVE MutexInv'
  BY <1>1 DEF Intercept, adminVars, feedHist
<1>2. ASSUME NEW c \in Calls, LogstashLock(c) PROVE MutexInv'
  <2>1. mu = None /\ mu' = c /\ published' = Append(published, c)
    BY <1>2 DEF LogstashLock, Free
  <2>2. Len(published') > 0 /\ published'[Len(published')] = c
    BY <2>1
  <2>3. \A d \in Calls : /\ pc'[d] \in {"broadcast", "report"} <=> mu' = d
                         /\ pc'[d] = "broadcast" <=> d = c
    BY <1>2, <2>1 DEF LogstashLock
  <2> QED
    BY <2>1, <2>2, <2>3
<1>3. ASSUME NEW c \in Calls, NEW l \in LogCalls, LogstashSend(c, l) PROVE MutexInv'
  <2>1. /\ mu = c /\ mu' = mu /\ published' = published
        /\ \A d \in Calls : pc'[d] \in {"broadcast", "report"} <=> pc[d] \in {"broadcast", "report"}
        /\ \A d \in Calls : pc'[d] = "broadcast" <=> pc[d] = "broadcast"
        /\ pc[c] = "broadcast"
    BY <1>3 DEF LogstashSend, adminVars, feedHist
  <2> QED
    BY <2>1
<1>4. ASSUME NEW c \in Calls, LogstashUnlock(c) PROVE MutexInv'
  BY <1>4 DEF LogstashUnlock, Unlock, RangeOver, feedHist
<1>5. ASSUME NEW c \in Calls, Count(c) \/ Answer(c) PROVE MutexInv'
  BY <1>5 DEF Count, Answer, adminVars, feedHist
<1>6. ASSUME NEW l \in Calls, \/ LoggingLoad(l) \/ LoggingStore(l) \/ LoggingRegister(l)
                              \/ LoggingSend(l) \/ LoggingReturn(l)
      PROVE MutexInv'
  BY <1>6 DEF LoggingLoad, LoggingStore, LoggingRegister, LoggingSend, LoggingReturn,
              adminVars, feedHist
<1>7. ASSUME NEW s \in Calls, \/ StatisticsLoad(s) \/ StatisticsStore(s) \/ StatisticsId(s)
                              \/ StatisticsReset(s)
      PROVE MutexInv'
  BY <1>7 DEF StatisticsLoad, StatisticsStore, StatisticsId, StatisticsReset, adminVars, feedHist
<1>8. ASSUME NEW s \in Calls, StatisticsWake(s) \/ StatisticsReport(s) PROVE MutexInv'
  <2>1. CASE StatisticsWake(s)
    BY <2>1 DEF StatisticsWake, Free, feedHist
  <2>2. CASE StatisticsReport(s)
    BY <2>2 DEF StatisticsReport, Unlock, feedHist
  <2> QED
    BY <1>8, <2>1, <2>2
<1>9. ASSUME NEW c \in Calls, Leave(c) PROVE MutexInv'
  BY <1>9 DEF Leave, adminVars, feedHist
<1>10. CASE Stop \/ (\E s \in MayStall : Read(s)) \/ UNCHANGED vars
  BY <1>10 DEF Stop, Read, vars, adminVars, feedHist
<1> QED
  BY <1>1, <1>2, <1>3, <1>4, <1>5, <1>6, <1>7, <1>8, <1>9, <1>10 DEF Next, Serve

\* Every step keeps channels, hands and places in the feed together.
LEMMA ChannelStep == IInv /\ [Next]_vars => ChannelInv'
<1> SUFFICES ASSUME IInv, [Next]_vars PROVE ChannelInv'
  OBVIOUS
<1>0. /\ TypeOK /\ ChannelInv /\ KindInv /\ None \notin Calls
  BY CallAssumption DEF IInv
<1> USE <1>0 DEF TypeOK, ChannelInv, Goto, NotJoined, Calls
<1>1. ASSUME NEW c \in Calls, \/ Intercept(c) \/ LogstashLock(c) \/ LogstashUnlock(c)
                              \/ Count(c) \/ Answer(c)
      PROVE ChannelInv'
  <2>1. CASE Intercept(c)
    BY <2>1 DEF Intercept, adminVars, feedHist
  <2>2. CASE LogstashLock(c)
    BY <2>2 DEF LogstashLock
  <2>3. CASE LogstashUnlock(c)
    BY <2>3 DEF LogstashUnlock, feedHist
  <2>4. CASE Count(c) \/ Answer(c)
    BY <2>4 DEF Count, Answer, adminVars, feedHist
  <2> QED
    BY <1>1, <2>1, <2>2, <2>3, <2>4
<1>2. ASSUME NEW c \in Calls, NEW l \in LogCalls, LogstashSend(c, l) PROVE ChannelInv'
  BY <1>2 DEF LogstashSend, adminVars, feedHist
<1>3. ASSUME NEW l \in Calls, LoggingLoad(l) \/ LoggingStore(l) \/ LoggingReturn(l)
      PROVE ChannelInv'
  BY <1>3 DEF LoggingLoad, LoggingStore, LoggingReturn, adminVars, feedHist
<1>4. ASSUME NEW l \in Calls, LoggingRegister(l) PROVE ChannelInv'
  <2>1. l \in LogCalls /\ joined[l] = NotJoined /\ hand[l] = None /\ joined'[l] # NotJoined
    <3>1. l \in LogCalls /\ joined[l] = NotJoined /\ hand[l] = None
      BY <1>4 DEF LoggingRegister, KindInv
    <3>2. Len(published) \in Nat
      OBVIOUS
    <3>3. joined'[l] = Len(published)
      BY <1>4, <3>1 DEF LoggingRegister
    <3> QED
      BY <3>1, <3>2, <3>3
  <2>2. \A k \in LogCalls \ {l} : joined'[k] = joined[k] /\ pc'[k] = pc[k]
    BY <1>4 DEF LoggingRegister
  <2>3. /\ DOMAIN logsChannels' = DOMAIN logsChannels \cup {uuid}
        /\ \A u \in DOMAIN logsChannels' :
             logsChannels'[u] = IF u = uuid THEN l ELSE logsChannels[u]
    BY <1>4 DEF LoggingRegister, Put
  <2>4. \A u \in DOMAIN logsChannels : logsChannels[u] # l
    BY <2>1
  <2>5. \A u, v \in DOMAIN logsChannels' : logsChannels'[u] = logsChannels'[v] => u = v
    BY <2>3, <2>4
  <2>6. \A u \in DOMAIN logsChannels' : joined'[logsChannels'[u]] # NotJoined
    BY <2>1, <2>2, <2>3
  <2>7. pc'[l] = "select" /\ hand' = hand /\ delivered' = delivered
    BY <1>4, <2>1 DEF LoggingRegister
  <2> QED
    BY <2>1, <2>2, <2>5, <2>6, <2>7
<1>5. ASSUME NEW l \in Calls, LoggingSend(l) PROVE ChannelInv'
  BY <1>5 DEF LoggingSend, KindInv, adminVars
<1>6. ASSUME NEW s \in Calls, \/ StatisticsLoad(s) \/ StatisticsStore(s) \/ StatisticsId(s)
                              \/ StatisticsReset(s) \/ StatisticsWake(s) \/ StatisticsReport(s)
      PROVE ChannelInv'
  <2>1. CASE StatisticsLoad(s) \/ StatisticsStore(s)
    BY <2>1 DEF StatisticsLoad, StatisticsStore, adminVars, feedHist
  <2>2. CASE StatisticsId(s)
    BY <2>2 DEF StatisticsId, adminVars, feedHist
  <2>3. CASE StatisticsReset(s) \/ StatisticsWake(s)
    BY <2>3 DEF StatisticsReset, StatisticsWake, feedHist
  <2>4. CASE StatisticsReport(s)
    BY <2>4 DEF StatisticsReport, feedHist
  <2> QED
    BY <1>6, <2>1, <2>2, <2>3, <2>4
<1>7. ASSUME NEW c \in Calls, Leave(c) PROVE ChannelInv'
  BY <1>7 DEF Leave, adminVars, feedHist
<1>8. CASE Stop \/ (\E s \in MayStall : Read(s)) \/ UNCHANGED vars
  BY <1>8 DEF Stop, Read, vars, adminVars, feedHist
<1> QED
  BY <1>1, <1>2, <1>3, <1>4, <1>5, <1>6, <1>7, <1>8 DEF Next, Serve

\* The feed part of the invariant looks at these variables only, and a larger
\* set of streams that are done only weakens it.
LEMMA FeedFrame ==
  ASSUME FeedInv, done \subseteq done',
         UNCHANGED <<published, joined, delivered, hand, pending, logsChannels>>
  PROVE  FeedInv'
BY DEF FeedInv, FeedIsContiguous, CaughtUp, HandInv, Received

\* How far a stream has come is a number once it has joined.
LEMMA ReceivedType ==
  ASSUME TypeOK, NEW l \in LogCalls, joined[l] # NotJoined
  PROVE  /\ Received(l) \in Nat
         /\ joined[l] \in Nat /\ Len(delivered[l]) \in Nat
         /\ Received(l) = joined[l] + Len(delivered[l]) + (IF hand[l] = None THEN 0 ELSE 1)
BY DEF TypeOK, Received

\* While mu is free no broadcast is under way.
LEMMA FreeMeansOver ==
  ASSUME MutexInv, mu = None
  PROVE  pending = {}
<1>1. \A c \in Calls : pc[c] # "broadcast"
  BY CallAssumption DEF MutexInv
<1> QED
  BY <1>1 DEF MutexInv

\* logstash locks: the feed grows by one event, which no stream has yet and
\* which the range has still to carry to every channel.
LEMMA FeedLock ==
  ASSUME IInv, NEW c \in Calls, LogstashLock(c)
  PROVE  FeedInv'
<1>0. TypeOK /\ MutexInv /\ ChannelInv /\ FeedInv
  BY DEF IInv
<1>1. /\ pending = {} /\ pending' = DOMAIN logsChannels
      /\ published \in Seq(Calls) /\ published' = Append(published, c)
      /\ UNCHANGED <<joined, delivered, hand, logsChannels, done>>
  BY <1>0, FreeMeansOver DEF LogstashLock, RangeKeys, Free, TypeOK
<1>2. /\ Len(published) \in Nat /\ Len(published') = Len(published) + 1
      /\ \A i \in 1 .. Len(published) : published'[i] = published[i]
  BY <1>1
<1>3. \A l \in LogCalls : Received(l)' = Received(l)
  BY <1>1 DEF Received
<1>4. FeedIsContiguous'
  <2> SUFFICES ASSUME NEW l \in LogCalls, joined[l] # NotJoined
               PROVE  /\ Received(l) <= Len(published')
                      /\ \A i \in DOMAIN delivered[l] : delivered[l][i] = published'[joined[l] + i]
    BY <1>1, <1>3 DEF FeedIsContiguous
  <2>1. Received(l) \in Nat /\ Received(l) <= Len(published)
    BY <1>0, ReceivedType DEF FeedInv, FeedIsContiguous
  <2>2. ASSUME NEW i \in DOMAIN delivered[l] PROVE delivered[l][i] = published'[joined[l] + i]
    <3>1. delivered[l] \in Seq(Calls) /\ i \in 1 .. Len(delivered[l])
      BY <1>0 DEF TypeOK
    <3>2. joined[l] + i \in 1 .. Len(published)
      BY <1>0, <1>2, <2>1, <3>1, ReceivedType
    <3> QED
      BY <1>0, <1>2, <3>2 DEF FeedInv, FeedIsContiguous
  <2> QED
    BY <1>2, <2>1, <2>2
<1>5. CaughtUp'
  <2> SUFFICES ASSUME NEW u \in DOMAIN logsChannels, NEW l \in LogCalls, logsChannels[u] = l
               PROVE  /\ Received(l) < Len(published')
                      /\ l \notin done => Received(l) = Len(published') - 1
    BY <1>1, <1>3 DEF CaughtUp
  <2>1. joined[l] # NotJoined
    BY <1>0 DEF ChannelInv
  <2>2. Received(l) \in Nat /\ Received(l) <= Len(published)
    BY <1>0, <2>1, ReceivedType DEF FeedInv, FeedIsContiguous
  <2>3. l \notin done => Received(l) = Len(published)
    BY <1>0, <1>1 DEF FeedInv, CaughtUp
  <2> QED
    BY <1>2, <2>2, <2>3
<1>6. HandInv'
  <2> SUFFICES ASSUME NEW l \in LogCalls \ done, hand[l] # None
               PROVE  hand[l] = published'[Received(l)]
    BY <1>1, <1>3 DEF HandInv
  <2>1. joined[l] # NotJoined
    BY <1>0 DEF ChannelInv
  <2>2. Received(l) \in 1 .. Len(published)
    BY <1>0, <1>2, <2>1, ReceivedType DEF FeedInv, FeedIsContiguous
  <2> QED
    BY <1>0, <1>2, <2>2 DEF FeedInv, HandInv
<1> QED
  BY <1>4, <1>5, <1>6 DEF FeedInv

\* logstash hands the event to one stream, which thereby catches up.
LEMMA FeedSend ==
  ASSUME IInv, NEW c \in Calls, NEW l \in LogCalls, LogstashSend(c, l)
  PROVE  FeedInv'
<1>0. TypeOK /\ MutexInv /\ ChannelInv /\ FeedInv /\ None \notin Calls
  BY CallAssumption DEF IInv
<1>1. PICK u \in pending : logsChannels[u] = l /\ pending' = pending \ {u}
  BY DEF LogstashSend
<1>2. /\ UNCHANGED <<joined, delivered, logsChannels, done, published>>
      /\ hand' = [hand EXCEPT ![l] = c] /\ hand \in [LogCalls -> Calls \cup {None}]
      /\ hand[l] = None /\ u \in DOMAIN logsChannels /\ joined[l] # NotJoined
  BY <1>0, <1>1 DEF LogstashSend, adminVars, feedHist, ChannelInv, TypeOK
<1>3. Len(published) \in Nat /\ published[Len(published)] = c
  BY <1>0 DEF LogstashSend, MutexInv, TypeOK
<1>4. /\ \A k \in LogCalls \ {l} : Received(k)' = Received(k)
      /\ Received(l)' = Received(l) + 1 /\ Received(l) \in Nat
  BY <1>0, <1>2, ReceivedType DEF Received
<1>5. Received(l) < Len(published)
      /\ (l \notin done => Received(l) = Len(published) - 1)
  BY <1>0, <1>1, <1>2 DEF FeedInv, CaughtUp
<1>6. FeedIsContiguous'
  BY <1>0, <1>2, <1>3, <1>4, <1>5 DEF FeedInv, FeedIsContiguous
<1>7. CaughtUp'
  <2> SUFFICES ASSUME NEW v \in DOMAIN logsChannels, NEW k \in LogCalls, logsChannels[v] = k
               PROVE  /\ v \in pending' => Received(k)' < Len(published)
                      /\ k \notin done =>
                           Received(k)' =
                             IF v \in pending' THEN Len(published) - 1 ELSE Len(published)
    BY <1>2 DEF CaughtUp
  <2>1. CASE v = u
    BY <1>1, <1>3, <1>4, <1>5, <2>1
  <2>2. CASE v # u
    <3>1. k # l /\ (v \in pending' <=> v \in pending)
      BY <1>0, <1>1, <1>2, <2>2 DEF ChannelInv, TypeOK
    <3> QED
      BY <1>0, <1>4, <3>1 DEF FeedInv, CaughtUp
  <2> QED
    BY <2>1, <2>2
<1>8. HandInv'
  BY <1>0, <1>2, <1>3, <1>4, <1>5 DEF FeedInv, HandInv
<1> QED
  BY <1>6, <1>7, <1>8 DEF FeedInv

\* A stream that registers joins at the end of the feed, while no broadcast
\* is under way.
LEMMA FeedRegister ==
  ASSUME IInv, NEW l \in Calls, LoggingRegister(l)
  PROVE  FeedInv'
<1>0. TypeOK /\ MutexInv /\ ChannelInv /\ FeedInv
  BY DEF IInv
<1>1. /\ l \in LogCalls /\ joined[l] = NotJoined /\ hand[l] = None /\ delivered[l] = <<>>
      /\ pending = {}
  BY <1>0, FreeMeansOver DEF IInv, LoggingRegister, Goto, Free, KindInv, ChannelInv
<1>2. /\ UNCHANGED <<published, delivered, hand, pending, done>>
      /\ joined' = [joined EXCEPT ![l] = Len(published)]
      /\ joined \in [LogCalls -> Nat \cup {NotJoined}] /\ Len(published) \in Nat
  BY <1>0 DEF LoggingRegister, TypeOK
<1>3. /\ DOMAIN logsChannels' = DOMAIN logsChannels \cup {uuid}
      /\ \A u \in DOMAIN logsChannels' :
           logsChannels'[u] = IF u = uuid THEN l ELSE logsChannels[u]
  BY DEF LoggingRegister, Put
<1>4. /\ \A k \in LogCalls \ {l} : joined'[k] = joined[k] /\ Received(k)' = Received(k)
      /\ joined'[l] = Len(published) /\ Received(l)' = Len(published)
  BY <1>1, <1>2 DEF Received
<1>5. FeedIsContiguous'
  BY <1>0, <1>1, <1>2, <1>4 DEF FeedInv, FeedIsContiguous
<1>6. CaughtUp'
  <2> SUFFICES ASSUME NEW u \in DOMAIN logsChannels', NEW k \in LogCalls,
                      logsChannels'[u] = k, k \notin done
               PROVE  Received(k)' = Len(published)
    BY <1>1, <1>2 DEF CaughtUp
  <2>1. CASE u = uuid
    BY <1>3, <1>4, <2>1
  <2>2. CASE u # uuid
    <3>1. logsChannels'[u] = logsChannels[u] /\ u \in DOMAIN logsChannels
      BY <1>3, <2>2
    <3>2. k # l
      BY <1>0, <1>1, <3>1 DEF ChannelInv
    <3> QED
      BY <1>0, <1>1, <1>4, <3>1, <3>2 DEF FeedInv, CaughtUp
  <2> QED
    BY <2>1, <2>2
<1>7. HandInv'
  BY <1>0, <1>1, <1>2, <1>4 DEF FeedInv, HandInv
<1> QED
  BY <1>5, <1>6, <1>7 DEF FeedInv

\* A stream sends the event in its hand: it moves from the hand to the client,
\* or is dropped when the client has gone.
LEMMA FeedDeliver ==
  ASSUME IInv, NEW l \in Calls, LoggingSend(l)
  PROVE  FeedInv'
<1>0. TypeOK /\ ChannelInv /\ FeedInv /\ None \notin Calls
  BY CallAssumption DEF IInv
<1>1. l \in LogCalls /\ joined[l] # NotJoined /\ hand[l] # None /\ hand[l] \in Calls
  BY <1>0 DEF IInv, LoggingSend, Goto, KindInv, ChannelInv, TypeOK
<1>2. /\ UNCHANGED <<published, joined, pending, logsChannels, done>>
      /\ hand' = [hand EXCEPT ![l] = None] /\ hand \in [LogCalls -> Calls \cup {None}]
      /\ delivered \in [LogCalls -> Seq(Calls)]
      /\ Len(published) \in Nat
  BY <1>0 DEF LoggingSend, adminVars, TypeOK
<1>3. CASE l \in done
  <2>1. delivered' = delivered
    BY <1>3 DEF LoggingSend
  <2>2. /\ \A k \in LogCalls \ {l} : Received(k)' = Received(k)
        /\ Received(l)' = Received(l) - 1 /\ Received(l) \in Nat
    BY <1>0, <1>1, <1>2, <2>1, ReceivedType DEF Received
  <2>3. Received(l)' <= Received(l) /\ Received(l) <= Len(published)
    BY <1>0, <1>1, <2>2 DEF FeedInv, FeedIsContiguous
  <2>4. FeedIsContiguous'
    BY <1>0, <1>2, <2>1, <2>2, <2>3 DEF FeedInv, FeedIsContiguous
  <2>5. CaughtUp'
    <3> SUFFICES ASSUME NEW u \in DOMAIN logsChannels, NEW k \in LogCalls, logsChannels[u] = k
                 PROVE  /\ u \in pending => Received(k)' < Len(published)
                        /\ k \notin done =>
                             Received(k)' =
                               IF u \in pending THEN Len(published) - 1 ELSE Len(published)
      BY <1>2 DEF CaughtUp
    <3>1. CASE k = l
      BY <1>0, <1>2, <1>3, <2>2, <2>3, <3>1 DEF FeedInv, CaughtUp
    <3>2. CASE k # l
      BY <1>0, <2>2, <3>2 DEF FeedInv, CaughtUp
    <3> QED
      BY <3>1, <3>2
  <2>6. HandInv'
    BY <1>0, <1>2, <1>3, <2>2 DEF FeedInv, HandInv
  <2> QED
    BY <2>4, <2>5, <2>6 DEF FeedInv
<1>4. CASE l \notin done
  <2>1. delivered' = [delivered EXCEPT ![l] = Append(@, hand[l])]
    BY <1>4 DEF LoggingSend
  <2>2. delivered'[l] = Append(delivered[l], hand[l]) /\ delivered[l] \in Seq(Calls)
    BY <1>1, <1>2, <2>1
  <2>3. /\ Len(delivered'[l]) = Len(delivered[l]) + 1 /\ Len(delivered[l]) \in Nat
        /\ \A i \in DOMAIN delivered'[l] :
             delivered'[l][i] = IF i = Len(delivered[l]) + 1 THEN hand[l] ELSE delivered[l][i]
        /\ DOMAIN delivered'[l] = DOMAIN delivered[l] \cup {Len(delivered[l]) + 1}
    BY <1>1, <2>2
  <2>4. \A k \in LogCalls \ {l} : delivered'[k] = delivered[k] /\ hand'[k] = hand[k]
    BY <1>2, <2>1
  <2>5. joined[l] + Len(delivered[l]) + 1 = Received(l) /\ Received(l) \in Nat
    BY <1>0, <1>1, ReceivedType
  <2>6. \A k \in LogCalls : Received(k)' = Received(k)
    BY <1>0, <1>1, <1>2, <2>3, <2>4, <2>5, ReceivedType DEF Received
  <2>7. FeedIsContiguous'
    <3> SUFFICES ASSUME NEW k \in LogCalls, joined[k] # NotJoined
                 PROVE  /\ Received(k) <= Len(published)
                        /\ \A i \in DOMAIN delivered'[k] : delivered'[k][i] = published[joined[k] + i]
      BY <1>2, <2>6 DEF FeedIsContiguous
    <3>1. Received(k) <= Len(published)
      BY <1>0 DEF FeedInv, FeedIsContiguous
    <3>2. ASSUME NEW i \in DOMAIN delivered'[k] PROVE delivered'[k][i] = published[joined[k] + i]
      <4>1. CASE k # l
        BY <1>0, <2>4, <4>1 DEF FeedInv, FeedIsContiguous
      <4>2. CASE k = l /\ i = Len(delivered[l]) + 1
        <5>1. joined[k] + i = Received(l)
          <6>1. joined[l] \in Nat
            BY <1>0, <1>1, ReceivedType
          <6> QED
            BY <2>3, <2>5, <4>2, <6>1
        <5> QED
          BY <1>0, <1>1, <1>4, <2>3, <4>2, <5>1 DEF FeedInv, HandInv
      <4>3. CASE k = l /\ i # Len(delivered[l]) + 1
        BY <1>0, <2>3, <4>3 DEF FeedInv, FeedIsContiguous
      <4> QED
        BY <4>1, <4>2, <4>3
    <3> QED
      BY <3>1, <3>2
  <2>8. CaughtUp'
    BY <1>0, <1>2, <2>6 DEF FeedInv, CaughtUp
  <2>9. HandInv'
    BY <1>0, <1>2, <2>4, <2>6 DEF FeedInv, HandInv
  <2> QED
    BY <2>7, <2>8, <2>9 DEF FeedInv
<1> QED
  BY <1>3, <1>4

\* Every step keeps the feed part of the invariant.
LEMMA FeedStep == IInv /\ [Next]_vars => FeedInv'
<1> SUFFICES ASSUME IInv, [Next]_vars PROVE FeedInv'
  OBVIOUS
<1>0. TypeOK /\ FeedInv
  BY DEF IInv
<1>1. ASSUME NEW c \in Calls, LogstashLock(c) PROVE FeedInv'
  BY <1>1, FeedLock
<1>2. ASSUME NEW c \in Calls, NEW l \in LogCalls, LogstashSend(c, l) PROVE FeedInv'
  BY <1>2, FeedSend
<1>3. ASSUME NEW l \in Calls, LoggingRegister(l) PROVE FeedInv'
  BY <1>3, FeedRegister
<1>4. ASSUME NEW l \in Calls, LoggingSend(l) PROVE FeedInv'
  BY <1>4, FeedDeliver
<1>5. ASSUME NEW c \in Calls, \/ Intercept(c) \/ LogstashUnlock(c) \/ Count(c) \/ Answer(c)
                              \/ Leave(c)
      PROVE FeedInv'
  BY <1>0, <1>5, FeedFrame
     DEF Intercept, LogstashUnlock, Count, Answer, Leave, adminVars, feedHist
<1>6. ASSUME NEW l \in Calls, LoggingLoad(l) \/ LoggingStore(l) \/ LoggingReturn(l)
      PROVE FeedInv'
  BY <1>0, <1>6, FeedFrame DEF LoggingLoad, LoggingStore, LoggingReturn, adminVars, feedHist
<1>7. ASSUME NEW s \in Calls, \/ StatisticsLoad(s) \/ StatisticsStore(s) \/ StatisticsId(s)
                              \/ StatisticsReset(s) \/ StatisticsWake(s) \/ StatisticsReport(s)
      PROVE FeedInv'
  BY <1>0, <1>7, FeedFrame
     DEF StatisticsLoad, StatisticsStore, StatisticsId, StatisticsReset, StatisticsWake,
         StatisticsReport, adminVars, feedHist
<1>8. CASE Stop \/ (\E s \in MayStall : Read(s)) \/ UNCHANGED vars
  BY <1>0, <1>8, FeedFrame DEF Stop, Read, vars, adminVars, feedHist
<1> QED
  BY <1>1, <1>2, <1>3, <1>4, <1>5, <1>6, <1>7, <1>8 DEF Next, Serve

\* Every step keeps the history in step with the interceptors.
LEMMA OrderStep == IInv /\ [Next]_vars => OrderInv'
<1> SUFFICES ASSUME IInv, [Next]_vars PROVE OrderInv'
  OBVIOUS
<1>0. /\ pc \in [Calls -> CallStates] /\ published \in Seq(Calls)
      /\ OrderInv
  BY DEF IInv, TypeOK
<1>1. \A c \in Calls : UNCHANGED published => (c \in Published)' = (c \in Published)
  BY DEF Published
<1> USE <1>0, <1>1 DEF OrderInv, Goto
<1>2. ASSUME NEW c \in Calls, Intercept(c) PROVE OrderInv'
  BY <1>2 DEF Intercept, feedHist, statHist, Admitted
<1>3. ASSUME NEW c \in Calls, LogstashLock(c) PROVE OrderInv'
  <2>1. \A d \in Calls : (d \in Published)' <=> (d \in Published \/ d = c)
    BY <1>3 DEF LogstashLock, Published
  <2> QED
    BY <1>3, <2>1 DEF LogstashLock, statHist, Admitted
<1>4. ASSUME NEW c \in Calls, NEW l \in LogCalls, LogstashSend(c, l) PROVE OrderInv'
  BY <1>4 DEF LogstashSend, feedHist, statHist, Admitted
<1>5. ASSUME NEW c \in Calls, LogstashUnlock(c) \/ Count(c) \/ Answer(c) PROVE OrderInv'
  BY <1>5 DEF LogstashUnlock, Count, Answer, feedHist, statHist, Admitted
<1>6. ASSUME NEW l \in Calls, \/ LoggingLoad(l) \/ LoggingStore(l) \/ LoggingRegister(l)
                              \/ LoggingSend(l) \/ LoggingReturn(l)
      PROVE OrderInv'
  BY <1>6 DEF LoggingLoad, LoggingStore, LoggingRegister, LoggingSend, LoggingReturn,
              feedHist, statHist, Admitted
<1>7. ASSUME NEW s \in Calls, \/ StatisticsLoad(s) \/ StatisticsStore(s) \/ StatisticsId(s)
                              \/ StatisticsReset(s) \/ StatisticsWake(s) \/ StatisticsReport(s)
      PROVE OrderInv'
  BY <1>7 DEF StatisticsLoad, StatisticsStore, StatisticsId, StatisticsReset,
              StatisticsWake, StatisticsReport, feedHist, statHist, Admitted
<1>8. ASSUME NEW c \in Calls, Leave(c) PROVE OrderInv'
  BY <1>8 DEF Leave, feedHist, statHist, Admitted
<1>9. CASE Stop \/ (\E s \in MayStall : Read(s)) \/ UNCHANGED vars
  BY <1>9 DEF Stop, Read, vars, feedHist, statHist, Admitted
<1> QED
  BY <1>2, <1>3, <1>4, <1>5, <1>6, <1>7, <1>8, <1>9 DEF Next, Serve

\* Where a Stat waits to be reported.
Waits(s) == pc[s] \in {"sleep", "report"}

\* A step that puts no stream to sleep and leaves the Stats, the ids and their
\* history alone keeps the statistics part of the invariant.
LEMMA StatFrame ==
  ASSUME StatInv, NoDoubleReport, UNCHANGED <<stats, counted, reported, id>>,
         \A s \in StatCalls : Waits(s)' => Waits(s)
  PROVE  StatInv' /\ NoDoubleReport'
BY DEF StatInv, NoDoubleReport, Waits

\* Every step keeps Stats and reports within what was counted, and a call is
\* never in both the Stat and the reports of one stream.
LEMMA StatStep == IInv /\ [Next]_vars => StatInv' /\ NoDoubleReport'
<1> SUFFICES ASSUME IInv, [Next]_vars PROVE StatInv' /\ NoDoubleReport'
  OBVIOUS
<1>0. /\ TypeOK /\ KindInv /\ OrderInv /\ StatInv /\ NoDoubleReport
  BY DEF IInv
<1> USE <1>0 DEF TypeOK, StatInv, NoDoubleReport, Goto, Waits
<1>1. ASSUME NEW c \in Calls, \/ Intercept(c) \/ LogstashLock(c) \/ LogstashUnlock(c)
                              \/ Answer(c) \/ Leave(c)
      PROVE StatInv' /\ NoDoubleReport'
  <2>1. UNCHANGED <<stats, counted, reported, id>>
    BY <1>1 DEF Intercept, LogstashLock, LogstashUnlock, Answer, Leave, adminVars, statHist
  <2>2. \A s \in StatCalls : Waits(s)' => Waits(s)
    BY <1>1 DEF Intercept, LogstashLock, LogstashUnlock, Answer, Leave, Calls
  <2> QED
    BY <2>1, <2>2, StatFrame
<1>2. ASSUME NEW c \in Calls, NEW l \in LogCalls, LogstashSend(c, l)
      PROVE StatInv' /\ NoDoubleReport'
  <2>1. \A s \in StatCalls : Waits(s)' => Waits(s)
    BY <1>2 DEF LogstashSend, Calls
  <2> QED
    BY <1>2, <2>1, StatFrame DEF LogstashSend, adminVars, statHist
<1>3. ASSUME NEW c \in Calls, Count(c) PROVE StatInv' /\ NoDoubleReport'
  <2>1. c \notin counted /\ \A s \in StatCalls : c \notin reported[s]
    BY <1>3 DEF Count, OrderInv
  <2>2. /\ DOMAIN stats' = DOMAIN stats
        /\ \A u \in DOMAIN stats : stats'[u] = stats[u] \cup {c}
        /\ counted' = counted \cup {c} /\ reported' = reported /\ id' = id
        /\ \A s \in StatCalls : Waits(s)' => Waits(s)
    BY <1>3 DEF Count, CountIn, Calls
  <2> QED
    BY <2>1, <2>2
<1>4. ASSUME NEW l \in Calls, \/ LoggingLoad(l) \/ LoggingStore(l) \/ LoggingRegister(l)
                              \/ LoggingSend(l) \/ LoggingReturn(l)
      PROVE StatInv' /\ NoDoubleReport'
  <2>1. UNCHANGED <<stats, counted, reported, id>>
    BY <1>4 DEF LoggingLoad, LoggingStore, LoggingRegister, LoggingSend, LoggingReturn,
                adminVars, statHist
  <2>2. \A s \in StatCalls : Waits(s)' => Waits(s)
    BY <1>4 DEF LoggingLoad, LoggingStore, LoggingRegister, LoggingSend, LoggingReturn, Calls
  <2> QED
    BY <2>1, <2>2, StatFrame
<1>5. ASSUME NEW s \in Calls, StatisticsLoad(s) \/ StatisticsStore(s)
      PROVE StatInv' /\ NoDoubleReport'
  <2>1. \A t \in StatCalls : Waits(t)' => Waits(t)
    BY <1>5 DEF StatisticsLoad, StatisticsStore, Calls
  <2> QED
    BY <1>5, <2>1, StatFrame DEF StatisticsLoad, StatisticsStore, adminVars, statHist
<1>6. ASSUME NEW s \in Calls, StatisticsId(s) PROVE StatInv' /\ NoDoubleReport'
  <2>1. \A t \in StatCalls : Waits(t)' => Waits(t) /\ id'[t] = id[t]
    BY <1>6 DEF StatisticsId, Calls
  <2> QED
    BY <1>6, <2>1 DEF StatisticsId, adminVars, statHist
<1>7. ASSUME NEW s \in Calls, StatisticsReset(s) PROVE StatInv' /\ NoDoubleReport'
  <2>1. /\ DOMAIN stats' = DOMAIN stats \cup {id[s]}
        /\ \A u \in DOMAIN stats' : stats'[u] = IF u = id[s] THEN {} ELSE stats[u]
    BY <1>7 DEF StatisticsReset, FreshStat, Put
  <2>2. /\ UNCHANGED <<counted, reported, id>>
        /\ \A t \in StatCalls : Waits(t)' => t = s \/ Waits(t)
    BY <1>7 DEF StatisticsReset, Calls
  <2> QED
    BY <2>1, <2>2
<1>8. ASSUME NEW s \in Calls, StatisticsReport(s) PROVE StatInv' /\ NoDoubleReport'
  <2>1. s \in StatCalls /\ id[s] \in DOMAIN stats /\ stats[id[s]] \subseteq counted
    BY <1>8 DEF StatisticsReport, KindInv
  <2>2. /\ UNCHANGED <<stats, counted, id>>
        /\ \A t \in StatCalls : Waits(t)' => t # s /\ Waits(t)
        /\ \A t \in StatCalls \ {s} : reported'[t] = reported[t]
        /\ reported'[s] \subseteq reported[s] \cup stats[id[s]]
    BY <1>8, <2>1 DEF StatisticsReport, adminVars, Calls
  <2> QED
    BY <2>1, <2>2
<1>9. ASSUME NEW s \in Calls, StatisticsWake(s) PROVE StatInv' /\ NoDoubleReport'
  <2>1. \A t \in StatCalls : Waits(t)' => Waits(t)
    BY <1>9 DEF StatisticsWake, Calls
  <2> QED
    BY <1>9, <2>1, StatFrame DEF StatisticsWake, statHist
<1>10. CASE Stop \/ (\E s \in MayStall : Read(s)) \/ UNCHANGED vars
  BY <1>10 DEF Stop, Read, vars, adminVars, statHist
<1> QED
  BY <1>1, <1>2, <1>3, <1>4, <1>5, <1>6, <1>7, <1>8, <1>9, <1>10 DEF Next, Serve

\* Every step keeps the ids.
LEMMA IdStep == IInv /\ [Next]_vars => IdInv'
<1> SUFFICES ASSUME IInv, [Next]_vars PROVE IdInv'
  OBVIOUS
<1>0. TypeOK /\ KindInv /\ IdInv
  BY DEF IInv
<1> USE <1>0 DEF TypeOK, IdInv, InLoop, Goto, Calls
<1>1. ASSUME NEW c \in Calls, \/ Intercept(c) \/ LogstashLock(c) \/ LogstashUnlock(c)
                              \/ Count(c) \/ Answer(c) \/ Leave(c)
      PROVE IdInv'
  BY <1>1 DEF Intercept, LogstashLock, LogstashUnlock, Count, Answer, Leave, adminVars
<1>2. ASSUME NEW c \in Calls, NEW l \in LogCalls, LogstashSend(c, l) PROVE IdInv'
  BY <1>2 DEF LogstashSend, adminVars
<1>3. ASSUME NEW l \in Calls, \/ LoggingLoad(l) \/ LoggingStore(l) \/ LoggingRegister(l)
                              \/ LoggingSend(l) \/ LoggingReturn(l)
      PROVE IdInv'
  BY <1>3 DEF LoggingLoad, LoggingStore, LoggingRegister, LoggingSend, LoggingReturn, adminVars
<1>4. ASSUME NEW s \in Calls, StatisticsLoad(s) PROVE IdInv'
  BY <1>4 DEF StatisticsLoad, adminVars
<1>5. ASSUME NEW s \in Calls, StatisticsStore(s) PROVE IdInv'
  BY <1>5 DEF StatisticsStore, Incremented
<1>6. ASSUME NEW s \in Calls, StatisticsId(s) PROVE IdInv'
  BY <1>6 DEF StatisticsId, KindInv, adminVars
<1>7. ASSUME NEW s \in Calls, StatisticsReset(s) \/ StatisticsWake(s) \/ StatisticsReport(s)
      PROVE IdInv'
  BY <1>7 DEF StatisticsReset, StatisticsWake, StatisticsReport
<1>8. CASE Stop \/ (\E s \in MayStall : Read(s)) \/ UNCHANGED vars
  BY <1>8 DEF Stop, Read, vars, adminVars
<1> QED
  BY <1>1, <1>2, <1>3, <1>4, <1>5, <1>6, <1>7, <1>8 DEF Next, Serve

\* A step that moves no statistics stream within its loop and leaves the Stats,
\* the ids and their history alone keeps the accounting.
LEMMA AccountFrame ==
  ASSUME AccountInv, done \subseteq done',
         UNCHANGED <<stats, counted, since, reported, missed, id>>,
         \A s \in StatCalls :
           \/ pc'[s] = pc[s]
           \/ {pc[s], pc'[s]} \cap {"sleep", "report", "restart"} = {}
  PROVE  AccountInv'
<1>1. \A s \in StatCalls : Accounted(s)' = Accounted(s) /\ SharesId(s)' = SharesId(s)
  BY DEF Accounted, SharesId
<1> QED
  BY <1>1 DEF AccountInv

\* statistics counts a call that nothing has counted yet: in every Stat that
\* waits to be reported, and in the gap of every stream that is in one.
LEMMA AccountCount ==
  ASSUME IInv, NEW c \in Calls, Count(c)
  PROVE  AccountInv'
<1>0. TypeOK /\ OrderInv /\ StatInv /\ AccountInv
  BY DEF IInv
<1>1. /\ c \notin counted /\ counted' = counted \cup {c}
      /\ UNCHANGED <<since, reported, id, done>>
      /\ pc' = [pc EXCEPT ![c] = "handler"] /\ pc[c] = "statistics"
  BY <1>0 DEF Count, Goto, OrderInv
<1>2. \A s \in StatCalls :
        /\ missed'[s] = IF pc[s] = "restart" THEN missed[s] \cup {c} ELSE missed[s]
        /\ SharesId(s)' = SharesId(s)
        /\ pc'[s] = pc[s] \/ {pc[s], pc'[s]} \cap {"sleep", "report", "restart"} = {}
        /\ reported[s] \subseteq counted
  BY <1>0, <1>1 DEF Count, SharesId, TypeOK, StatInv, Calls
<1>3. \A s \in StatCalls : id[s] \in DOMAIN stats => stats'[id[s]] = stats[id[s]] \cup {c}
  BY DEF Count, CountIn
<1>4. \A s \in StatCalls : pc[s] \in {"sleep", "report"} => id[s] \in DOMAIN stats
  BY <1>0 DEF StatInv
<1>5. ASSUME NEW s \in StatCalls, Accounted(s), pc[s] \in {"sleep", "report"}
      PROVE  Accounted(s)'
  <2>1. /\ stats'[id[s]] = stats[id[s]] \cup {c} /\ missed'[s] = missed[s]
        /\ since[s] \subseteq counted /\ missed[s] \subseteq counted /\ reported[s] \subseteq counted
    BY <1>0, <1>2, <1>3, <1>4, <1>5 DEF AccountInv
  <2> QED
    BY <1>1, <1>5, <2>1 DEF Accounted
<1>6. ASSUME NEW s \in StatCalls
      PROVE  /\ since'[s] \subseteq counted' /\ missed'[s] \subseteq counted'
             /\ pc'[s] \notin {"sleep", "report", "restart"} => reported'[s] = {} /\ missed'[s] = {}
             /\ s \notin done' /\ ~SharesId(s)' =>
                  /\ pc'[s] \in {"sleep", "report"} => Accounted(s)'
                  /\ pc'[s] = "restart" => /\ reported'[s] \cup missed'[s] = counted' \ since'[s]
                                          /\ reported'[s] \cap missed'[s] = {}
  <2>1. CASE pc'[s] = pc[s]
    <3>1. CASE pc[s] = "restart"
      <4>1. /\ since[s] \subseteq counted /\ missed[s] \subseteq counted /\ reported[s] \subseteq counted
            /\ missed'[s] = missed[s] \cup {c}
        BY <1>0, <1>2, <3>1 DEF AccountInv
      <4>2. s \notin done /\ ~SharesId(s) => /\ reported[s] \cup missed[s] = counted \ since[s]
                                           /\ reported[s] \cap missed[s] = {}
        BY <1>0, <3>1 DEF AccountInv
      <4>3. s \notin done' /\ ~SharesId(s)' =>
              /\ reported'[s] \cup missed'[s] = counted' \ since'[s]
              /\ reported'[s] \cap missed'[s] = {}
        BY <1>1, <1>2, <4>1, <4>2
      <4>4. since'[s] \subseteq counted' /\ missed'[s] \subseteq counted'
        BY <1>1, <4>1
      <4> QED
        BY <2>1, <3>1, <4>3, <4>4
    <3>2. CASE pc[s] # "restart"
      <4>1. missed'[s] = missed[s] /\ since'[s] = since[s] /\ reported'[s] = reported[s]
        BY <1>1, <1>2, <3>2
      <4> QED
        BY <1>0, <1>1, <1>2, <1>5, <2>1, <3>2, <4>1 DEF AccountInv
    <3> QED
      BY <3>1, <3>2
  <2>2. CASE {pc[s], pc'[s]} \cap {"sleep", "report", "restart"} = {}
    BY <1>0, <1>1, <1>2, <2>2 DEF AccountInv
  <2> QED
    BY <1>2, <2>1, <2>2
<1> QED
  BY <1>6 DEF AccountInv

\* The head of the loop gives a stream an empty Stat: what it counted since it
\* started has been reported or fell into the gap.
LEMMA AccountReset ==
  ASSUME IInv, NEW s \in Calls, StatisticsReset(s)
  PROVE  AccountInv'
<1>0. TypeOK /\ KindInv /\ AccountInv
  BY DEF IInv
<1>1. /\ s \in StatCalls /\ pc[s] \in {"start", "restart"}
      /\ pc' = [pc EXCEPT ![s] = "sleep"]
      /\ UNCHANGED <<id, done, counted, reported, missed>>
      /\ since' = IF pc[s] = "start" THEN [since EXCEPT ![s] = counted] ELSE since
      /\ \A t \in StatCalls : SharesId(t)' = SharesId(t)
  BY <1>0 DEF StatisticsReset, KindInv, SharesId
<1>2. /\ stats'[id[s]] = {}
      /\ \A t \in StatCalls : id[t] # id[s] /\ id[t] \in DOMAIN stats => stats'[id[t]] = stats[id[t]]
  BY DEF StatisticsReset, FreshStat, Put
<1>3. \A t \in StatCalls \ {s} :
        /\ pc'[t] = pc[t] /\ since'[t] = since[t]
        /\ ~SharesId(t) => id[t] # id[s]
        /\ pc[t] \in {"sleep", "report"} => id[t] \in DOMAIN stats
  BY <1>0, <1>1 DEF TypeOK, SharesId, IInv, StatInv, Calls
<1>4. \A t \in StatCalls \ {s} :
        ~SharesId(t) /\ pc[t] \in {"sleep", "report"} /\ Accounted(t) => Accounted(t)'
  BY <1>1, <1>2, <1>3 DEF Accounted
<1>5. s \notin done /\ ~SharesId(s) => Accounted(s)'
  BY <1>0, <1>1, <1>2 DEF Accounted, AccountInv, TypeOK
<1>6. since'[s] \subseteq counted /\ pc'[s] = "sleep"
  BY <1>0, <1>1 DEF AccountInv, TypeOK, Calls
<1> QED
  BY <1>0, <1>1, <1>3, <1>4, <1>5, <1>6 DEF AccountInv

\* A report moves the calls of a Stat to the reported ones.
LEMMA AccountReport ==
  ASSUME IInv, NEW s \in Calls, StatisticsReport(s)
  PROVE  AccountInv'
<1>0. TypeOK /\ KindInv /\ AccountInv
  BY DEF IInv
<1>1. /\ s \in StatCalls /\ pc[s] = "report" /\ pc' = [pc EXCEPT ![s] = "restart"]
      /\ UNCHANGED <<stats, id, done, counted, since, missed>>
      /\ reported' = IF s \in done THEN reported
                     ELSE [reported EXCEPT ![s] = @ \cup stats[id[s]]]
  BY <1>0 DEF StatisticsReport, Goto, KindInv
<1>2. \A t \in StatCalls : SharesId(t)' = SharesId(t)
  BY <1>1 DEF SharesId
<1>3. \A t \in StatCalls \ {s} : /\ pc'[t] = pc[t] /\ reported'[t] = reported[t]
                                /\ Accounted(t)' = Accounted(t)
  BY <1>0, <1>1 DEF TypeOK, Accounted, Calls
<1>4. s \notin done /\ ~SharesId(s) =>
        /\ reported'[s] \cup missed[s] = counted \ since[s]
        /\ reported'[s] \cap missed[s] = {}
  BY <1>0, <1>1 DEF TypeOK, AccountInv, Accounted
<1>5. pc'[s] = "restart"
  BY <1>0, <1>1 DEF TypeOK, Calls
<1> QED
  BY <1>0, <1>1, <1>2, <1>3, <1>4, <1>5 DEF AccountInv

\* Every step keeps the accounting of every statistics stream.
LEMMA AccountStep == IInv /\ [Next]_vars => AccountInv'
<1> SUFFICES ASSUME IInv, [Next]_vars PROVE AccountInv'
  OBVIOUS
<1>0. TypeOK /\ KindInv /\ IdInv /\ AccountInv
  BY DEF IInv
<1> USE <1>0 DEF TypeOK, Goto, Calls
<1>1. ASSUME NEW c \in Calls, \/ Intercept(c) \/ LogstashLock(c) \/ LogstashUnlock(c)
                              \/ Answer(c) \/ Leave(c)
      PROVE AccountInv'
  BY <1>1, AccountFrame
     DEF Intercept, LogstashLock, LogstashUnlock, Answer, Leave, adminVars, statHist
<1>2. ASSUME NEW c \in Calls, NEW l \in LogCalls, LogstashSend(c, l) PROVE AccountInv'
  BY <1>2, AccountFrame DEF LogstashSend, adminVars, statHist
<1>3. ASSUME NEW c \in Calls, Count(c) PROVE AccountInv'
  BY <1>3, AccountCount
<1>4. ASSUME NEW l \in Calls, \/ LoggingLoad(l) \/ LoggingStore(l) \/ LoggingRegister(l)
                              \/ LoggingSend(l) \/ LoggingReturn(l)
      PROVE AccountInv'
  BY <1>4, AccountFrame DEF LoggingLoad, LoggingStore, LoggingRegister, LoggingSend,
                            LoggingReturn, adminVars, statHist
<1>5. ASSUME NEW s \in Calls, StatisticsLoad(s) \/ StatisticsStore(s) PROVE AccountInv'
  BY <1>5, AccountFrame DEF StatisticsLoad, StatisticsStore, adminVars, statHist
<1>6. ASSUME NEW s \in Calls, StatisticsId(s) PROVE AccountInv'
  <2>1. /\ pc[s] = "load_statuuid" /\ pc'[s] = "start" /\ s \in StatCalls
        /\ UNCHANGED <<stats, counted, since, reported, missed, done>>
        /\ \A t \in StatCalls \ {s} : pc'[t] = pc[t] /\ id'[t] = id[t]
    BY <1>6 DEF StatisticsId, KindInv, adminVars, statHist
  <2>2. \A t \in StatCalls \ {s} : Accounted(t)' = Accounted(t)
    BY <2>1 DEF Accounted
  <2>3. ASSUME NEW t \in StatCalls \ {s}, ~SharesId(t)',
               pc[t] \in {"sleep", "report", "restart"}
        PROVE  ~SharesId(t)
    <3>1. id[s] # id[t]
      <4>1. id[s] = 0
        BY <2>1 DEF IdInv, InLoop
      <4>2. id[t] > 0
        BY <2>3 DEF IdInv, InLoop
      <4> QED
        BY <4>1, <4>2
    <3>2. \A r \in StatCalls \ {t, s} : id[r] # id[t]
      BY <2>1, <2>3 DEF SharesId
    <3> QED
      BY <3>1, <3>2 DEF SharesId
  <2> QED
    BY <2>1, <2>2, <2>3 DEF AccountInv
<1>7. ASSUME NEW s \in Calls, StatisticsReset(s) PROVE AccountInv'
  BY <1>7, AccountReset
<1>8. ASSUME NEW s \in Calls, StatisticsWake(s) PROVE AccountInv'
  <2>1. /\ pc[s] = "sleep" /\ pc'[s] = "report"
        /\ UNCHANGED <<stats, counted, since, reported, missed, id, done>>
        /\ \A t \in StatCalls \ {s} : pc'[t] = pc[t]
        /\ \A t \in StatCalls : Accounted(t)' = Accounted(t) /\ SharesId(t)' = SharesId(t)
    BY <1>8 DEF StatisticsWake, statHist, Accounted, SharesId
  <2> QED
    BY <2>1 DEF AccountInv
<1>9. ASSUME NEW s \in Calls, StatisticsReport(s) PROVE AccountInv'
  BY <1>9, AccountReport
<1>10. CASE Stop \/ (\E s \in MayStall : Read(s)) \/ UNCHANGED vars
  BY <1>10, AccountFrame DEF Stop, Read, vars, adminVars, statHist
<1> QED
  BY <1>1, <1>2, <1>3, <1>4, <1>5, <1>6, <1>7, <1>8, <1>9, <1>10 DEF Next, Serve
-----------------------------------------------------------------------------
(***************************************************************************)
(* The theorems.                                                           *)
(***************************************************************************)

\* IInv is an invariant of the service, whatever the calls and the ACL are.
THEOREM Invariance == Spec => []IInv
<1>1. Init => IInv
  BY InitInv
<1>2. IInv /\ [Next]_vars => IInv'
  BY TypeStep, KindStep, MutexStep, ChannelStep, FeedStep, OrderStep, StatStep, IdStep,
     AccountStep DEF IInv
<1> QED
  BY <1>1, <1>2, PTL DEF Spec

\* The variables of the service always have their types.
THEOREM TypeCorrect == Spec => []TypeOK
BY Invariance, PTL DEF IInv

\* What a logging stream receives is a gapless run of the broadcasts, in order.
THEOREM FeedContiguous == Spec => []FeedIsContiguous
BY Invariance, PTL DEF IInv, FeedInv

\* Between broadcasts no live registered stream misses an event (logstash
\* keeps mu until each of them has taken it).
THEOREM BroadcastsComplete == Spec => []BroadcastComplete
<1>1. IInv => BroadcastComplete
  <2> SUFFICES ASSUME IInv, mu = None, NEW l \in Registered \ done
               PROVE  Received(l) = Len(published)
    BY DEF BroadcastComplete
  <2>1. PICK u \in DOMAIN logsChannels : logsChannels[u] = l
    BY DEF Registered
  <2>2. l \in LogCalls /\ u \notin pending
    BY <2>1, FreeMeansOver DEF IInv, TypeOK
  <2> QED
    BY <2>1, <2>2 DEF IInv, FeedInv, CaughtUp
<1> QED
  BY <1>1, Invariance, PTL

\* ACL, log, statistics and handler see a call in that order.
THEOREM InterceptorsInOrder == Spec => []ObservedInOrder
<1>1. IInv => ObservedInOrder
  <2> SUFFICES ASSUME IInv PROVE ObservedInOrder
    OBVIOUS
  <2>1. Published \subseteq Calls /\ counted \subseteq Calls /\ pc \in [Calls -> CallStates]
    BY DEF IInv, TypeOK, Published
  <2>2. \A c \in Calls : c \in counted => c \in Published
    BY DEF IInv, OrderInv
  <2>3. \A c \in Published : checkACL(Acl, Metadata[c], FullMethod[c])
    BY <2>1 DEF IInv, OrderInv, Admitted
  <2>4. \A c \in Calls :
          pc[c] \notin {"idle", "denied", "logstash", "broadcast", "statistics"} => c \in counted
    BY DEF IInv, OrderInv
  <2> QED
    BY <2>1, <2>2, <2>3, <2>4 DEF ObservedInOrder
<1> QED
  BY <1>1, Invariance, PTL

\* No statistics stream reports a call twice, however ids collide.
THEOREM ReportedOnce == Spec => []NoDoubleReport
BY Invariance, PTL DEF IInv

\* Every call that statistics counts is, for each stream that shares no id, in
\* its Stat, reported, or lost in the gap after a report.
THEOREM StatsAccounted == Spec => []StatsAccounting
<1>1. IInv => StatsAccounting
  BY DEF IInv, AccountInv, StatsAccounting
<1> QED
  BY <1>1, Invariance, PTL

\* A step of the service is a step of the feed, or does not change it.
LEMMA FeedRefinementStep == IInv /\ [Next]_vars => [Feed!FeedNext]_Feed!feedVars
<1> SUFFICES ASSUME IInv, [Next]_vars PROVE [Feed!FeedNext]_Feed!feedVars
  OBVIOUS
<1>0. TypeOK /\ KindInv /\ ChannelInv /\ FeedInv /\ OrderInv /\ None \notin Calls
  BY CallAssumption DEF IInv
<1> USE DEF Feed!feedVars
<1>1. ASSUME NEW c \in Calls, LogstashLock(c) PROVE Feed!FeedNext
  <2>1. \A i \in DOMAIN published : published[i] # c
    BY <1>0, <1>1 DEF LogstashLock, Goto, OrderInv, Published
  <2>2. Feed!Publish(c)
    BY <1>1, <2>1 DEF LogstashLock, Feed!Publish
  <2> QED
    BY <2>2 DEF Feed!FeedNext
<1>2. ASSUME NEW l \in Calls, LoggingRegister(l) PROVE Feed!FeedNext
  <2>1. l \in LogCalls /\ joined[l] = NotJoined
    BY <1>0, <1>2 DEF LoggingRegister, Goto, KindInv, ChannelInv
  <2>2. Feed!Join(l)
    BY <1>2, <2>1 DEF LoggingRegister, Feed!Join, NotJoined, Feed!NotJoined
  <2> QED
    BY <2>1, <2>2 DEF Feed!FeedNext
<1>3. ASSUME NEW l \in Calls, LoggingSend(l) PROVE [Feed!FeedNext]_Feed!feedVars
  <2>1. CASE l \in done
    BY <1>3, <2>1 DEF LoggingSend
  <2>2. CASE l \notin done
    <3>1. l \in LogCalls /\ joined[l] # NotJoined /\ hand[l] # None
      BY <1>0, <1>3 DEF LoggingSend, Goto, KindInv, ChannelInv
    <3>2. /\ Received(l) = joined[l] + Len(delivered[l]) + 1
          /\ joined[l] \in Nat /\ Len(delivered[l]) \in Nat
      BY <1>0, <3>1, ReceivedType
    <3>3. joined[l] + Len(delivered[l]) < Len(published)
      BY <1>0, <3>1, <3>2 DEF FeedInv, FeedIsContiguous, TypeOK
    <3>4. hand[l] = published[joined[l] + Len(delivered[l]) + 1]
      BY <1>0, <2>2, <3>1, <3>2 DEF FeedInv, HandInv
    <3>5. /\ delivered' = [delivered EXCEPT ![l] = Append(@, hand[l])]
          /\ UNCHANGED <<published, joined>>
      BY <1>3, <2>2 DEF LoggingSend
    <3>6. Feed!See(l)
      BY <3>1, <3>3, <3>4, <3>5 DEF Feed!See, NotJoined, Feed!NotJoined
    <3> QED
      BY <3>1, <3>6 DEF Feed!FeedNext
  <2> QED
    BY <2>1, <2>2
<1>4. ASSUME NEW c \in Calls, NEW l \in LogCalls, LogstashSend(c, l)
      PROVE UNCHANGED <<published, joined, delivered>>
  BY <1>4 DEF LogstashSend, feedHist
<1>5. ASSUME NEW c \in Calls, \/ Intercept(c) \/ LogstashUnlock(c) \/ Count(c) \/ Answer(c)
                              \/ LoggingLoad(c) \/ LoggingStore(c) \/ LoggingReturn(c)
                              \/ Leave(c)
      PROVE UNCHANGED <<published, joined, delivered>>
  BY <1>5 DEF Intercept, LogstashUnlock, Count, Answer, LoggingLoad, LoggingStore,
              LoggingReturn, Leave, feedHist
<1>6. ASSUME NEW s \in Calls, \/ StatisticsLoad(s) \/ StatisticsStore(s) \/ StatisticsId(s)
                              \/ StatisticsReset(s) \/ StatisticsWake(s) \/ StatisticsReport(s)
      PROVE UNCHANGED <<published, joined, delivered>>
  BY <1>6 DEF StatisticsLoad, StatisticsStore, StatisticsId, StatisticsReset,
              StatisticsWake, StatisticsReport, feedHist
<1>7. CASE Stop \/ (\E s \in MayStall : Read(s)) \/ UNCHANGED vars
  BY <1>7 DEF Stop, Read, vars, feedHist
<1> QED
  BY <1>1, <1>2, <1>3, <1>4, <1>5, <1>6, <1>7 DEF Next, Serve

\* The logging service implements the feed of LogFeed, whoever leaves and
\* whenever the server stops.
THEOREM FeedRefinement == Spec => ImplementsLogFeed
<1>1. Init => Feed!FeedInit
  BY DEF Init, Feed!FeedInit, NotJoined, Feed!NotJoined
<1>2. IInv /\ [Next]_vars => [Feed!FeedNext]_Feed!feedVars
  BY FeedRefinementStep
<1> QED
  BY <1>1, <1>2, Invariance, PTL DEF Spec, ImplementsLogFeed, Feed!FeedSpec
-----------------------------------------------------------------------------
(***************************************************************************)
(* Progress.  HangsOnlyOnReturned and EventsReachLoggers need fairness;    *)
(* who can keep mu, and with it every other call, does not.                *)
(***************************************************************************)

\* The streams the range of a broadcast has yet to visit.
Unvisited == {logsChannels[u] : u \in pending}

\* The client of the stream has let its window fill and is still there.
Unreading(s) == s \in MayStall \ done /\ unread[s] = Window

\* The call h that holds mu goes on: its range is over, a stream waits for its event, or
\* its report does not block.
HolderCanGo(h) ==
  \/ /\ pc[h] = "broadcast"
     /\ RangeOver \/ \E l \in Unvisited : pc[l] = "select"
  \/ pc[h] = "report" /\ CanSend(h)

\* A stream that h has yet to send to is busy sending, which does not block.
StreamCanGo(h) == pc[h] = "broadcast" /\ \E l \in Unvisited : pc[l] = "send" /\ CanSend(l)

\* What h waits for may never come: a client that does not read, or a stream that has
\* returned and whose channel is still registered.
HeldByClient(h) ==
  \/ pc[h] = "broadcast" /\ \E l \in Unvisited : pc[l] = "send" /\ Unreading(l)
  \/ pc[h] = "report" /\ Unreading(h)
HeldByReturned(h) == pc[h] = "broadcast" /\ \E l \in Unvisited : pc[l] = "returned"

HeldFor ==
  \A h \in Calls : mu = h =>
    HolderCanGo(h) \/ StreamCanGo(h) \/ HeldByClient(h) \/ HeldByReturned(h)

\* The window of a client that goes on reading never fills.
WindowInv == \A s \in LogCalls \cup StatCalls : s \notin MayStall => unread[s] = 0

\* Only a stream whose client may stop reading takes from its window.
LEMMA WindowStep == IInv /\ WindowInv /\ [Next]_vars => WindowInv'
<1> SUFFICES ASSUME IInv, WindowInv, [Next]_vars PROVE WindowInv'
  OBVIOUS
<1>0. /\ unread \in [LogCalls \cup StatCalls -> 0 .. Window] /\ Window \in Nat
      /\ MayStall \subseteq LogCalls \cup StatCalls
  BY CallAssumption DEF IInv, TypeOK
<1>1. unread' = unread => WindowInv'
  BY DEF WindowInv
<1>2. ASSUME NEW s \in LogCalls \cup StatCalls, Send(s) PROVE WindowInv'
  BY <1>0, <1>2 DEF Send, WindowInv
<1>3. ASSUME NEW s \in MayStall, Read(s) PROVE WindowInv'
  BY <1>0, <1>3 DEF Read, WindowInv
<1>4. ASSUME NEW c \in Calls, Serve(c) PROVE WindowInv'
  <2>1. CASE LoggingSend(c)
    <3>1. c \in LogCalls
      BY <2>1 DEF LoggingSend, Goto, IInv, KindInv
    <3> QED
      BY <1>2, <2>1, <3>1 DEF LoggingSend
  <2>2. CASE StatisticsReport(c)
    <3>1. c \in StatCalls
      BY <2>2 DEF StatisticsReport, Goto, IInv, KindInv
    <3> QED
      BY <1>2, <2>2, <3>1 DEF StatisticsReport
  <2>3. CASE ~LoggingSend(c) /\ ~StatisticsReport(c)
    <3>1. unread' = unread
      BY <1>4, <2>3
         DEF Serve, LogstashLock, LogstashSend, LogstashUnlock, Count, Answer, LoggingLoad,
             LoggingStore, LoggingRegister, LoggingReturn, StatisticsLoad, StatisticsStore,
             StatisticsId, StatisticsReset, StatisticsWake
    <3> QED
      BY <1>1, <3>1
  <2> QED
    BY <2>1, <2>2, <2>3
<1>5. ASSUME NEW c \in Calls, Intercept(c) \/ Leave(c) PROVE unread' = unread
  BY <1>5 DEF Intercept, Leave
<1>6. CASE Stop \/ UNCHANGED vars
  BY <1>1, <1>6 DEF Stop, vars
<1> QED
  BY <1>1, <1>3, <1>4, <1>5, <1>6 DEF Next

\* Nothing but a client that does not read, or a stream that has returned and whose channel
\* is still registered, can keep a call waiting for mu: else the call that holds mu, or
\* a stream it has yet to send to, can go on.
THEOREM HeldForReason == Spec => []HeldFor
<1>1. Init => WindowInv
  BY DEF Init, WindowInv
<1>2. IInv /\ WindowInv => HeldFor
  <2> SUFFICES ASSUME IInv, WindowInv, NEW h \in Calls, mu = h
               PROVE  HolderCanGo(h) \/ StreamCanGo(h) \/ HeldByClient(h) \/ HeldByReturned(h)
    BY DEF HeldFor
  <2>1. pc[h] \in {"broadcast", "report"}
    BY DEF IInv, MutexInv
  <2>2. ASSUME NEW s \in LogCalls \cup StatCalls PROVE CanSend(s) \/ Unreading(s)
    <3>1. unread[s] \in 0 .. Window /\ Window \in Nat \ {0}
      BY CallAssumption DEF IInv, TypeOK
    <3>2. s \notin MayStall => unread[s] = 0
      BY DEF WindowInv
    <3> QED
      BY <3>1, <3>2 DEF CanSend, Unreading
  <2>3. CASE pc[h] = "report"
    <3>1. h \in StatCalls
      BY <2>3 DEF IInv, KindInv
    <3> QED
      BY <2>2, <2>3, <3>1 DEF HolderCanGo, HeldByClient
  <2>4. CASE pc[h] = "broadcast"
    <3>1. CASE RangeOver
      BY <2>4, <3>1 DEF HolderCanGo
    <3>2. CASE ~RangeOver
      <4>1. PICK u \in pending : TRUE
        BY <3>2 DEF RangeOver
      <4>2. u \in DOMAIN logsChannels /\ logsChannels[u] \in LogCalls
        BY <4>1 DEF IInv, TypeOK
      <4>3. pc[logsChannels[u]] \in {"select", "send", "returned"}
        BY <4>2 DEF IInv, ChannelInv
      <4>4. logsChannels[u] \in Unvisited
        BY <4>1 DEF Unvisited
      <4>5. CanSend(logsChannels[u]) \/ Unreading(logsChannels[u])
        BY <2>2, <4>2
      <4> QED
        BY <2>4, <4>3, <4>4, <4>5 DEF HolderCanGo, StreamCanGo, HeldByClient, HeldByReturned
    <3> QED
      BY <3>1, <3>2
  <2> QED
    BY <2>1, <2>3, <2>4
<1> QED
  BY <1>1, <1>2, WindowStep, Invariance, PTL DEF Spec
=============================================================================
