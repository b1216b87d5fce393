------------------------------- MODULE Signer -------------------------------
(***************************************************************************)
(* The pipeline of hw2_signer/signer.go: ExecutePipeline runs five jobs, a *)
(* source, SingleHash, MultiHash, CombineResults and a sink, each in a     *)
(* goroutine of its own and joined by channels of capacity 1.  SingleHash  *)
(* and MultiHash start a goroutine (a worker) per value, and a worker      *)
(* starts a goroutine per crc32.  DataSignerMd5 (common.go) overheats when *)
(* two goroutines are in it; a mutex of SingleHash keeps them apart.       *)
(*                                                                         *)
(* Stages are numbered in pipeline order, channel k joins stage k to stage *)
(* k + 1.  A message carries, beside its value, the place of the input it  *)
(* stems from: the label names its workers, no guard of the code reads it. *)
(***************************************************************************)
EXTENDS HashTerms, FiniteSets

CONSTANTS Input,         \* what the source sends
          Less(_, _),    \* the order sort.Strings sorts by
          None           \* nobody holds the mutex

Source == 1
Single == 2
Multi == 3
Combine == 4
Sink == 5
Stages == Source .. Sink
HashStages == {Single, Multi}
Items == 1 .. Len(Input)
Capacity == 1    \* of the channels ExecutePipeline makes

ASSUME InputAssumption ==
  /\ Input \in Seq(Nat)
  /\ None \notin Items

\* The order of strings: no hash is before itself, and before is transitive.
ASSUME LessAssumption ==
  \A i, j, k \in Items :
    /\ ~Less(HashOf(Input[i]), HashOf(Input[i]))
    /\ Less(HashOf(Input[i]), HashOf(Input[j])) /\ Less(HashOf(Input[j]), HashOf(Input[k])) =>
         Less(HashOf(Input[i]), HashOf(Input[k]))

\* The places of the crc32 values in a worker's result.
Places(k) == IF k = Single THEN 0 .. 1 ELSE 0 .. Th - 1

VARIABLES
  at,        \* where the goroutine of each stage is
  chan,      \* the buffer of each stage's output channel
  closed,    \* whether the output channel of each stage is closed
  sent,      \* how many inputs the source has sent
  wg,        \* the WaitGroup of the workers of a stage
  pc,        \* where each worker is
  arg,       \* the value each worker hashes
  crc,       \* where the crc32 goroutine of each place of a worker is
  wg2,       \* the WaitGroup of the crc32 goroutines of a worker
  mych,      \* the channel of a worker's crc32 results
  mu,        \* the mutex of SingleHash: the worker that holds it, or None
  dataSignerOverheat,  \* the flag of DataSignerMd5
  unsortedResults,     \* what CombineResults has received
  output,    \* what the sink has received
  \* history
  overheated,  \* a CompareAndSwap of OverheatLock or OverheatUnlock failed
  panicked     \* a goroutine sent on a closed channel

stageVars  == <<at, chan, closed, sent, wg, unsortedResults, output>>
workerVars == <<pc, arg, crc, wg2, mych>>
md5Vars    == <<mu, dataSignerOverheat, overheated>>
vars == <<at, chan, closed, sent, wg, pc, arg, crc, wg2, mych, mu,
          dataSignerOverheat, unsortedResults, output, overheated, panicked>>

Workers == HashStages \X Items

Init ==
  /\ at = [k \in Stages |-> "range"]
  /\ chan = [k \in Stages |-> <<>>]
  /\ closed = [k \in Stages |-> FALSE]
  /\ sent = 0
  /\ wg = [k \in HashStages |-> 0]
  /\ pc = [w \in Workers |-> "none"]
  /\ arg = [w \in Workers |-> <<>>]
  /\ crc = [w \in Workers |-> [x \in Places(w[1]) |-> "none"]]
  /\ wg2 = [w \in Workers |-> 0]
  /\ mych = [w \in Workers |-> <<>>]
  /\ mu = None /\ dataSignerOverheat = 0
  /\ unsortedResults = <<>> /\ output = <<>>
  /\ overheated = FALSE /\ panicked = FALSE
-----------------------------------------------------------------------------
(***************************************************************************)
(* Channels.  The operators named ...Slip are the code with one plausible  *)
(* mistake each; no specification uses them.                               *)
(***************************************************************************)

\* out <- m on the channel of stage k: it blocks while the buffer is full and
\* panics when the channel is closed.
SendTo(k, m) ==
  /\ closed[k] \/ Len(chan[k]) < Capacity
  /\ chan' = IF closed[k] THEN chan ELSE [chan EXCEPT ![k] = Append(@, m)]
  /\ panicked' = (panicked \/ closed[k])

\* Receiving from the input channel of stage k, and the end of its range.
CanReceive(k) == chan[k - 1] # <<>>
Received(k) == Head(chan[k - 1])
Receive(k) == chan' = [chan EXCEPT ![k - 1] = Tail(@)]
Drained(k) == chan[k - 1] = <<>> /\ closed[k - 1]

ReturnSlip(k) == at' = [at EXCEPT ![k] = "returned"] /\ UNCHANGED closed

\* ExecutePipeline's wrapper: the job of stage k returned, close(out).
Return(k) ==
  /\ at' = [at EXCEPT ![k] = "returned"]
  /\ closed' = [closed EXCEPT ![k] = TRUE]
-----------------------------------------------------------------------------
(***************************************************************************)
(* The source, and the ranges of SingleHash and MultiHash.                 *)
(***************************************************************************)

SourceSend ==
  /\ at[Source] = "range"
  /\ sent < Len(Input)
  /\ SendTo(Source, [item |-> sent + 1, val |-> Data(Input[sent + 1])])
  /\ sent' = sent + 1
  /\ UNCHANGED <<at, closed, wg, unsortedResults, output, workerVars, md5Vars>>

SourceReturn ==
  /\ at[Source] = "range"
  /\ sent = Len(Input)
  /\ Return(Source)
  /\ UNCHANGED <<chan, sent, wg, unsortedResults, output, workerVars, md5Vars, panicked>>

AddedSlip(k) == wg

\* wg.Add(1), before the go statement.
Added(k) == [wg EXCEPT ![k] = @ + 1]

\* for val := range in { wg.Add(1); go func ... }
StartWorker(k) ==
  /\ k \in HashStages
  /\ at[k] = "range"
  /\ CanReceive(k)
  /\ Receive(k)
  /\ wg' = Added(k)
  /\ LET w == <<k, Received(k).item>>
     IN  /\ pc' = [pc EXCEPT ![w] = "start"]
         /\ arg' = [arg EXCEPT ![w] = Received(k).val]
  /\ UNCHANGED <<at, closed, sent, unsortedResults, output, crc, wg2, mych,
                 md5Vars, panicked>>

\* The channel is closed and empty: SingleHash and MultiHash wait for their
\* workers, CombineResults sorts and sends.
EndRange(k) ==
  /\ k \in HashStages \cup {Combine}
  /\ at[k] = "range"
  /\ Drained(k)
  /\ at' = [at EXCEPT ![k] = IF k = Combine THEN "emit" ELSE "wait"]
  /\ UNCHANGED <<chan, closed, sent, wg, unsortedResults, output, workerVars,
                 md5Vars, panicked>>

\* wg.Wait() returns, and the stage with it.
WaitWorkers(k) ==
  /\ k \in HashStages
  /\ at[k] = "wait"
  /\ wg[k] = 0
  /\ Return(k)
  /\ UNCHANGED <<chan, sent, wg, unsortedResults, output, workerVars, md5Vars, panicked>>
-----------------------------------------------------------------------------
(***************************************************************************)
(* A worker of SingleHash or MultiHash, and its crc32 goroutines.          *)
(***************************************************************************)

Goto(w, from, to) == pc[w] = from /\ pc' = [pc EXCEPT ![w] = to]

\* What a worker starts at once: SingleHash the crc32 of the data, MultiHash
\* one per prefix.  The worker adds 1 to wg2 for each of its crc32 goroutines,
\* also for the one SingleHash starts after the md5.
StartCrcs(w) ==
  /\ Goto(w, "start", IF w[1] = Single THEN "lock" ELSE "wait")
  /\ crc' = [crc EXCEPT ![w] =
               [x \in Places(w[1]) |->
                  IF w[1] = Single /\ x = 1 THEN "none" ELSE "running"]]
  /\ wg2' = [wg2 EXCEPT ![w] = Cardinality(Places(w[1]))]
  /\ UNCHANGED <<stageVars, arg, mych, md5Vars, panicked>>

MuFreeSlip == TRUE

\* mymu.Lock() returns only while nobody holds the mutex.
MuFree == mu = None

LockMd5(w) ==
  /\ MuFree
  /\ Goto(w, "lock", "md5")
  /\ mu' = w[2]
  /\ UNCHANGED <<stageVars, arg, crc, wg2, mych, dataSignerOverheat, overheated, panicked>>

\* DataSignerMd5: OverheatLock.  A failed CompareAndSwap sleeps and tries again.
OverheatLock(w) ==
  /\ IF dataSignerOverheat = 0
     THEN Goto(w, "md5", "hashing")
     ELSE Goto(w, "md5", "md5")
  /\ dataSignerOverheat' = 1
  /\ overheated' = (overheated \/ dataSignerOverheat = 1)
  /\ UNCHANGED <<stageVars, arg, crc, wg2, mych, mu, panicked>>

\* The deferred OverheatUnlock.
OverheatUnlock(w) ==
  /\ IF dataSignerOverheat = 1
     THEN Goto(w, "hashing", "unlock")
     ELSE Goto(w, "hashing", "hashing")
  /\ dataSignerOverheat' = 0
  /\ overheated' = (overheated \/ dataSignerOverheat = 0)
  /\ UNCHANGED <<stageVars, arg, crc, wg2, mych, mu, panicked>>

\* mymu.Unlock(), and the crc32 of the md5 starts.
UnlockMd5(w) ==
  /\ Goto(w, "unlock", "wait")
  /\ mu' = None
  /\ crc' = [crc EXCEPT ![w][1] = "running"]
  /\ UNCHANGED <<stageVars, arg, wg2, mych, dataSignerOverheat, overheated, panicked>>

\* The data of the crc32 at place x of a worker.
CrcData(w, x) ==
  IF w[1] = Multi THEN Prefixed(x, arg[w])
  ELSE IF x = 0 THEN arg[w] ELSE Md5(arg[w])

\* close(mych): the worker has left wg2.Wait().
MychClosed(w) == pc[w] \in {"emit", "emitted", "done"}

\* myCrc32: mych <- &Crc32Res{...}; mych has room for every place.
SendCrc(w, x) ==
  /\ crc[w][x] = "running"
  /\ crc' = [crc EXCEPT ![w][x] = "sent"]
  /\ mych' = IF MychClosed(w) THEN mych
             ELSE [mych EXCEPT ![w] =
                     Append(@, [index |-> x, crc32Str |-> Crc32(CrcData(w, x))])]
  /\ panicked' = (panicked \/ MychClosed(w))
  /\ UNCHANGED <<stageVars, pc, arg, wg2, md5Vars>>

\* myCrc32: the deferred mywg.Done().
DoneCrc(w, x) ==
  /\ crc[w][x] = "sent"
  /\ crc' = [crc EXCEPT ![w][x] = "done"]
  /\ wg2' = [wg2 EXCEPT ![w] = @ - 1]
  /\ UNCHANGED <<stageVars, pc, arg, mych, md5Vars, panicked>>

CrcsDoneSlip(w) == TRUE
AccumulatedSlip(w) == wg2[w] = 0 /\ at[w[1]] # "range"

\* wg2.Wait() returns.
CrcsDone(w) == wg2[w] = 0

WaitCrcs(w) ==
  /\ CrcsDone(w)
  /\ Goto(w, "wait", "emit")
  /\ UNCHANGED <<stageVars, arg, crc, wg2, mych, md5Vars, panicked>>

ResultOfSlip(w) ==
  [x \in Places(w[1]) |-> IF x < Len(mych[w]) THEN mych[w][x + 1].crc32Str ELSE <<>>]

\* The crc32 values put in the places of their indexes; a place that no
\* result names stays empty.
ResultOf(w) ==
  [x \in Places(w[1]) |->
     IF \E n \in DOMAIN mych[w] : mych[w][n].index = x
     THEN mych[w][CHOOSE n \in DOMAIN mych[w] : mych[w][n].index = x].crc32Str
     ELSE <<>>]

\* out <- result
Emit(w) ==
  /\ SendTo(w[1], [item |-> w[2], val |-> ResultOf(w)])
  /\ Goto(w, "emit", "emitted")
  /\ UNCHANGED <<at, closed, sent, wg, unsortedResults, output, arg, crc, wg2,
                 mych, md5Vars>>

\* The deferred wg.Done().
DoneWorker(w) ==
  /\ Goto(w, "emitted", "done")
  /\ wg' = [wg EXCEPT ![w[1]] = @ - 1]
  /\ UNCHANGED <<at, chan, closed, sent, unsortedResults, output, arg, crc, wg2,
                 mych, md5Vars, panicked>>
-----------------------------------------------------------------------------
(***************************************************************************)
(* CombineResults, the sink, and the specification.                        *)
(***************************************************************************)

Collect ==
  /\ at[Combine] = "range"
  /\ CanReceive(Combine)
  /\ Receive(Combine)
  /\ unsortedResults' = Append(unsortedResults, Received(Combine).val)
  /\ UNCHANGED <<at, closed, sent, wg, output, workerVars, md5Vars, panicked>>

CombinedSlip == unsortedResults

\* sort.Strings and strings.Join.
Combined == Sorted(unsortedResults, Less)

\* out <- result, and CombineResults returns.
SendCombined ==
  /\ at[Combine] = "emit"
  /\ SendTo(Combine, [item |-> 1, val |-> Combined])
  /\ Return(Combine)
  /\ UNCHANGED <<sent, wg, unsortedResults, output, workerVars, md5Vars>>

\* The sink takes a value; TestSigner's sink returns then, main's goes on.
SinkReceive ==
  /\ at[Sink] = "range"
  /\ CanReceive(Sink)
  /\ Receive(Sink)
  /\ output' = Append(output, Received(Sink).val)
  /\ Return(Sink) \/ UNCHANGED <<at, closed>>
  /\ UNCHANGED <<sent, wg, unsortedResults, workerVars, md5Vars, panicked>>

\* The range of main's sink ends.
SinkReturn ==
  /\ at[Sink] = "range"
  /\ Drained(Sink)
  /\ Return(Sink)
  /\ UNCHANGED <<chan, sent, wg, unsortedResults, output, workerVars, md5Vars, panicked>>

Stage(k) == StartWorker(k) \/ EndRange(k) \/ WaitWorkers(k)

Worker(w) ==
  \/ StartCrcs(w)
  \/ LockMd5(w)
  \/ OverheatLock(w)
  \/ OverheatUnlock(w)
  \/ UnlockMd5(w)
  \/ WaitCrcs(w)
  \/ Emit(w)
  \/ DoneWorker(w)

MyCrc32(w, x) == SendCrc(w, x) \/ DoneCrc(w, x)

SourceStep == SourceSend \/ SourceReturn
CombineStep == EndRange(Combine) \/ Collect \/ SendCombined
SinkStep == SinkReceive \/ SinkReturn

Next ==
  \/ SourceStep
  \/ \E k \in HashStages : Stage(k)
  \/ \E w \in Workers : Worker(w) \/ \E x \in Places(w[1]) : MyCrc32(w, x)
  \/ CombineStep
  \/ SinkStep

Spec == Init /\ [][Next]_vars

\* Every goroutine but the source's is scheduled, and the hash functions return;
\* the source is the caller's and may send slowly, or never again.
FairSpec ==
  /\ Spec
  /\ \A k \in HashStages : WF_vars(Stage(k))
  /\ \A w \in Workers : WF_vars(Worker(w))
  /\ \A w \in Workers : \A x \in Places(w[1]) : WF_vars(MyCrc32(w, x))
  /\ WF_vars(CombineStep)
  /\ WF_vars(SinkStep)
-----------------------------------------------------------------------------
(***************************************************************************)
(* Properties.                                                             *)
(***************************************************************************)

StageStates == {"range", "wait", "emit", "returned"}
WorkerStates == {"none", "start", "lock", "md5", "hashing", "unlock", "wait",
                 "emit", "emitted", "done"}
CrcStates == {"none", "running", "sent", "done"}

\* The types of the variables; a channel never holds more than its capacity
\* and no WaitGroup counter is negative (Done would panic).
TypeOK ==
  /\ at \in [Stages -> StageStates]
  /\ \A k \in Stages : /\ Len(chan[k]) <= Capacity
                       /\ \A n \in DOMAIN chan[k] : chan[k][n].item \in Items \cup {1}
  /\ closed \in [Stages -> BOOLEAN]
  /\ sent \in 0 .. Len(Input)
  /\ wg \in [HashStages -> Nat]
  /\ pc \in [Workers -> WorkerStates]
  /\ \A w \in Workers : crc[w] \in [Places(w[1]) -> CrcStates]
  /\ wg2 \in [Workers -> Nat]
  /\ mu \in Items \cup {None}
  /\ dataSignerOverheat \in {0, 1}
  /\ overheated \in BOOLEAN /\ panicked \in BOOLEAN

\* hw2.md: only one goroutine at a time may be in DataSignerMd5, or it
\* overheats: no CompareAndSwap of its flag ever fails.
NoOverheat == ~overheated

\* No goroutine ever sends on a closed channel: a stage returns only after the
\* last send of its workers, a worker closes mych after its last crc32.
NoPanic == ~panicked

\* What leaves SingleHash and MultiHash for the next stage is the hash hw2.md
\* defines, whatever order the crc32 goroutines finished in.
HashesRight ==
  \A n \in DOMAIN chan[Single] :
    chan[Single][n].val = SingleHashOf(Data(Input[chan[Single][n].item]))
  /\ \A m \in DOMAIN chan[Multi] :
       chan[Multi][m].val = HashOf(Input[chan[Multi][m].item])

\* The pipeline implements its promise: one delivery, of the sorted hashes.
Promise == INSTANCE Signature WITH taken <- sent
ImplementsSignature == Promise!SignatureSpec

\* Once the source has returned ExecutePipeline returns: every stage returns.
Terminates == at[Source] = "returned" ~> \A k \in Stages : at[k] = "returned"

\* TestPipeline: values flow on while the source is still running; what it has
\* sent reaches CombineResults even if it never sends or returns again.
Flows ==
  \A i \in Items : sent >= i ~> Len(unsortedResults) >= i
=============================================================================
