---------------------------- MODULE SignerProofs ----------------------------
(***************************************************************************)
(* Proofs about Signer, for every input, every number of hashes and every  *)
(* order: DataSignerMd5 never overheats, no goroutine sends on a closed    *)
(* channel, what leaves a hash stage is the hash hw2.md defines, and the   *)
(* pipeline implements Signature.                                          *)
(***************************************************************************)
EXTENDS Signer, OrderProofs, FiniteSetTheorems, TLAPS

\* The domains that EXCEPT needs to know.
DomainInv ==
  /\ DOMAIN chan = Stages
  /\ DOMAIN arg = Workers
  /\ DOMAIN crc = Workers
  /\ DOMAIN mych = Workers

\* The worker of SingleHash that is between Lock and Unlock holds the mutex,
\* and the flag of DataSignerMd5 is set exactly while it is in there.
Md5Inv ==
  /\ \A w \in Workers :
       /\ pc[w] \in {"lock", "md5", "hashing", "unlock"} => w[1] = Single
       /\ pc[w] \in {"md5", "hashing", "unlock"} => mu = w[2]
       /\ pc[w] = "hashing" => dataSignerOverheat = 1
       /\ pc[w] \in {"md5", "unlock"} => dataSignerOverheat = 0
  /\ mu = None => dataSignerOverheat = 0
  /\ ~overheated

Active(k) == {w \in Workers : w[1] = k /\ pc[w] \notin {"none", "done"}}

\* A stage's WaitGroup counts its active workers; a channel is closed when its
\* stage has returned, and a stage returns when none of its workers is active.
StageInv ==
  /\ \A k \in Stages : closed[k] <=> at[k] = "returned"
  /\ \A k \in HashStages : wg[k] = Cardinality(Active(k))
  /\ \A k \in HashStages : at[k] = "returned" => Active(k) = {}

\* The value that stage k sends for the input at place i.
ValueOf(k, i) ==
  IF k = Source THEN Data(Input[i])
  ELSE IF k = Single THEN SingleHashOf(Data(Input[i]))
  ELSE HashOf(Input[i])

Message(k, i) == [item |-> i, val |-> ValueOf(k, i)]

\* Stage k has sent what it makes of the input at place i.
Left(k, i) == IF k = Source THEN i <= sent ELSE pc[<<k, i>>] \in {"emitted", "done"}

\* The stage behind stage k has not taken what k made of that input.
Untaken(k, i) ==
  /\ k = Source => pc[<<Single, i>>] = "none"
  /\ k = Single => pc[<<Multi, i>>] = "none"

\* A channel holds at most one message, of an input that the stage before has
\* sent and that no worker of the stage behind has taken.
ChanInv ==
  /\ \A k \in {Source, Single, Multi} :
       \/ chan[k] = <<>>
       \/ \E i \in Items : /\ chan[k] = <<Message(k, i)>>
                           /\ Left(k, i)
                           /\ Untaken(k, i)
  /\ \A i \in Items : pc[<<Single, i>>] # "none" => i <= sent
  /\ \A i \in Items : pc[<<Multi, i>>] # "none" => pc[<<Single, i>>] \in {"emitted", "done"}
  /\ \/ chan[Combine] = <<>>
     \/ /\ at[Combine] = "returned"
        /\ chan[Combine] = <<[item |-> 1, val |-> Combined]>>
  /\ chan[Sink] = <<>>

Unfinished(w) == {x \in Places(w[1]) : crc[w][x] # "done"}

\* wg2 counts the crc32 goroutines that have not finished, started or not.
CrcOf(w) ==
  /\ pc[w] \in {"none", "start"} =>
       /\ \A x \in Places(w[1]) : crc[w][x] = "none"
       /\ mych[w] = <<>>
  /\ pc[w] \in {"lock", "md5", "hashing", "unlock"} => crc[w][1] = "none"
  /\ pc[w] \notin {"none", "start"} => wg2[w] = Cardinality(Unfinished(w))
  /\ MychClosed(w) => Unfinished(w) = {}

CrcInv == \A w \in Workers : CrcOf(w)

\* A worker hashes what the stage before sent for its input.
ArgInv == \A w \in Workers : pc[w] # "none" => arg[w] = ValueOf(w[1] - 1, w[2])

Crc32Results(w) ==
  {[index |-> x, crc32Str |-> Crc32(CrcData(w, x))] : x \in Places(w[1])}

\* mych holds right results only, one for every crc32 goroutine that has sent.
MychOf(w) ==
  /\ mych[w] \in Seq(Crc32Results(w))
  /\ \A x \in Places(w[1]) : crc[w][x] \in {"sent", "done"} =>
       \E n \in DOMAIN mych[w] : mych[w][n].index = x

MychInv == \A w \in Workers : MychOf(w)

IInv ==
  /\ TypeOK /\ DomainInv /\ Md5Inv /\ StageInv /\ ChanInv
  /\ CrcInv /\ ArgInv /\ MychInv /\ NoPanic
-----------------------------------------------------------------------------
(***************************************************************************)
(* Constants, workers and finite sets.                                     *)
(***************************************************************************)

\* The stages are the numbers 1 to 5.
LEMMA StageNumbers ==
  /\ Stages = 1 .. 5 /\ HashStages = {2, 3} /\ Capacity = 1
  /\ Source = 1 /\ Single = 2 /\ Multi = 3 /\ Combine = 4 /\ Sink = 5
BY DEF Stages, HashStages, Source, Single, Multi, Combine, Sink, Capacity

\* A worker is a hash stage and the place of an input.
LEMMA WorkerShape ==
  /\ \A w \in Workers : w[1] \in HashStages /\ w[2] \in Items /\ w = <<w[1], w[2]>>
  /\ \A k \in HashStages, i \in Items :
       <<k, i>> \in Workers /\ <<k, i>>[1] = k /\ <<k, i>>[2] = i
  /\ \A v, w \in Workers : v[1] = w[1] /\ v[2] = w[2] => v = w
BY DEF Workers

\* Finitely many workers, finitely many crc32 goroutines in each.
LEMMA FiniteWorkers ==
  /\ IsFiniteSet(Workers)
  /\ \A w \in Workers : IsFiniteSet(Places(w[1]))
<1>1. Len(Input) \in Nat /\ Th \in Nat
  BY InputAssumption, ThAssumption
<1>2. IsFiniteSet(Items)
  BY <1>1, FS_Interval DEF Items
<1>3. IsFiniteSet(HashStages)
  <2>1. HashStages = ({} \cup {Single}) \cup {Multi}
    BY DEF HashStages
  <2>2. IsFiniteSet({} \cup {Single})
    BY FS_EmptySet, FS_AddElement
  <2> QED
    BY <2>1, <2>2, FS_AddElement
<1>4. IsFiniteSet(Workers)
  BY <1>2, <1>3, FS_Product DEF Workers
<1>5. \A a, b \in Int : IsFiniteSet(a .. b)
  BY FS_Interval
<1>6. \A w \in Workers : IsFiniteSet(Places(w[1]))
  <2> SUFFICES ASSUME NEW w \in Workers PROVE IsFiniteSet(Places(w[1]))
    OBVIOUS
  <2>1. 0 \in Int /\ 1 \in Int /\ Th - 1 \in Int
    BY <1>1
  <2>2. IsFiniteSet(0 .. 1) /\ IsFiniteSet(0 .. Th - 1)
    BY <1>5, <2>1
  <2>3. Places(w[1]) = 0 .. 1 \/ Places(w[1]) = 0 .. Th - 1
    BY DEF Places
  <2> QED
    BY <2>2, <2>3
<1> QED
  BY <1>4, <1>6

\* The initial state satisfies the inductive invariant.
LEMMA InitInv == Init => IInv
<1> SUFFICES ASSUME Init PROVE IInv
  OBVIOUS
<1> USE StageNumbers, WorkerShape, InputAssumption, ThAssumption
<1>1. Len(Input) \in Nat
  OBVIOUS
<1>2. TypeOK
  <2>1. \A k \in Stages : chan[k] = <<>>
    BY DEF Init
  <2>2. /\ at \in [Stages -> StageStates] /\ closed \in [Stages -> BOOLEAN]
        /\ pc \in [Workers -> WorkerStates]
    BY DEF Init, StageStates, WorkerStates
  <2>3. \A w \in Workers : crc[w] \in [Places(w[1]) -> CrcStates]
    BY DEF Init, CrcStates
  <2>4. \A k \in Stages : /\ Len(chan[k]) <= Capacity
                          /\ \A n \in DOMAIN chan[k] : chan[k][n].item \in Items \cup {1}
    <3>1. Len(<<>>) = 0 /\ DOMAIN <<>> = {}
      OBVIOUS
    <3> QED
      BY <2>1, <3>1
  <2>5. wg \in [HashStages -> Nat] /\ wg2 \in [Workers -> Nat] /\ sent \in 0 .. Len(Input)
    BY <1>1 DEF Init
  <2>6. /\ mu \in Items \cup {None} /\ dataSignerOverheat \in {0, 1}
        /\ overheated \in BOOLEAN /\ panicked \in BOOLEAN
    BY DEF Init
  <2> QED
    BY <2>2, <2>3, <2>4, <2>5, <2>6 DEF TypeOK
<1>3. DomainInv /\ Md5Inv /\ NoPanic
  BY DEF Init, DomainInv, Md5Inv, NoPanic
<1>4. \A k : Active(k) = {}
  BY DEF Init, Active
<1>5. StageInv
  BY <1>4, FS_EmptySet DEF Init, StageInv
<1>6. ChanInv
  BY DEF Init, ChanInv
<1>7. CrcInv /\ ArgInv
  BY DEF Init, CrcInv, CrcOf, ArgInv, MychClosed
<1>8. MychInv
  BY DEF Init, MychInv, MychOf
<1> QED
  BY <1>2, <1>3, <1>5, <1>6, <1>7, <1>8 DEF IInv
-----------------------------------------------------------------------------
(***************************************************************************)
(* DataSignerMd5 and its mutex.                                            *)
(***************************************************************************)

\* A step that moves no worker within the critical section, nor the mutex and
\* the flag, keeps Md5Inv.
LEMMA Md5Frame ==
  ASSUME Md5Inv, UNCHANGED md5Vars,
         \A w \in Workers :
           pc'[w] = pc[w] \/ pc'[w] \notin {"lock", "md5", "hashing", "unlock"}
  PROVE  Md5Inv'
BY DEF Md5Inv, md5Vars

\* Every step keeps the worker in DataSignerMd5 the holder of the mutex.
LEMMA Md5Step == IInv /\ [Next]_vars => Md5Inv'
<1> SUFFICES ASSUME IInv, [Next]_vars PROVE Md5Inv'
  OBVIOUS
<1>0. /\ pc \in [Workers -> WorkerStates] /\ mu \in Items \cup {None}
      /\ dataSignerOverheat \in {0, 1} /\ None \notin Items
      /\ Md5Inv
  BY InputAssumption DEF IInv, TypeOK
<1> USE <1>0
<1>1. CASE SourceStep \/ CombineStep \/ SinkStep \/ UNCHANGED vars
  BY <1>1, Md5Frame
     DEF SourceStep, SourceSend, SourceReturn, CombineStep, EndRange, Collect, SendCombined,
         SinkStep, SinkReceive, SinkReturn, workerVars, vars, md5Vars
<1>2. ASSUME NEW k \in HashStages, Stage(k) PROVE Md5Inv'
  BY <1>2, Md5Frame DEF Stage, StartWorker, EndRange, WaitWorkers, workerVars
<1>3. ASSUME NEW w \in Workers, StartCrcs(w) PROVE Md5Inv'
  <2>1. \A v \in Workers :
          pc'[v] = IF v = w THEN IF w[1] = Single THEN "lock" ELSE "wait" ELSE pc[v]
    BY <1>3 DEF StartCrcs, Goto
  <2> QED
    BY <1>3, <2>1 DEF StartCrcs, Md5Inv, md5Vars
<1>4. ASSUME NEW w \in Workers, LockMd5(w) PROVE Md5Inv'
  <2>1. \A v \in Workers : pc'[v] = IF v = w THEN "md5" ELSE pc[v]
    BY <1>4 DEF LockMd5, Goto
  <2>2. w[1] = Single /\ mu = None /\ mu' = w[2] /\ dataSignerOverheat = 0
    BY <1>4 DEF LockMd5, MuFree, Goto, Md5Inv
  <2>3. \A v \in Workers : v[2] # None
    BY WorkerShape
  <2> QED
    BY <1>4, <2>1, <2>2, <2>3 DEF LockMd5, Md5Inv
<1>5. ASSUME NEW w \in Workers, OverheatLock(w) PROVE Md5Inv'
  <2>1. dataSignerOverheat = 0 /\ mu = w[2] /\ w[1] = Single
    BY <1>5 DEF OverheatLock, Goto, Md5Inv
  <2>2. \A v \in Workers : pc'[v] = IF v = w THEN "hashing" ELSE pc[v]
    BY <1>5, <2>1 DEF OverheatLock, Goto
  <2>3. \A v \in Workers : pc[v] \in {"md5", "hashing", "unlock"} => v = w
    BY <2>1, WorkerShape DEF Md5Inv
  <2>4. dataSignerOverheat' = 1 /\ mu' = mu /\ ~overheated'
    <3>1. ~overheated /\ ~(dataSignerOverheat = 1)
      BY <2>1 DEF Md5Inv
    <3>2. overheated' = (overheated \/ dataSignerOverheat = 1)
      BY <1>5 DEF OverheatLock
    <3>3. ~overheated'
      BY <3>1, <3>2
    <3> QED
      BY <1>5, <3>3 DEF OverheatLock
  <2>5. w[2] # None
    BY WorkerShape
  <2> QED
    BY <2>1, <2>2, <2>3, <2>4, <2>5 DEF Md5Inv
<1>6. ASSUME NEW w \in Workers, OverheatUnlock(w) PROVE Md5Inv'
  <2>1. dataSignerOverheat = 1 /\ mu = w[2] /\ w[1] = Single
    BY <1>6 DEF OverheatUnlock, Goto, Md5Inv
  <2>2. \A v \in Workers : pc'[v] = IF v = w THEN "unlock" ELSE pc[v]
    BY <1>6, <2>1 DEF OverheatUnlock, Goto
  <2>3. \A v \in Workers : pc[v] \in {"md5", "hashing", "unlock"} => v = w
    BY <2>1, WorkerShape DEF Md5Inv
  <2>4. dataSignerOverheat' = 0 /\ mu' = mu /\ ~overheated'
    <3>1. ~overheated /\ ~(dataSignerOverheat = 0)
      BY <2>1 DEF Md5Inv
    <3>2. overheated' = (overheated \/ dataSignerOverheat = 0)
      BY <1>6 DEF OverheatUnlock
    <3>3. ~overheated'
      BY <3>1, <3>2
    <3> QED
      BY <1>6, <3>3 DEF OverheatUnlock
  <2> QED
    BY <2>1, <2>2, <2>3, <2>4 DEF Md5Inv
<1>7. ASSUME NEW w \in Workers, UnlockMd5(w) PROVE Md5Inv'
  BY <1>7, WorkerShape DEF UnlockMd5, Goto, Md5Inv
<1>8. ASSUME NEW w \in Workers, WaitCrcs(w) \/ Emit(w) \/ DoneWorker(w) PROVE Md5Inv'
  BY <1>8, Md5Frame DEF WaitCrcs, Emit, DoneWorker, Goto
<1>9. ASSUME NEW w \in Workers, NEW x \in Places(w[1]), MyCrc32(w, x) PROVE Md5Inv'
  BY <1>9, Md5Frame DEF MyCrc32, SendCrc, DoneCrc
<1> QED
  BY <1>1, <1>2, <1>3, <1>4, <1>5, <1>6, <1>7, <1>8, <1>9 DEF Next, Worker
-----------------------------------------------------------------------------
(***************************************************************************)
(* What the operators that the actions share do.                           *)
(***************************************************************************)

\* Goto moves one worker.
LEMMA GotoPc ==
  ASSUME TypeOK, NEW w \in Workers, NEW a, NEW b, Goto(w, a, b)
  PROVE  pc[w] = a /\ \A v \in Workers : pc'[v] = IF v = w THEN b ELSE pc[v]
BY DEF TypeOK, Goto

\* Which workers are active depends on who is before its start or done.
LEMMA ActiveFrame ==
  ASSUME \A v \in Workers : pc'[v] \in {"none", "done"} <=> pc[v] \in {"none", "done"}
  PROVE  \A k \in HashStages : Active(k)' = Active(k)
BY DEF Active

\* The active workers are finitely many.
LEMMA ActiveFinite == \A k \in HashStages : IsFiniteSet(Active(k))
BY FiniteWorkers, FS_Subset DEF Active

\* A worker that has yet to send stands before an open channel.
LEMMA OpenChannel ==
  ASSUME IInv
  PROVE  /\ at[Source] = "range" => ~closed[Source]
         /\ at[Combine] = "emit" => ~closed[Combine]
         /\ \A w \in Workers : pc[w] \in {"emit", "emitted"} => ~closed[w[1]]
<1>1. \A k \in Stages : closed[k] <=> at[k] = "returned"
  BY DEF IInv, StageInv
<1>2. ASSUME NEW w \in Workers, pc[w] \in {"emit", "emitted"} PROVE at[w[1]] # "returned"
  <2>1. w \in Active(w[1]) /\ w[1] \in HashStages
    BY <1>2, WorkerShape DEF Active
  <2> QED
    BY <2>1 DEF IInv, StageInv
<1>3. \A w \in Workers : w[1] \in Stages
  BY WorkerShape, StageNumbers
<1> QED
  BY <1>1, <1>2, <1>3, StageNumbers

\* A send on an open channel finds it empty and leaves the message in it.
LEMMA SendOpen ==
  ASSUME IInv, NEW k \in {Source, Single, Multi}, NEW m, SendTo(k, m), ~closed[k]
  PROVE  /\ chan[k] = <<>> /\ chan'[k] = <<m>> /\ DOMAIN chan' = Stages
         /\ \A j \in Stages \ {k} : chan'[j] = chan[j]
         /\ ~panicked'
<1>1. Len(chan[k]) < 1 /\ chan' = [chan EXCEPT ![k] = Append(@, m)] /\ k \in Stages
  BY StageNumbers DEF SendTo
<1>2. chan[k] = <<>>
  <2>1. chan[k] = <<>> \/ \E i \in Items : chan[k] = <<Message(k, i)>>
    BY DEF IInv, ChanInv
  <2>2. \A i \in Items : Len(<<Message(k, i)>>) = 1
    OBVIOUS
  <2> QED
    BY <1>1, <2>1, <2>2
<1>3. ~panicked /\ DOMAIN chan = Stages
  BY DEF IInv, NoPanic, DomainInv
<1>4. ~panicked'
  BY <1>3 DEF SendTo
<1> QED
  BY <1>1, <1>2, <1>3, <1>4

\* What a hash stage receives is the one message in its input channel.
LEMMA TakeMessage ==
  ASSUME IInv, NEW k \in HashStages, StartWorker(k)
  PROVE  \E i \in Items :
           /\ chan[k - 1] = <<Message(k - 1, i)>> /\ Left(k - 1, i)
           /\ pc[<<k, i>>] = "none"
           /\ DOMAIN chan' = Stages /\ chan'[k - 1] = <<>>
           /\ \A j \in Stages \ {k - 1} : chan'[j] = chan[j]
           /\ \A v \in Workers : pc'[v] = IF v = <<k, i>> THEN "start" ELSE pc[v]
           /\ \A v \in Workers : arg'[v] = IF v = <<k, i>> THEN ValueOf(k - 1, i) ELSE arg[v]
           /\ DOMAIN arg' = Workers
<1>1. /\ k - 1 \in {Source, Single} /\ k - 1 \in Stages /\ (k - 1) + 1 = k
      /\ k - 1 # Multi
  BY StageNumbers
<1>2. chan[k - 1] # <<>>
  BY DEF StartWorker, CanReceive
<1>3. PICK i \in Items : /\ chan[k - 1] = <<Message(k - 1, i)>> /\ Left(k - 1, i)
                         /\ pc[<<k, i>>] = "none"
  <2>1. PICK i \in Items : /\ chan[k - 1] = <<Message(k - 1, i)>>
                           /\ Left(k - 1, i) /\ Untaken(k - 1, i)
    BY <1>1, <1>2 DEF IInv, ChanInv
  <2>2. (k = Single /\ k - 1 = Source) \/ (k = Multi /\ k - 1 = Single)
    BY StageNumbers
  <2>3. pc[<<k, i>>] = "none"
    BY <2>1, <2>2 DEF Untaken
  <2> QED
    BY <2>1, <2>3
<1>4. Received(k) = Message(k - 1, i) /\ Tail(chan[k - 1]) = <<>>
  BY <1>3 DEF Received
<1>5. Received(k).item = i /\ Received(k).val = ValueOf(k - 1, i)
  BY <1>4 DEF Message
<1>6. /\ pc' = [pc EXCEPT ![<<k, i>>] = "start"]
      /\ arg' = [arg EXCEPT ![<<k, i>>] = ValueOf(k - 1, i)]
      /\ chan' = [chan EXCEPT ![k - 1] = Tail(@)]
  BY <1>5 DEF StartWorker, Receive
<1>7. DOMAIN chan = Stages /\ DOMAIN arg = Workers /\ DOMAIN pc = Workers
  BY DEF IInv, DomainInv, TypeOK
<1> QED
  BY <1>1, <1>3, <1>4, <1>6, <1>7
-----------------------------------------------------------------------------
(***************************************************************************)
(* WaitGroups and the closing of channels.                                 *)
(***************************************************************************)

\* A step that starts and ends no worker and moves no stage keeps StageInv.
LEMMA StageFrame ==
  ASSUME StageInv, UNCHANGED <<at, closed, wg>>,
         \A v \in Workers : pc'[v] \in {"none", "done"} <=> pc[v] \in {"none", "done"}
  PROVE  StageInv'
BY ActiveFrame DEF StageInv

\* A step in which a stage moves, starts or ends no worker, and returns only
\* when none is active, keeps StageInv.
LEMMA StageMove ==
  ASSUME StageInv, UNCHANGED <<pc, wg>>,
         \A k \in Stages : closed'[k] <=> at'[k] = "returned",
         \A k \in HashStages : at'[k] = "returned" => Active(k) = {}
  PROVE  StageInv'
BY ActiveFrame DEF StageInv

\* Every step keeps the WaitGroups in step with the active workers.
LEMMA StageStep == IInv /\ [Next]_vars => StageInv'
<1> SUFFICES ASSUME IInv, [Next]_vars PROVE StageInv'
  OBVIOUS
<1>0. /\ TypeOK /\ StageInv
      /\ at \in [Stages -> StageStates] /\ closed \in [Stages -> BOOLEAN]
      /\ wg \in [HashStages -> Nat]
  BY DEF IInv, TypeOK
<1>a. HashStages \subseteq Stages /\ Source \notin HashStages /\ Combine \notin HashStages
      /\ Sink \notin HashStages /\ Source \in Stages /\ Combine \in Stages /\ Sink \in Stages
  BY StageNumbers
<1>1. CASE SourceSend \/ UNCHANGED vars
  BY <1>0, <1>1, StageFrame DEF SourceSend, workerVars, vars
<1>2. CASE SourceReturn
  BY <1>0, <1>a, <1>2, StageMove DEF SourceReturn, Return, workerVars, StageInv
<1>3. ASSUME NEW k \in HashStages, StartWorker(k) PROVE StageInv'
  <2>1. PICK i \in Items :
          /\ pc[<<k, i>>] = "none"
          /\ \A v \in Workers : pc'[v] = IF v = <<k, i>> THEN "start" ELSE pc[v]
    BY <1>3, TakeMessage
  <2>2. <<k, i>> \in Workers /\ <<k, i>>[1] = k
    BY WorkerShape
  <2>3. Active(k)' = Active(k) \cup {<<k, i>>} /\ <<k, i>> \notin Active(k)
    BY <2>1, <2>2 DEF Active
  <2>4. \A j \in HashStages \ {k} : Active(j)' = Active(j)
    BY <2>1, <2>2 DEF Active
  <2>5. Cardinality(Active(k)') = Cardinality(Active(k)) + 1
    BY <2>3, ActiveFinite, FS_AddElement
  <2>6. wg' = [wg EXCEPT ![k] = @ + 1] /\ UNCHANGED <<at, closed>> /\ at[k] = "range"
    BY <1>3 DEF StartWorker, Added
  <2>7. \A j \in HashStages : wg'[j] = Cardinality(Active(j)')
    BY <1>0, <2>4, <2>5, <2>6 DEF StageInv
  <2>8. \A j \in HashStages : at'[j] = "returned" => Active(j)' = {}
    BY <1>0, <2>4, <2>6 DEF StageInv
  <2> QED
    BY <1>0, <2>6, <2>7, <2>8 DEF StageInv
<1>4. ASSUME NEW k \in Stages, EndRange(k) PROVE StageInv'
  <2>1. at' = [at EXCEPT ![k] = IF k = Combine THEN "emit" ELSE "wait"] /\ at[k] = "range"
    BY <1>4 DEF EndRange
  <2>2. \A j \in Stages : at'[j] = "returned" <=> at[j] = "returned"
    BY <1>0, <2>1
  <2> QED
    BY <1>0, <1>a, <1>4, <2>2, StageMove DEF EndRange, workerVars, StageInv
<1>5. ASSUME NEW k \in HashStages, WaitWorkers(k) PROVE StageInv'
  <2>1. wg[k] = 0 /\ wg[k] = Cardinality(Active(k))
    BY <1>0, <1>5 DEF WaitWorkers, StageInv
  <2>2. Active(k) = {}
    BY <2>1, ActiveFinite, FS_EmptySet
  <2> QED
    BY <1>0, <1>a, <1>5, <2>2, StageMove DEF WaitWorkers, Return, workerVars, StageInv
<1>6. ASSUME NEW w \in Workers,
             \/ StartCrcs(w) \/ LockMd5(w) \/ OverheatLock(w) \/ OverheatUnlock(w)
             \/ UnlockMd5(w) \/ WaitCrcs(w) \/ Emit(w)
      PROVE StageInv'
  <2>1. UNCHANGED <<at, closed, wg>>
    BY <1>6 DEF StartCrcs, LockMd5, OverheatLock, OverheatUnlock, UnlockMd5, WaitCrcs, Emit,
                stageVars
  <2>2. pc[w] \notin {"none", "done"}
    BY <1>6 DEF StartCrcs, LockMd5, OverheatLock, OverheatUnlock, UnlockMd5, WaitCrcs, Emit,
                Goto
  <2>3. pc'[w] \notin {"none", "done"} /\ \A v \in Workers \ {w} : pc'[v] = pc[v]
    BY <1>0, <1>6 DEF StartCrcs, LockMd5, OverheatLock, OverheatUnlock, UnlockMd5, WaitCrcs,
                      Emit, Goto, TypeOK
  <2> QED
    BY <1>0, <2>1, <2>2, <2>3, StageFrame
<1>7. ASSUME NEW w \in Workers, DoneWorker(w) PROVE StageInv'
  <2> DEFINE k == w[1]
  <2>1. pc[w] = "emitted" /\ \A v \in Workers : pc'[v] = IF v = w THEN "done" ELSE pc[v]
    BY <1>0, <1>7, GotoPc DEF DoneWorker
  <2>2. k \in HashStages /\ w \in Active(k) /\ Active(k)' = Active(k) \ {w}
    BY <2>1, WorkerShape DEF Active
  <2>3. \A j \in HashStages \ {k} : Active(j)' = Active(j)
    BY <2>1 DEF Active
  <2>4. Cardinality(Active(k)') = Cardinality(Active(k)) - 1
    BY <2>2, ActiveFinite, FS_RemoveElement
  <2>5. wg' = [wg EXCEPT ![k] = @ - 1] /\ UNCHANGED <<at, closed>>
    BY <1>7 DEF DoneWorker
  <2>6. \A j \in HashStages : wg'[j] = Cardinality(Active(j)')
    BY <1>0, <2>2, <2>3, <2>4, <2>5 DEF StageInv
  <2>7. \A j \in HashStages : at'[j] = "returned" => Active(j)' = {}
    BY <1>0, <2>2, <2>3, <2>5 DEF StageInv
  <2> QED
    BY <1>0, <2>5, <2>6, <2>7 DEF StageInv
<1>8. ASSUME NEW w \in Workers, NEW x \in Places(w[1]), MyCrc32(w, x) PROVE StageInv'
  BY <1>0, <1>8, StageFrame DEF MyCrc32, SendCrc, DoneCrc, stageVars
<1>9. CASE Collect
  BY <1>0, <1>9, StageFrame DEF Collect, workerVars
<1>10. CASE SendCombined
  BY <1>0, <1>a, <1>10, StageMove DEF SendCombined, Return, workerVars, StageInv
<1>11. CASE SinkStep
  BY <1>0, <1>a, <1>11, StageMove DEF SinkStep, SinkReceive, SinkReturn, Return, workerVars,
                                      StageInv
<1> QED
  BY <1>a, <1>1, <1>2, <1>3, <1>4, <1>5, <1>6, <1>7, <1>8, <1>9, <1>10, <1>11
     DEF Next, SourceStep, Stage, Worker, CombineStep
-----------------------------------------------------------------------------
(***************************************************************************)
(* The crc32 goroutines of a worker.                                       *)
(***************************************************************************)

\* A step that leaves the crc32 goroutines of a worker alone keeps CrcOf when
\* the worker stays on its side of the go statements and of wg2.Wait().
LEMMA CrcFrame ==
  ASSUME NEW w \in Workers, CrcOf(w),
         crc'[w] = crc[w], wg2'[w] = wg2[w], mych'[w] = mych[w],
         pc'[w] \in {"none", "start"} => pc[w] \in {"none", "start"},
         pc'[w] \in {"lock", "md5", "hashing", "unlock"} =>
           pc[w] \in {"lock", "md5", "hashing", "unlock"},
         pc'[w] \notin {"none", "start"} => pc[w] \notin {"none", "start"},
         MychClosed(w)' => MychClosed(w)
  PROVE  CrcOf(w)'
BY DEF CrcOf, Unfinished

\* A running or sent crc32 goroutine belongs to a worker that has passed its
\* go statements and not yet wg2.Wait().
LEMMA CrcOfOpen ==
  ASSUME NEW w \in Workers, CrcOf(w), NEW x \in Places(w[1]), crc[w][x] \in {"running", "sent"}
  PROVE  pc[w] \notin {"none", "start"} /\ ~MychClosed(w)
BY DEF CrcOf, Unfinished

\* Every step keeps wg2 in step with the crc32 goroutines.
LEMMA CrcStep == IInv /\ [Next]_vars => CrcInv'
<1> SUFFICES ASSUME IInv, [Next]_vars PROVE CrcInv'
  OBVIOUS
<1>0. /\ TypeOK /\ DomainInv /\ pc \in [Workers -> WorkerStates]
      /\ wg2 \in [Workers -> Nat]
  BY DEF IInv, TypeOK
<1>a. \A w \in Workers : CrcOf(w)
  BY DEF IInv, CrcInv
<1>b. SUFFICES \A w \in Workers : CrcOf(w)'
  BY DEF CrcInv
<1>1. CASE SourceStep \/ CombineStep \/ SinkStep \/ UNCHANGED vars
  <2>1. UNCHANGED <<pc, crc, wg2, mych>>
    BY <1>1 DEF SourceStep, SourceSend, SourceReturn, CombineStep, EndRange, Collect,
                SendCombined, SinkStep, SinkReceive, SinkReturn, workerVars, vars
  <2> QED
    BY <1>a, <2>1, CrcFrame DEF MychClosed
<1>2. ASSUME NEW k \in HashStages, StartWorker(k) PROVE \A w \in Workers : CrcOf(w)'
  <2>1. PICK i \in Items :
          /\ pc[<<k, i>>] = "none"
          /\ \A v \in Workers : pc'[v] = IF v = <<k, i>> THEN "start" ELSE pc[v]
    BY <1>2, TakeMessage
  <2>2. UNCHANGED <<crc, wg2, mych>>
    BY <1>2 DEF StartWorker
  <2> QED
    BY <1>a, <2>1, <2>2, CrcFrame DEF MychClosed
<1>3. ASSUME NEW k \in HashStages, EndRange(k) \/ WaitWorkers(k)
      PROVE \A w \in Workers : CrcOf(w)'
  <2>1. UNCHANGED <<pc, crc, wg2, mych>>
    BY <1>3 DEF EndRange, WaitWorkers, workerVars
  <2> QED
    BY <1>a, <2>1, CrcFrame DEF MychClosed
<1>4. ASSUME NEW w \in Workers, StartCrcs(w) PROVE \A v \in Workers : CrcOf(v)'
  <2>1. \A v \in Workers :
          pc'[v] = IF v = w THEN IF w[1] = Single THEN "lock" ELSE "wait" ELSE pc[v]
    BY <1>0, <1>4 DEF StartCrcs, Goto
  <2>2. /\ \A v \in Workers \ {w} : crc'[v] = crc[v] /\ wg2'[v] = wg2[v]
        /\ crc'[w] = [x \in Places(w[1]) |-> IF w[1] = Single /\ x = 1 THEN "none" ELSE "running"]
        /\ wg2'[w] = Cardinality(Places(w[1]))
        /\ mych' = mych
    BY <1>0, <1>4 DEF StartCrcs, DomainInv
  <2>3. \A v \in Workers \ {w} : CrcOf(v)'
    BY <1>a, <2>1, <2>2, CrcFrame DEF MychClosed
  <2>4. Unfinished(w)' = Places(w[1])
    BY <2>2 DEF Unfinished
  <2>5. w[1] = Single => crc'[w][1] = "none"
    BY <2>2 DEF Places
  <2>6. CrcOf(w)'
    BY <2>1, <2>2, <2>4, <2>5 DEF CrcOf, MychClosed
  <2> QED
    BY <2>3, <2>6
<1>5. ASSUME NEW w \in Workers,
             LockMd5(w) \/ OverheatLock(w) \/ OverheatUnlock(w) \/ Emit(w) \/ DoneWorker(w)
      PROVE \A v \in Workers : CrcOf(v)'
  <2>1. UNCHANGED <<crc, wg2, mych>>
    BY <1>5 DEF LockMd5, OverheatLock, OverheatUnlock, Emit, DoneWorker
  <2>2. \A v \in Workers \ {w} : pc'[v] = pc[v]
    BY <1>0, <1>5 DEF LockMd5, OverheatLock, OverheatUnlock, Emit, DoneWorker, Goto
  <2>3. \/ /\ pc[w] \in {"lock", "md5", "hashing"}
           /\ pc'[w] \in {"md5", "hashing", "unlock"}
        \/ pc[w] \in {"emit", "emitted"} /\ pc'[w] \in {"emitted", "done"}
    BY <1>0, <1>5 DEF LockMd5, OverheatLock, OverheatUnlock, Emit, DoneWorker, Goto
  <2> QED
    BY <1>a, <2>1, <2>2, <2>3, CrcFrame DEF MychClosed
<1>6. ASSUME NEW w \in Workers, UnlockMd5(w) PROVE \A v \in Workers : CrcOf(v)'
  <2>1. pc[w] = "unlock" /\ \A v \in Workers : pc'[v] = IF v = w THEN "wait" ELSE pc[v]
    BY <1>0, <1>6, GotoPc DEF UnlockMd5
  <2>2. w[1] = Single /\ 1 \in Places(w[1]) /\ crc[w][1] = "none"
    BY <1>a, <2>1 DEF IInv, Md5Inv, CrcOf, Places
  <2>3. crc[w] \in [Places(w[1]) -> CrcStates]
    BY <1>0 DEF TypeOK
  <2>4. /\ \A v \in Workers \ {w} : crc'[v] = crc[v]
        /\ crc'[w] = [crc[w] EXCEPT ![1] = "running"]
        /\ UNCHANGED <<wg2, mych>>
    BY <1>0, <1>6 DEF UnlockMd5, DomainInv
  <2>5. Unfinished(w)' = Unfinished(w)
    BY <2>2, <2>3, <2>4 DEF Unfinished
  <2>6. CrcOf(w)'
    BY <1>a, <2>1, <2>4, <2>5 DEF CrcOf, MychClosed
  <2>7. \A v \in Workers \ {w} : CrcOf(v)'
    BY <1>a, <2>1, <2>4, CrcFrame DEF MychClosed
  <2> QED
    BY <2>6, <2>7
<1>7. ASSUME NEW w \in Workers, WaitCrcs(w) PROVE \A v \in Workers : CrcOf(v)'
  <2>1. pc[w] = "wait" /\ \A v \in Workers : pc'[v] = IF v = w THEN "emit" ELSE pc[v]
    BY <1>0, <1>7, GotoPc DEF WaitCrcs
  <2>2. wg2[w] = 0 /\ UNCHANGED <<crc, wg2, mych>>
    BY <1>7 DEF WaitCrcs, CrcsDone
  <2>3. Cardinality(Unfinished(w)) = 0
    BY <1>a, <2>1, <2>2 DEF CrcOf
  <2>4. Unfinished(w) = {}
    <3>1. IsFiniteSet(Unfinished(w))
      BY FiniteWorkers, FS_Subset DEF Unfinished
    <3> QED
      BY <2>3, <3>1, FS_EmptySet
  <2>5. Unfinished(w)' = Unfinished(w)
    BY <2>2 DEF Unfinished
  <2>6. CrcOf(w)'
    BY <2>1, <2>2, <2>3, <2>4, <2>5 DEF CrcOf
  <2>7. \A v \in Workers \ {w} : CrcOf(v)'
    BY <1>a, <2>1, <2>2, CrcFrame DEF MychClosed
  <2> QED
    BY <2>6, <2>7
<1>8. ASSUME NEW w \in Workers, NEW x \in Places(w[1]), SendCrc(w, x)
      PROVE \A v \in Workers : CrcOf(v)'
  <2>1. pc[w] \notin {"none", "start"} /\ ~MychClosed(w)
    BY <1>8, <1>a, CrcOfOpen DEF SendCrc
  <2>2. /\ crc[w][x] = "running" /\ crc[w] \in [Places(w[1]) -> CrcStates]
        /\ \A v \in Workers \ {w} : crc'[v] = crc[v] /\ mych'[v] = mych[v]
        /\ crc'[w] = [crc[w] EXCEPT ![x] = "sent"]
        /\ UNCHANGED <<pc, wg2>>
    BY <1>0, <1>8 DEF SendCrc, DomainInv, TypeOK
  <2>3. Unfinished(w)' = Unfinished(w)
    BY <2>2 DEF Unfinished
  <2>4. crc[w][1] = "none" => crc'[w][1] = "none"
    BY <2>2
  <2>5. CrcOf(w)'
    BY <1>a, <2>1, <2>2, <2>3, <2>4 DEF CrcOf, MychClosed
  <2>6. \A v \in Workers \ {w} : CrcOf(v)'
    BY <1>a, <2>2, CrcFrame DEF MychClosed
  <2> QED
    BY <2>5, <2>6
<1>9. ASSUME NEW w \in Workers, NEW x \in Places(w[1]), DoneCrc(w, x)
      PROVE \A v \in Workers : CrcOf(v)'
  <2>1. pc[w] \notin {"none", "start"} /\ ~MychClosed(w)
    BY <1>9, <1>a, CrcOfOpen DEF DoneCrc
  <2>2. /\ crc[w][x] = "sent" /\ crc[w] \in [Places(w[1]) -> CrcStates]
        /\ \A v \in Workers \ {w} : crc'[v] = crc[v] /\ wg2'[v] = wg2[v]
        /\ crc'[w] = [crc[w] EXCEPT ![x] = "done"]
        /\ wg2'[w] = wg2[w] - 1
        /\ UNCHANGED <<pc, mych>>
    BY <1>0, <1>9 DEF DoneCrc, DomainInv, TypeOK
  <2>3. Unfinished(w)' = Unfinished(w) \ {x} /\ x \in Unfinished(w)
    BY <2>2 DEF Unfinished
  <2>4. Cardinality(Unfinished(w)') = Cardinality(Unfinished(w)) - 1
    <3>1. IsFiniteSet(Unfinished(w))
      BY FiniteWorkers, FS_Subset DEF Unfinished
    <3> QED
      BY <2>3, <3>1, FS_RemoveElement
  <2>5. crc[w][1] = "none" => crc'[w][1] = "none"
    BY <2>2
  <2>6. CrcOf(w)'
    BY <1>a, <2>1, <2>2, <2>4, <2>5 DEF CrcOf, MychClosed
  <2>7. \A v \in Workers \ {w} : CrcOf(v)'
    BY <1>a, <2>2, CrcFrame DEF MychClosed
  <2> QED
    BY <2>6, <2>7
<1> QED
  BY <1>1, <1>2, <1>3, <1>4, <1>5, <1>6, <1>7, <1>8, <1>9
     DEF Next, Stage, Worker, MyCrc32
-----------------------------------------------------------------------------
(***************************************************************************)
(* Channels, arguments and results.                                        *)
(***************************************************************************)

\* A step that leaves channels, source, sink and workers' order alone keeps
\* ChanInv: no worker starts, none un-sends.
LEMMA ChanFrame ==
  ASSUME ChanInv, UNCHANGED <<chan, sent>>,
         at[Combine] = "returned" => at'[Combine] = "returned" /\ UNCHANGED unsortedResults,
         \A v \in Workers : /\ pc'[v] = "none" <=> pc[v] = "none"
                            /\ pc[v] \in {"emitted", "done"} => pc'[v] \in {"emitted", "done"}
  PROVE  ChanInv'
<1>1. \A i \in Items : <<Single, i>> \in Workers /\ <<Multi, i>> \in Workers
  BY WorkerShape DEF HashStages
<1>2. ASSUME NEW k \in HashStages, NEW i \in Items
      PROVE  /\ pc'[<<k, i>>] = "none" <=> pc[<<k, i>>] = "none"
             /\ pc[<<k, i>>] \in {"emitted", "done"} => pc'[<<k, i>>] \in {"emitted", "done"}
  <2> DEFINE v == <<k, i>>
  <2>1. v \in Workers
    BY WorkerShape
  <2> QED
    BY <2>1
<1>3. Single \in HashStages /\ Multi \in HashStages
  BY DEF HashStages
<1>4. \A k \in {Source, Single, Multi}, i \in Items : Left(k, i) => Left(k, i)'
  BY <1>2, <1>3, StageNumbers DEF Left
<1>5. \A k \in {Source, Single, Multi}, i \in Items : Untaken(k, i) => Untaken(k, i)'
  BY <1>2, <1>3 DEF Untaken
<1>6. \A k \in {Source, Single, Multi} :
        \/ chan'[k] = <<>>
        \/ \E i \in Items : chan'[k] = <<Message(k, i)>> /\ Left(k, i)' /\ Untaken(k, i)'
  BY <1>4, <1>5 DEF ChanInv
<1>7. /\ \A i \in Items : pc'[<<Single, i>>] # "none" => i <= sent'
      /\ \A i \in Items : pc'[<<Multi, i>>] # "none" => pc'[<<Single, i>>] \in {"emitted", "done"}
  BY <1>2, <1>3 DEF ChanInv
<1> QED
  BY <1>6, <1>7 DEF ChanInv, Message, ValueOf, Combined

\* What a worker sends when its crc32 goroutines are done is the hash of the
\* input it works for.
LEMMA ResultRight ==
  ASSUME IInv, NEW w \in Workers, pc[w] = "emit"
  PROVE  ResultOf(w) = ValueOf(w[1], w[2])
<1>1. /\ Unfinished(w) = {} /\ arg[w] = ValueOf(w[1] - 1, w[2])
      /\ crc[w] \in [Places(w[1]) -> CrcStates]
  BY DEF IInv, CrcInv, CrcOf, MychClosed, ArgInv, TypeOK
<1>2. ASSUME NEW x \in Places(w[1])
      PROVE /\ \E n \in DOMAIN mych[w] : mych[w][n].index = x
            /\ \A n \in DOMAIN mych[w] :
                 mych[w][n].index = x => mych[w][n].crc32Str = Crc32(CrcData(w, x))
  <2>1. crc[w][x] = "done"
    BY <1>1 DEF Unfinished
  <2>2. \E n \in DOMAIN mych[w] : mych[w][n].index = x
    BY <2>1 DEF IInv, MychInv, MychOf
  <2>3. mych[w] \in Seq(Crc32Results(w))
    BY DEF IInv, MychInv, MychOf
  <2>4. \A n \in DOMAIN mych[w] : mych[w][n] \in Crc32Results(w)
    BY <2>3
  <2>5. \A r \in Crc32Results(w) : r.index = x => r.crc32Str = Crc32(CrcData(w, x))
    BY DEF Crc32Results
  <2> QED
    BY <2>2, <2>4, <2>5
<1>3. ResultOf(w) = [x \in Places(w[1]) |-> Crc32(CrcData(w, x))]
  <2>1. ASSUME NEW x \in Places(w[1])
        PROVE  mych[w][CHOOSE n \in DOMAIN mych[w] : mych[w][n].index = x].crc32Str
                 = Crc32(CrcData(w, x))
    BY <1>2
  <2> QED
    BY <1>2, <2>1 DEF ResultOf
<1>4. CASE w[1] = Single
  <2>1. \A x \in 0 .. 1 : Crc32(CrcData(w, x)) =
          IF x = 0 THEN Crc32(Data(Input[w[2]])) ELSE Crc32(Md5(Data(Input[w[2]])))
    BY <1>1, <1>4, StageNumbers DEF CrcData, ValueOf
  <2> QED
    BY <1>3, <1>4, <2>1, StageNumbers DEF ValueOf, SingleHashOf, Places
<1>5. CASE w[1] = Multi
  <2>1. arg[w] = SingleHashOf(Data(Input[w[2]]))
    BY <1>1, <1>5, StageNumbers DEF ValueOf
  <2>2. \A x \in 0 .. Th - 1 : CrcData(w, x) = Prefixed(x, SingleHashOf(Data(Input[w[2]])))
    BY <1>5, <2>1 DEF CrcData
  <2> QED
    BY <1>3, <1>5, <2>2, StageNumbers DEF ValueOf, HashOf, MultiHashOf, Places
<1> QED
  BY <1>4, <1>5, WorkerShape DEF HashStages

\* The two ways a message of an input gets into a channel.
LEMMA ChanSend ==
  ASSUME IInv, NEW k \in {Source, Single, Multi}, NEW i \in Items,
         chan'[k] = <<Message(k, i)>>, \A j \in Stages \ {k} : chan'[j] = chan[j],
         Left(k, i)', Untaken(k, i)', sent <= sent', sent' \in Nat,
         UNCHANGED <<at, unsortedResults>>,
         \A j \in HashStages, n \in Items :
           /\ pc'[<<j, n>>] = "none" <=> pc[<<j, n>>] = "none"
           /\ pc[<<j, n>>] \in {"emitted", "done"} => pc'[<<j, n>>] \in {"emitted", "done"}
  PROVE  ChanInv'
<1>0. ChanInv /\ sent \in Nat /\ Items \subseteq Nat
  BY DEF IInv, TypeOK, Items
<1>1. Single \in HashStages /\ Multi \in HashStages
  BY DEF HashStages
<1>2. {Source, Single, Multi} \subseteq Stages /\ Combine \in Stages /\ Sink \in Stages
      /\ Combine \notin {Source, Single, Multi} /\ Sink \notin {Source, Single, Multi}
  BY StageNumbers
<1>a. ASSUME NEW n \in Items, n <= sent PROVE n <= sent'
  <2>1. n \in Int /\ sent \in Int /\ sent' \in Int
    BY <1>0
  <2> QED
    BY <1>a, <2>1
<1>3. \A j \in {Source, Single, Multi}, n \in Items : Left(j, n) => Left(j, n)'
  BY <1>1, <1>a, StageNumbers DEF Left
<1>4. \A j \in {Source, Single, Multi}, n \in Items : Untaken(j, n) => Untaken(j, n)'
  BY <1>1 DEF Untaken
<1>5. ASSUME NEW j \in {Source, Single, Multi}
      PROVE  \/ chan'[j] = <<>>
             \/ \E n \in Items : chan'[j] = <<Message(j, n)>> /\ Left(j, n)' /\ Untaken(j, n)'
  <2>1. CASE j = k
    BY <2>1
  <2>2. CASE j # k
    <3>1. chan'[j] = chan[j]
      BY <1>2, <2>2
    <3>2. CASE chan[j] = <<>>
      BY <3>1, <3>2
    <3>3. ASSUME NEW n \in Items, chan[j] = <<Message(j, n)>>, Left(j, n), Untaken(j, n)
          PROVE  chan'[j] = <<Message(j, n)>> /\ Left(j, n)' /\ Untaken(j, n)'
      BY <1>3, <1>4, <3>1, <3>3
    <3> QED
      BY <1>0, <3>2, <3>3 DEF ChanInv
  <2> QED
    BY <2>1, <2>2
<1>6. \A n \in Items : pc'[<<Single, n>>] # "none" => n <= sent'
  BY <1>0, <1>1, <1>a DEF ChanInv
<1>7. \A n \in Items : pc'[<<Multi, n>>] # "none" => pc'[<<Single, n>>] \in {"emitted", "done"}
  BY <1>0, <1>1 DEF ChanInv
<1>8. /\ \/ chan'[Combine] = <<>>
         \/ /\ at'[Combine] = "returned"
            /\ chan'[Combine] = <<[item |-> 1, val |-> Combined']>>
      /\ chan'[Sink] = <<>>
  BY <1>0, <1>2 DEF ChanInv, Combined
<1> QED
  BY <1>5, <1>6, <1>7, <1>8 DEF ChanInv, Message, ValueOf

\* A message taken from a channel leaves the rest of ChanInv alone.
LEMMA ChanTake ==
  ASSUME ChanInv, NEW k \in Stages, chan'[k] = <<>>,
         \A j \in Stages \ {k} : chan'[j] = chan[j],
         UNCHANGED <<sent, pc>>,
         at[Combine] = "returned" => at'[Combine] = "returned" /\ UNCHANGED unsortedResults
  PROVE  ChanInv'
<1>1. \A j \in {Source, Single, Multi}, i \in Items :
        (Left(j, i) <=> Left(j, i)') /\ (Untaken(j, i) <=> Untaken(j, i)')
  BY DEF Left, Untaken
<1>2. \A j \in Stages : chan'[j] = <<>> \/ chan'[j] = chan[j]
  OBVIOUS
<1>3. {Source, Single, Multi} \subseteq Stages /\ Combine \in Stages /\ Sink \in Stages
  BY StageNumbers
<1>4. \A j \in {Source, Single, Multi} :
        \/ chan'[j] = <<>>
        \/ \E i \in Items : chan'[j] = <<Message(j, i)>> /\ Left(j, i)' /\ Untaken(j, i)'
  BY <1>1, <1>2, <1>3 DEF ChanInv
<1>5. /\ \/ chan'[Combine] = <<>>
         \/ /\ at'[Combine] = "returned"
            /\ chan'[Combine] = <<[item |-> 1, val |-> Combined']>>
      /\ chan'[Sink] = <<>>
  BY <1>2, <1>3 DEF ChanInv, Combined
<1> QED
  BY <1>4, <1>5 DEF ChanInv, Message, ValueOf

\* Every step keeps right messages in the channels.
LEMMA ChanStep == IInv /\ [Next]_vars => ChanInv'
<1> SUFFICES ASSUME IInv, [Next]_vars PROVE ChanInv'
  OBVIOUS
<1>0. TypeOK /\ ChanInv /\ DOMAIN chan = Stages
  BY DEF IInv, DomainInv
<1>a. Single \in HashStages /\ Multi \in HashStages
  BY DEF HashStages
<1>1. CASE SourceSend
  <2>1. PICK i \in Items : i = sent + 1
    BY <1>0, <1>1 DEF SourceSend, TypeOK, Items
  <2>2. sent \in Nat /\ sent' = i /\ ~(i <= sent) /\ sent <= sent' /\ sent' \in Nat /\ i <= sent'
    BY <1>0, <1>1, <2>1 DEF SourceSend, TypeOK
  <2>3. SendTo(Source, Message(Source, i)) /\ ~closed[Source]
    BY <1>1, <2>1, OpenChannel DEF SourceSend, Message, ValueOf
  <2>4. UNCHANGED <<at, pc, unsortedResults>>
    BY <1>1 DEF SourceSend, workerVars
  <2>5. chan'[Source] = <<Message(Source, i)>> /\ \A j \in Stages \ {Source} : chan'[j] = chan[j]
    BY <2>3, SendOpen
  <2>6. pc[<<Single, i>>] = "none"
    BY <1>0, <2>2 DEF ChanInv
  <2>7. Left(Source, i)' /\ Untaken(Source, i)'
    BY <2>2, <2>4, <2>6, StageNumbers DEF Left, Untaken
  <2> QED
    BY <2>2, <2>4, <2>5, <2>7, ChanSend
<1>2. ASSUME NEW w \in Workers, Emit(w) PROVE ChanInv'
  <2> DEFINE k == w[1]
             i == w[2]
  <2>1. k \in {Source, Single, Multi} /\ k \in HashStages /\ i \in Items /\ w = <<k, i>>
    BY WorkerShape DEF HashStages
  <2>2. pc[w] = "emit" /\ \A v \in Workers : pc'[v] = IF v = w THEN "emitted" ELSE pc[v]
    BY <1>0, <1>2, GotoPc DEF Emit
  <2>3. SendTo(k, Message(k, i)) /\ ~closed[k] /\ UNCHANGED <<at, sent, unsortedResults>>
    BY <1>2, <2>2, ResultRight, OpenChannel DEF Emit, Message
  <2>4. chan'[k] = <<Message(k, i)>> /\ \A j \in Stages \ {k} : chan'[j] = chan[j]
    BY <2>1, <2>3, SendOpen
  <2>5. \A j \in HashStages, n \in Items :
          /\ pc'[<<j, n>>] = "none" <=> pc[<<j, n>>] = "none"
          /\ pc[<<j, n>>] \in {"emitted", "done"} => pc'[<<j, n>>] \in {"emitted", "done"}
    BY <2>2, WorkerShape
  <2>6. Left(k, i)'
    BY <2>1, <2>2, StageNumbers DEF Left
  <2>7. Untaken(k, i)'
    <3>1. k = Single => pc[<<Multi, i>>] = "none"
      BY <1>0, <2>1, <2>2 DEF ChanInv
    <3> QED
      BY <1>a, <2>1, <2>5, <3>1, StageNumbers DEF Untaken
  <2>8. sent \in Nat /\ sent' = sent
    BY <1>0, <2>3 DEF TypeOK
  <2> HIDE DEF k, i
  <2> QED
    BY <2>1, <2>3, <2>4, <2>5, <2>6, <2>7, <2>8, ChanSend
<1>3. ASSUME NEW k \in HashStages, StartWorker(k) PROVE ChanInv'
  <2>1. PICK i \in Items :
          /\ chan[k - 1] = <<Message(k - 1, i)>> /\ Left(k - 1, i)
          /\ pc[<<k, i>>] = "none"
          /\ chan'[k - 1] = <<>>
          /\ \A j \in Stages \ {k - 1} : chan'[j] = chan[j]
          /\ \A v \in Workers : pc'[v] = IF v = <<k, i>> THEN "start" ELSE pc[v]
    BY <1>3, TakeMessage
  <2>2. UNCHANGED <<at, sent, unsortedResults>>
    BY <1>3 DEF StartWorker
  <2>3. \A j \in HashStages, n \in Items :
          pc'[<<j, n>>] = IF j = k /\ n = i THEN "start" ELSE pc[<<j, n>>]
    BY <2>1, WorkerShape
  <2>4. \A j \in {Source, Single, Multi}, n \in Items : Left(j, n) => Left(j, n)'
    BY <1>a, <2>1, <2>2, <2>3, StageNumbers DEF Left
  <2>5. \A j \in {Source, Single, Multi} \ {k - 1}, n \in Items : Untaken(j, n) => Untaken(j, n)'
    BY <1>a, <2>3, StageNumbers DEF Untaken
  <2>6. \A j \in {Source, Single, Multi} :
          \/ chan'[j] = <<>>
          \/ \E n \in Items : chan'[j] = <<Message(j, n)>> /\ Left(j, n)' /\ Untaken(j, n)'
    <3> TAKE j \in {Source, Single, Multi}
    <3>1. CASE j = k - 1
      BY <2>1, <3>1
    <3>2. CASE j # k - 1
      <4>1. chan'[j] = chan[j]
        BY <2>1, <3>2, StageNumbers
      <4> QED
        BY <1>0, <2>4, <2>5, <3>2, <4>1 DEF ChanInv
    <3> QED
      BY <3>1, <3>2
  <2>7. \A n \in Items : pc'[<<Single, n>>] # "none" => n <= sent'
    <3>1. k = Single => i <= sent
      BY <2>1, StageNumbers DEF Left
    <3> QED
      BY <1>0, <1>a, <2>2, <2>3, <3>1 DEF ChanInv
  <2>8. \A n \in Items : pc'[<<Multi, n>>] # "none" => pc'[<<Single, n>>] \in {"emitted", "done"}
    <3>1. k = Multi => pc[<<Single, i>>] \in {"emitted", "done"}
      BY <2>1, StageNumbers DEF Left
    <3>2. Single # Multi
      BY StageNumbers
    <3>3. ASSUME NEW n \in Items, pc'[<<Multi, n>>] # "none"
          PROVE  pc[<<Single, n>>] \in {"emitted", "done"}
      BY <1>0, <1>a, <2>3, <3>1, <3>3 DEF ChanInv
    <3>4. ASSUME NEW n \in Items, pc[<<Single, n>>] \in {"emitted", "done"}
          PROVE  pc'[<<Single, n>>] \in {"emitted", "done"}
      BY <1>a, <2>1, <2>3, <3>4
    <3> QED
      BY <3>3, <3>4
  <2>9. chan'[Combine] = chan[Combine] /\ chan'[Sink] = chan[Sink]
    BY <2>1, StageNumbers
  <2> QED
    BY <1>0, <2>2, <2>6, <2>7, <2>8, <2>9 DEF ChanInv, Message, ValueOf, Combined
<1>4. CASE Collect
  <2>1. /\ Combine - 1 = Multi /\ Multi \in Stages
    BY StageNumbers
  <2>2. /\ chan[Multi] # <<>> /\ chan' = [chan EXCEPT ![Multi] = Tail(@)]
        /\ UNCHANGED <<sent, pc, at>> /\ at[Combine] = "range"
    BY <1>4, <2>1 DEF Collect, CanReceive, Receive, workerVars
  <2>3. Tail(chan[Multi]) = <<>>
    <3>1. PICK i \in Items : chan[Multi] = <<Message(Multi, i)>>
      BY <1>0, <2>2 DEF ChanInv
    <3> QED
      BY <3>1
  <2> QED
    BY <1>0, <2>1, <2>2, <2>3, ChanTake
<1>5. CASE SinkReceive
  <2>1. /\ Sink - 1 = Combine /\ Combine \in Stages /\ Sink # Combine
    BY StageNumbers
  <2>2. /\ chan[Combine] # <<>> /\ chan' = [chan EXCEPT ![Combine] = Tail(@)]
        /\ UNCHANGED <<sent, pc, unsortedResults>> /\ at'[Combine] = at[Combine]
    BY <1>0, <1>5, <2>1 DEF SinkReceive, CanReceive, Receive, Return, workerVars, TypeOK
  <2>3. Tail(chan[Combine]) = <<>>
    <3>1. chan[Combine] = <<[item |-> 1, val |-> Combined]>>
      BY <1>0, <2>2 DEF ChanInv
    <3> QED
      BY <3>1
  <2> QED
    BY <1>0, <2>1, <2>2, <2>3, ChanTake
<1>6. CASE SendCombined
  <2>1. ~closed[Combine] /\ at[Combine] = "emit" /\ chan[Combine] = <<>>
    BY <1>0, <1>6, OpenChannel DEF SendCombined, ChanInv
  <2>2. /\ chan' = [chan EXCEPT ![Combine] = Append(@, [item |-> 1, val |-> Combined])]
        /\ at' = [at EXCEPT ![Combine] = "returned"]
        /\ UNCHANGED <<sent, pc, unsortedResults>>
    BY <1>6, <2>1 DEF SendCombined, SendTo, Return, workerVars
  <2>3. /\ Combine \in Stages /\ Sink \in Stages /\ Sink # Combine
        /\ {Source, Single, Multi} \subseteq Stages \ {Combine}
    BY StageNumbers
  <2>4. /\ chan'[Combine] = <<[item |-> 1, val |-> Combined]>> /\ at'[Combine] = "returned"
        /\ \A j \in Stages \ {Combine} : chan'[j] = chan[j]
    BY <1>0, <2>1, <2>2, <2>3 DEF TypeOK
  <2>5. \A j \in {Source, Single, Multi}, i \in Items :
          (Left(j, i) <=> Left(j, i)') /\ (Untaken(j, i) <=> Untaken(j, i)')
    BY <2>2 DEF Left, Untaken
  <2>6. \A j \in {Source, Single, Multi} :
          \/ chan'[j] = <<>>
          \/ \E i \in Items : chan'[j] = <<Message(j, i)>> /\ Left(j, i)' /\ Untaken(j, i)'
    BY <1>0, <2>3, <2>4, <2>5 DEF ChanInv
  <2> QED
    BY <1>0, <2>2, <2>3, <2>4, <2>6 DEF ChanInv, Message, ValueOf, Combined
<1>7. CASE SourceReturn \/ SinkReturn \/ UNCHANGED vars
  <2>1. UNCHANGED <<chan, sent, pc, unsortedResults>>
    BY <1>7 DEF SourceReturn, SinkReturn, workerVars, vars
  <2>2. at'[Combine] = at[Combine]
    BY <1>0, <1>7, StageNumbers DEF SourceReturn, SinkReturn, Return, vars, TypeOK
  <2> QED
    BY <1>0, <2>1, <2>2, ChanFrame
<1>8. ASSUME NEW k \in Stages, EndRange(k) PROVE ChanInv'
  <2>1. UNCHANGED <<chan, sent, pc, unsortedResults>>
    BY <1>8 DEF EndRange, workerVars
  <2>2. at[Combine] = "returned" => at'[Combine] = "returned"
    BY <1>0, <1>8 DEF EndRange, TypeOK
  <2> QED
    BY <1>0, <2>1, <2>2, ChanFrame
<1>9. ASSUME NEW k \in HashStages, WaitWorkers(k) PROVE ChanInv'
  <2>1. UNCHANGED <<chan, sent, pc, unsortedResults>>
    BY <1>9 DEF WaitWorkers, workerVars
  <2>2. at'[Combine] = at[Combine]
    BY <1>0, <1>9, StageNumbers DEF WaitWorkers, Return, TypeOK
  <2> QED
    BY <1>0, <2>1, <2>2, ChanFrame
<1>10. ASSUME NEW w \in Workers,
              \/ StartCrcs(w) \/ LockMd5(w) \/ OverheatLock(w) \/ OverheatUnlock(w)
              \/ UnlockMd5(w) \/ WaitCrcs(w)
       PROVE ChanInv'
  <2>1. UNCHANGED <<chan, sent, at, unsortedResults>>
    BY <1>10 DEF StartCrcs, LockMd5, OverheatLock, OverheatUnlock, UnlockMd5, WaitCrcs,
                 stageVars
  <2>2. pc[w] \notin {"none", "emitted", "done"} /\ pc'[w] # "none"
    BY <1>0, <1>10 DEF StartCrcs, LockMd5, OverheatLock, OverheatUnlock, UnlockMd5, WaitCrcs,
                       Goto, TypeOK
  <2>3. \A v \in Workers \ {w} : pc'[v] = pc[v]
    BY <1>0, <1>10 DEF StartCrcs, LockMd5, OverheatLock, OverheatUnlock, UnlockMd5, WaitCrcs,
                       Goto, TypeOK
  <2> QED
    BY <1>0, <2>1, <2>2, <2>3, ChanFrame
<1>11. ASSUME NEW w \in Workers, DoneWorker(w) PROVE ChanInv'
  <2>1. UNCHANGED <<chan, sent, at, unsortedResults>>
    BY <1>11 DEF DoneWorker
  <2>2. pc[w] = "emitted" /\ \A v \in Workers : pc'[v] = IF v = w THEN "done" ELSE pc[v]
    BY <1>0, <1>11, GotoPc DEF DoneWorker
  <2> QED
    BY <1>0, <2>1, <2>2, ChanFrame
<1>12. ASSUME NEW w \in Workers, NEW x \in Places(w[1]), MyCrc32(w, x) PROVE ChanInv'
  <2>1. UNCHANGED <<chan, sent, at, pc, unsortedResults>>
    BY <1>12 DEF MyCrc32, SendCrc, DoneCrc, stageVars
  <2> QED
    BY <1>0, <2>1, ChanFrame
<1> QED
  BY StageNumbers, <1>1, <1>2, <1>3, <1>4, <1>5, <1>6, <1>7, <1>8, <1>9, <1>10, <1>11, <1>12
     DEF Next, SourceStep, Stage, Worker, CombineStep, SinkStep

\* A step that leaves the argument and the results of a worker alone, and in
\* which no crc32 goroutine of it has newly sent, keeps MychOf.
LEMMA MychFrame ==
  ASSUME NEW w \in Workers, MychOf(w), arg'[w] = arg[w], mych'[w] = mych[w],
         \A x \in Places(w[1]) : crc'[w][x] \in {"sent", "done"} => crc[w][x] \in {"sent", "done"}
  PROVE  MychOf(w)'
<1>1. Crc32Results(w)' = Crc32Results(w)
  BY DEF Crc32Results, CrcData
<1> QED
  BY <1>1 DEF MychOf

\* Every step keeps the arguments and the results of the workers right.
LEMMA ResultStep == IInv /\ [Next]_vars => ArgInv' /\ MychInv'
<1> SUFFICES ASSUME IInv, [Next]_vars PROVE ArgInv' /\ MychInv'
  OBVIOUS
<1>0. TypeOK /\ DomainInv /\ ArgInv /\ \A w \in Workers : MychOf(w)
  BY DEF IInv, MychInv
<1>a. SUFFICES ArgInv' /\ \A w \in Workers : MychOf(w)'
  BY DEF MychInv
<1>1. CASE SourceStep \/ CombineStep \/ SinkStep \/ UNCHANGED vars
  <2>1. UNCHANGED <<pc, arg, crc, mych>>
    BY <1>1 DEF SourceStep, SourceSend, SourceReturn, CombineStep, EndRange, Collect,
                SendCombined, SinkStep, SinkReceive, SinkReturn, workerVars, vars
  <2> QED
    BY <1>0, <2>1, MychFrame DEF ArgInv, ValueOf
<1>2. ASSUME NEW k \in HashStages, StartWorker(k)
      PROVE ArgInv' /\ \A w \in Workers : MychOf(w)'
  <2>1. PICK i \in Items :
          /\ pc[<<k, i>>] = "none"
          /\ \A v \in Workers : pc'[v] = IF v = <<k, i>> THEN "start" ELSE pc[v]
          /\ \A v \in Workers : arg'[v] = IF v = <<k, i>> THEN ValueOf(k - 1, i) ELSE arg[v]
    BY <1>2, TakeMessage
  <2>2. UNCHANGED <<crc, mych>>
    BY <1>2 DEF StartWorker
  <2>3. ArgInv'
    <3>1. ASSUME NEW v \in Workers, pc'[v] # "none" PROVE arg'[v] = ValueOf(v[1] - 1, v[2])
      <4>1. CASE v = <<k, i>>
        BY <2>1, <4>1
      <4>2. CASE v # <<k, i>>
        BY <1>0, <2>1, <3>1, <4>2 DEF ArgInv
      <4> QED
        BY <4>1, <4>2
    <3> QED
      BY <3>1 DEF ArgInv, ValueOf
  <2>4. ASSUME NEW v \in Workers PROVE MychOf(v)'
    <3>1. CASE v = <<k, i>>
      <4>1. mych'[v] = <<>> /\ \A x \in Places(v[1]) : crc'[v][x] = "none"
        BY <2>1, <2>2, <3>1 DEF IInv, CrcInv, CrcOf
      <4> QED
        BY <4>1 DEF MychOf
    <3>2. CASE v # <<k, i>>
      BY <1>0, <2>1, <2>2, <3>2, MychFrame
    <3> QED
      BY <3>1, <3>2
  <2> QED
    BY <2>3, <2>4
<1>3. ASSUME NEW k \in HashStages, EndRange(k) \/ WaitWorkers(k)
      PROVE ArgInv' /\ \A w \in Workers : MychOf(w)'
  <2>1. UNCHANGED <<pc, arg, crc, mych>>
    BY <1>3 DEF EndRange, WaitWorkers, workerVars
  <2> QED
    BY <1>0, <2>1, MychFrame DEF ArgInv, ValueOf
<1>4. ASSUME NEW w \in Workers, Worker(w)
      PROVE ArgInv' /\ \A v \in Workers : MychOf(v)'
  <2>1. UNCHANGED <<arg, mych>>
    BY <1>4 DEF Worker, StartCrcs, LockMd5, OverheatLock, OverheatUnlock, UnlockMd5, WaitCrcs,
                Emit, DoneWorker
  <2>2. \A v \in Workers : pc'[v] # "none" => pc[v] # "none"
    BY <1>0, <1>4 DEF Worker, StartCrcs, LockMd5, OverheatLock, OverheatUnlock, UnlockMd5,
                      WaitCrcs, Emit, DoneWorker, Goto, TypeOK
  <2>3. ArgInv'
    BY <1>0, <2>1, <2>2 DEF ArgInv, ValueOf
  <2>4. ASSUME NEW v \in Workers, NEW x \in Places(v[1]), crc'[v][x] \in {"sent", "done"}
        PROVE  crc[v][x] \in {"sent", "done"}
    <3>1. CASE StartCrcs(w)
      BY <1>0, <2>4, <3>1 DEF StartCrcs, DomainInv
    <3>2. CASE UnlockMd5(w)
      <4>1. crc[w] \in [Places(w[1]) -> CrcStates]
        BY <1>0 DEF TypeOK
      <4> QED
        BY <1>0, <2>4, <3>2, <4>1 DEF UnlockMd5, DomainInv
    <3>3. CASE UNCHANGED crc
      BY <2>4, <3>3
    <3> QED
      BY <1>4, <3>1, <3>2, <3>3
         DEF Worker, LockMd5, OverheatLock, OverheatUnlock, WaitCrcs, Emit, DoneWorker
  <2> QED
    BY <1>0, <2>1, <2>3, <2>4, MychFrame
<1>5. ASSUME NEW w \in Workers, NEW x \in Places(w[1]), SendCrc(w, x)
      PROVE ArgInv' /\ \A v \in Workers : MychOf(v)'
  <2> DEFINE r == [index |-> x, crc32Str |-> Crc32(CrcData(w, x))]
  <2>1. ~MychClosed(w)
    BY <1>5, CrcOfOpen DEF SendCrc, IInv, CrcInv
  <2>2. /\ UNCHANGED <<pc, arg>>
        /\ \A v \in Workers \ {w} : crc'[v] = crc[v] /\ mych'[v] = mych[v]
        /\ mych'[w] = Append(mych[w], r)
        /\ crc'[w] = [crc[w] EXCEPT ![x] = "sent"]
    BY <1>0, <1>5, <2>1 DEF SendCrc, DomainInv
  <2>3. \A v \in Workers \ {w} : MychOf(v)'
    BY <1>0, <2>2, MychFrame
  <2>4. Crc32Results(w)' = Crc32Results(w) /\ r \in Crc32Results(w)
    BY <2>2 DEF Crc32Results, CrcData
  <2>5. mych[w] \in Seq(Crc32Results(w))
    BY <1>0 DEF MychOf
  <2>6. mych'[w] \in Seq(Crc32Results(w)')
    BY <2>2, <2>4, <2>5
  <2>7. ASSUME NEW y \in Places(w[1]), crc'[w][y] \in {"sent", "done"}
        PROVE  \E n \in DOMAIN mych'[w] : mych'[w][n].index = y
    <3>1. CASE y = x
      <4>1. Len(mych[w]) + 1 \in DOMAIN mych'[w] /\ mych'[w][Len(mych[w]) + 1] = r
        BY <2>2, <2>4, <2>5
      <4> QED
        BY <3>1, <4>1
    <3>2. CASE y # x
      <4>1. crc[w][y] \in {"sent", "done"}
        BY <2>2, <2>7, <3>2
      <4>2. PICK n \in DOMAIN mych[w] : mych[w][n].index = y
        BY <1>0, <4>1 DEF MychOf
      <4>3. n \in DOMAIN mych'[w] /\ mych'[w][n] = mych[w][n]
        BY <2>2, <2>4, <2>5
      <4> QED
        BY <4>2, <4>3
    <3> QED
      BY <3>1, <3>2
  <2>8. MychOf(w)'
    BY <2>6, <2>7 DEF MychOf
  <2>9. ArgInv'
    BY <1>0, <2>2 DEF ArgInv, ValueOf
  <2> QED
    BY <2>3, <2>8, <2>9
<1>6. ASSUME NEW w \in Workers, NEW x \in Places(w[1]), DoneCrc(w, x)
      PROVE ArgInv' /\ \A v \in Workers : MychOf(v)'
  <2>1. UNCHANGED <<pc, arg, mych>> /\ crc[w][x] = "sent"
    BY <1>6 DEF DoneCrc
  <2>2. ASSUME NEW v \in Workers, NEW y \in Places(v[1]), crc'[v][y] \in {"sent", "done"}
        PROVE  crc[v][y] \in {"sent", "done"}
    <3>1. crc[w] \in [Places(w[1]) -> CrcStates]
      BY <1>0 DEF TypeOK
    <3> QED
      BY <1>0, <1>6, <2>1, <2>2, <3>1 DEF DoneCrc, DomainInv
  <2>3. ArgInv'
    BY <1>0, <2>1 DEF ArgInv, ValueOf
  <2> QED
    BY <1>0, <2>1, <2>2, <2>3, MychFrame
<1> QED
  BY <1>1, <1>2, <1>3, <1>4, <1>5, <1>6 DEF Next, Stage, MyCrc32
-----------------------------------------------------------------------------
(***************************************************************************)
(* Panics and types, and the theorems.                                     *)
(***************************************************************************)

\* No step sends on a closed channel.
LEMMA NoPanicStep == IInv /\ [Next]_vars => NoPanic'
<1> SUFFICES ASSUME IInv, [Next]_vars PROVE NoPanic'
  OBVIOUS
<1>0. ~panicked
  BY DEF IInv, NoPanic
<1>1. CASE SourceSend
  <2>1. ~closed[Source] /\ panicked' = (panicked \/ closed[Source])
    BY <1>1, OpenChannel DEF SourceSend, SendTo
  <2> QED
    BY <1>0, <2>1 DEF NoPanic
<1>2. CASE SendCombined
  <2>1. ~closed[Combine] /\ panicked' = (panicked \/ closed[Combine])
    BY <1>2, OpenChannel DEF SendCombined, SendTo
  <2> QED
    BY <1>0, <2>1 DEF NoPanic
<1>3. ASSUME NEW w \in Workers, Emit(w) PROVE NoPanic'
  <2>1. ~closed[w[1]] /\ panicked' = (panicked \/ closed[w[1]])
    BY <1>3, OpenChannel DEF Emit, SendTo, Goto
  <2> QED
    BY <1>0, <2>1 DEF NoPanic
<1>4. ASSUME NEW w \in Workers, NEW x \in Places(w[1]), SendCrc(w, x) PROVE NoPanic'
  <2>1. ~MychClosed(w)
    BY <1>4, CrcOfOpen DEF SendCrc, IInv, CrcInv
  <2>2. panicked' = (panicked \/ MychClosed(w))
    BY <1>4 DEF SendCrc
  <2> QED
    BY <1>0, <2>1, <2>2 DEF NoPanic
<1>5. CASE SourceReturn \/ Collect \/ SinkStep \/ UNCHANGED vars
  BY <1>0, <1>5 DEF SourceReturn, Collect, SinkStep, SinkReceive, SinkReturn, vars, NoPanic
<1>6. ASSUME NEW k \in Stages, StartWorker(k) \/ EndRange(k) \/ WaitWorkers(k) PROVE NoPanic'
  BY <1>0, <1>6 DEF StartWorker, EndRange, WaitWorkers, NoPanic
<1>7. ASSUME NEW w \in Workers,
             \/ StartCrcs(w) \/ LockMd5(w) \/ OverheatLock(w) \/ OverheatUnlock(w)
             \/ UnlockMd5(w) \/ WaitCrcs(w) \/ DoneWorker(w)
      PROVE NoPanic'
  BY <1>0, <1>7 DEF StartCrcs, LockMd5, OverheatLock, OverheatUnlock, UnlockMd5, WaitCrcs,
                    DoneWorker, NoPanic
<1>8. ASSUME NEW w \in Workers, NEW x \in Places(w[1]), DoneCrc(w, x) PROVE NoPanic'
  BY <1>0, <1>8 DEF DoneCrc, NoPanic
<1> QED
  BY StageNumbers, <1>1, <1>2, <1>3, <1>4, <1>5, <1>6, <1>7, <1>8
     DEF Next, SourceStep, Stage, Worker, MyCrc32, CombineStep

\* Right messages are within capacity and carry the place of an input.
LEMMA ChanTypes ==
  ASSUME ChanInv'
  PROVE  \A k \in Stages : /\ Len(chan'[k]) <= Capacity
                           /\ \A n \in DOMAIN chan'[k] : chan'[k][n].item \in Items \cup {1}
<1>1. \A m : Len(<<m>>) = 1 /\ DOMAIN <<m>> = {1} /\ <<m>>[1] = m
  OBVIOUS
<1>2. Len(<<>>) = 0 /\ DOMAIN <<>> = {}
  OBVIOUS
<1>3. ASSUME NEW k \in Stages
      PROVE chan'[k] = <<>> \/ \E m : chan'[k] = <<m>> /\ m.item \in Items \cup {1}
  <2>1. CASE k \in {Source, Single, Multi} /\ chan'[k] # <<>>
    <3>1. PICK i \in Items : chan'[k] = <<Message(k, i)>>
      BY <2>1 DEF ChanInv, Message, ValueOf
    <3>2. Message(k, i).item = i
      BY DEF Message
    <3> QED
      BY <3>1, <3>2
  <2>2. CASE k = Combine /\ chan'[k] # <<>>
    <3>1. chan'[k] = <<[item |-> 1, val |-> Combined']>>
      BY <2>2 DEF ChanInv
    <3>2. [item |-> 1, val |-> Combined'].item = 1
      OBVIOUS
    <3> QED
      BY <3>1, <3>2
  <2>3. CASE k = Sink
    BY <2>3 DEF ChanInv
  <2> QED
    BY <2>1, <2>2, <2>3, StageNumbers
<1>4. ASSUME NEW k \in Stages
      PROVE  /\ Len(chan'[k]) <= Capacity
             /\ \A n \in DOMAIN chan'[k] : chan'[k][n].item \in Items \cup {1}
  <2>1. CASE chan'[k] = <<>>
    BY <1>2, <2>1, StageNumbers
  <2>2. ASSUME NEW m, chan'[k] = <<m>>, m.item \in Items \cup {1}
        PROVE  /\ Len(chan'[k]) <= Capacity
               /\ \A n \in DOMAIN chan'[k] : chan'[k][n].item \in Items \cup {1}
    BY <1>1, <2>2, StageNumbers
  <2> QED
    BY <1>3, <2>1, <2>2
<1> QED
  BY <1>4

\* No step changes which channels and workers there are.
LEMMA DomainStep == IInv /\ [Next]_vars => DomainInv'
<1> SUFFICES ASSUME IInv, [Next]_vars PROVE DomainInv'
  OBVIOUS
<1>0. DomainInv
  BY DEF IInv
<1>1. CASE SourceStep \/ CombineStep \/ SinkStep \/ UNCHANGED vars
  BY <1>0, <1>1
     DEF DomainInv, SourceStep, SourceSend, SourceReturn, CombineStep, EndRange, Collect,
         SendCombined, SinkStep, SinkReceive, SinkReturn, SendTo, Receive, workerVars, vars
<1>2. ASSUME NEW k \in HashStages, Stage(k) PROVE DomainInv'
  BY <1>0, <1>2 DEF DomainInv, Stage, StartWorker, EndRange, WaitWorkers, Receive, workerVars
<1>3. ASSUME NEW w \in Workers, Worker(w) PROVE DomainInv'
  BY <1>0, <1>3
     DEF DomainInv, Worker, StartCrcs, LockMd5, OverheatLock, OverheatUnlock, UnlockMd5,
         WaitCrcs, Emit, DoneWorker, SendTo, stageVars
<1>4. ASSUME NEW w \in Workers, NEW x \in Places(w[1]), MyCrc32(w, x) PROVE DomainInv'
  BY <1>0, <1>4 DEF DomainInv, MyCrc32, SendCrc, DoneCrc, stageVars
<1> QED
  BY <1>1, <1>2, <1>3, <1>4 DEF Next

\* The stages keep their types.
LEMMA StageTypes ==
  ASSUME IInv, [Next]_vars
  PROVE  /\ at' \in [Stages -> StageStates] /\ closed' \in [Stages -> BOOLEAN]
         /\ sent' \in 0 .. Len(Input)
<1>0. /\ at \in [Stages -> StageStates] /\ closed \in [Stages -> BOOLEAN]
      /\ sent \in 0 .. Len(Input) /\ Len(Input) \in Nat
  BY InputAssumption DEF IInv, TypeOK
<1>a. CASE SourceSend
  <2>1. UNCHANGED <<at, closed>> /\ sent < Len(Input) /\ sent' = sent + 1
    BY <1>a DEF SourceSend
  <2> QED
    BY <1>0, <2>1
<1>1. CASE SourceReturn \/ CombineStep \/ SinkStep \/ UNCHANGED vars
  <2>1. sent' = sent
    BY <1>1 DEF SourceReturn, CombineStep, EndRange, Collect, SendCombined, SinkStep,
                SinkReceive, SinkReturn, vars
  <2>2. at' \in [Stages -> StageStates] /\ closed' \in [Stages -> BOOLEAN]
    BY <1>0, <1>1
       DEF StageStates, SourceReturn, CombineStep, EndRange, Collect, SendCombined, SinkStep,
           SinkReceive, SinkReturn, Return, vars
  <2> QED
    BY <1>0, <2>1, <2>2
<1>2. ASSUME NEW k \in HashStages, Stage(k)
      PROVE  at' \in [Stages -> StageStates] /\ closed' \in [Stages -> BOOLEAN] /\ sent' = sent
  BY <1>0, <1>2 DEF StageStates, Stage, StartWorker, EndRange, WaitWorkers, Return
<1>3. ASSUME NEW w \in Workers, Worker(w) PROVE UNCHANGED <<at, closed, sent>>
  BY <1>3
     DEF Worker, StartCrcs, LockMd5, OverheatLock, OverheatUnlock, UnlockMd5, WaitCrcs, Emit,
         DoneWorker, stageVars
<1>4. ASSUME NEW w \in Workers, NEW x \in Places(w[1]), MyCrc32(w, x)
      PROVE UNCHANGED <<at, closed, sent>>
  BY <1>4 DEF MyCrc32, SendCrc, DoneCrc, stageVars
<1> QED
  BY <1>0, <1>a, <1>1, <1>2, <1>3, <1>4 DEF Next, SourceStep

\* The WaitGroups of the stages count their workers, and never below zero.
LEMMA WgTypes ==
  ASSUME IInv, [Next]_vars
  PROVE  wg' \in [HashStages -> Nat]
<1>0. wg \in [HashStages -> Nat]
  BY DEF IInv, TypeOK
<1>1. CASE SourceStep \/ CombineStep \/ SinkStep \/ UNCHANGED vars
  BY <1>0, <1>1
     DEF SourceStep, SourceSend, SourceReturn, CombineStep, EndRange, Collect, SendCombined,
         SinkStep, SinkReceive, SinkReturn, vars
<1>2. ASSUME NEW k \in HashStages, Stage(k) PROVE wg' \in [HashStages -> Nat]
  BY <1>0, <1>2 DEF Stage, StartWorker, EndRange, WaitWorkers, Added
<1>3. ASSUME NEW w \in Workers, DoneWorker(w) PROVE wg' \in [HashStages -> Nat]
  <2>1. w[1] \in HashStages /\ w \in Active(w[1])
    BY <1>3, WorkerShape DEF DoneWorker, Goto, Active
  <2>2. wg[w[1]] # 0
    BY <2>1, ActiveFinite, FS_EmptySet DEF IInv, StageInv
  <2>3. wg' = [wg EXCEPT ![w[1]] = @ - 1]
    BY <1>3 DEF DoneWorker
  <2> QED
    BY <1>0, <2>1, <2>2, <2>3
<1>4. ASSUME NEW w \in Workers,
             \/ StartCrcs(w) \/ LockMd5(w) \/ OverheatLock(w) \/ OverheatUnlock(w)
             \/ UnlockMd5(w) \/ WaitCrcs(w) \/ Emit(w)
      PROVE wg' = wg
  BY <1>4 DEF StartCrcs, LockMd5, OverheatLock, OverheatUnlock, UnlockMd5, WaitCrcs, Emit,
              stageVars
<1>5. ASSUME NEW w \in Workers, NEW x \in Places(w[1]), MyCrc32(w, x) PROVE wg' = wg
  BY <1>5 DEF MyCrc32, SendCrc, DoneCrc, stageVars
<1> QED
  BY <1>0, <1>1, <1>2, <1>3, <1>4, <1>5 DEF Next, Worker

\* A step of a worker or of a stage keeps the types of the workers.
LEMMA PcTypes ==
  ASSUME IInv, [Next]_vars
  PROVE  pc' \in [Workers -> WorkerStates]
<1>0. pc \in [Workers -> WorkerStates]
  BY DEF IInv, TypeOK
<1>1. CASE SourceStep \/ CombineStep \/ SinkStep \/ UNCHANGED vars
  BY <1>0, <1>1
     DEF SourceStep, SourceSend, SourceReturn, CombineStep, EndRange, Collect, SendCombined,
         SinkStep, SinkReceive, SinkReturn, workerVars, vars
<1>2. ASSUME NEW k \in HashStages, Stage(k) PROVE pc' \in [Workers -> WorkerStates]
  BY <1>0, <1>2 DEF WorkerStates, Stage, StartWorker, EndRange, WaitWorkers, workerVars
<1>3. ASSUME NEW w \in Workers, Worker(w) PROVE pc' \in [Workers -> WorkerStates]
  BY <1>0, <1>3
     DEF WorkerStates, Goto, Worker, StartCrcs, LockMd5, OverheatLock, OverheatUnlock,
         UnlockMd5, WaitCrcs, Emit, DoneWorker
<1>4. ASSUME NEW w \in Workers, NEW x \in Places(w[1]), MyCrc32(w, x) PROVE pc' = pc
  BY <1>4 DEF MyCrc32, SendCrc, DoneCrc
<1> QED
  BY <1>0, <1>1, <1>2, <1>3, <1>4 DEF Next

\* wg2 counts crc32 goroutines, and never below zero.
LEMMA Wg2Types ==
  ASSUME IInv, [Next]_vars
  PROVE  wg2' \in [Workers -> Nat]
<1>0. wg2 \in [Workers -> Nat]
  BY DEF IInv, TypeOK
<1>1. CASE SourceStep \/ CombineStep \/ SinkStep \/ UNCHANGED vars
  BY <1>0, <1>1
     DEF SourceStep, SourceSend, SourceReturn, CombineStep, EndRange, Collect, SendCombined,
         SinkStep, SinkReceive, SinkReturn, workerVars, vars
<1>2. ASSUME NEW k \in HashStages, Stage(k) PROVE wg2' = wg2
  BY <1>2 DEF Stage, StartWorker, EndRange, WaitWorkers, workerVars
<1>3. ASSUME NEW w \in Workers, StartCrcs(w) PROVE wg2' \in [Workers -> Nat]
  <2>1. Cardinality(Places(w[1])) \in Nat
    BY FiniteWorkers, FS_CardinalityType
  <2> QED
    BY <1>0, <1>3, <2>1 DEF StartCrcs
<1>4. ASSUME NEW w \in Workers,
             \/ LockMd5(w) \/ OverheatLock(w) \/ OverheatUnlock(w) \/ UnlockMd5(w)
             \/ WaitCrcs(w) \/ Emit(w) \/ DoneWorker(w)
      PROVE wg2' = wg2
  BY <1>4 DEF LockMd5, OverheatLock, OverheatUnlock, UnlockMd5, WaitCrcs, Emit, DoneWorker
<1>5. ASSUME NEW w \in Workers, NEW x \in Places(w[1]), SendCrc(w, x) PROVE wg2' = wg2
  BY <1>5 DEF SendCrc
<1>6. ASSUME NEW w \in Workers, NEW x \in Places(w[1]), DoneCrc(w, x)
      PROVE wg2' \in [Workers -> Nat]
  <2>1. CrcOf(w) /\ crc[w][x] = "sent"
    BY <1>6 DEF IInv, CrcInv, DoneCrc
  <2>2. wg2[w] = Cardinality(Unfinished(w)) /\ x \in Unfinished(w)
    BY <2>1, CrcOfOpen DEF CrcOf, Unfinished
  <2>3. IsFiniteSet(Unfinished(w))
    BY FiniteWorkers, FS_Subset DEF Unfinished
  <2>4. wg2[w] # 0
    BY <2>2, <2>3, FS_EmptySet
  <2> QED
    BY <1>0, <1>6, <2>4 DEF DoneCrc
<1> QED
  BY <1>0, <1>1, <1>2, <1>3, <1>4, <1>5, <1>6 DEF Next, Worker, MyCrc32

\* The crc32 goroutines keep their types.
LEMMA CrcTypes ==
  ASSUME IInv, [Next]_vars
  PROVE  \A v \in Workers : crc'[v] \in [Places(v[1]) -> CrcStates]
<1>0. DOMAIN crc = Workers /\ \A v \in Workers : crc[v] \in [Places(v[1]) -> CrcStates]
  BY DEF IInv, TypeOK, DomainInv
<1>1. CASE SourceStep \/ CombineStep \/ SinkStep \/ UNCHANGED vars
  BY <1>0, <1>1
     DEF SourceStep, SourceSend, SourceReturn, CombineStep, EndRange, Collect, SendCombined,
         SinkStep, SinkReceive, SinkReturn, workerVars, vars
<1>2. ASSUME NEW k \in HashStages, Stage(k) PROVE crc' = crc
  BY <1>2 DEF Stage, StartWorker, EndRange, WaitWorkers, workerVars
<1>3. ASSUME NEW w \in Workers, StartCrcs(w) PROVE crc' \in [Workers -> {crc'[v] : v \in Workers}]
             /\ \A v \in Workers : crc'[v] \in [Places(v[1]) -> CrcStates]
  <2>1. \A v \in Workers \ {w} : crc'[v] = crc[v]
    BY <1>0, <1>3 DEF StartCrcs
  <2>2. crc'[w] \in [Places(w[1]) -> CrcStates]
    BY <1>0, <1>3 DEF StartCrcs, CrcStates
  <2> QED
    BY <1>0, <1>3, <2>1, <2>2 DEF StartCrcs
<1>4. ASSUME NEW w \in Workers,
             \/ LockMd5(w) \/ OverheatLock(w) \/ OverheatUnlock(w) \/ WaitCrcs(w)
             \/ Emit(w) \/ DoneWorker(w)
      PROVE crc' = crc
  BY <1>4 DEF LockMd5, OverheatLock, OverheatUnlock, WaitCrcs, Emit, DoneWorker
<1>5. ASSUME NEW w \in Workers, UnlockMd5(w)
      PROVE \A v \in Workers : crc'[v] \in [Places(v[1]) -> CrcStates]
  <2>1. crc' = [crc EXCEPT ![w] = [crc[w] EXCEPT ![1] = "running"]]
    BY <1>5 DEF UnlockMd5
  <2>2. [crc[w] EXCEPT ![1] = "running"] \in [Places(w[1]) -> CrcStates]
    BY <1>0 DEF CrcStates
  <2> QED
    BY <1>0, <2>1, <2>2
<1>6. ASSUME NEW w \in Workers, NEW x \in Places(w[1]), MyCrc32(w, x)
      PROVE \A v \in Workers : crc'[v] \in [Places(v[1]) -> CrcStates]
  <2>1. PICK s \in CrcStates : crc' = [crc EXCEPT ![w] = [crc[w] EXCEPT ![x] = s]]
    BY <1>6 DEF MyCrc32, SendCrc, DoneCrc, CrcStates
  <2>2. [crc[w] EXCEPT ![x] = s] \in [Places(w[1]) -> CrcStates]
    BY <1>0
  <2> QED
    BY <1>0, <2>1, <2>2
<1> QED
  BY <1>0, <1>1, <1>2, <1>3, <1>4, <1>5, <1>6 DEF Next, Worker

\* The mutex, the flag and the two histories keep their types.
LEMMA Md5Types ==
  ASSUME IInv, [Next]_vars
  PROVE  /\ mu' \in Items \cup {None} /\ dataSignerOverheat' \in {0, 1}
         /\ overheated' \in BOOLEAN /\ panicked' \in BOOLEAN
<1>0. mu \in Items \cup {None} /\ dataSignerOverheat \in {0, 1}
  BY DEF IInv, TypeOK
<1>1. ASSUME SourceStep \/ CombineStep \/ SinkStep \/ UNCHANGED vars
      PROVE UNCHANGED <<mu, dataSignerOverheat>>
  BY <1>1
     DEF SourceStep, SourceSend, SourceReturn, CombineStep, EndRange, Collect, SendCombined,
         SinkStep, SinkReceive, SinkReturn, md5Vars, vars
<1>2. ASSUME NEW k \in HashStages, Stage(k) PROVE UNCHANGED md5Vars
  BY <1>2 DEF Stage, StartWorker, EndRange, WaitWorkers
<1>3. ASSUME NEW w \in Workers, LockMd5(w) \/ OverheatLock(w) \/ OverheatUnlock(w) \/ UnlockMd5(w)
      PROVE mu' \in Items \cup {None} /\ dataSignerOverheat' \in {0, 1}
  BY <1>0, <1>3, WorkerShape DEF LockMd5, OverheatLock, OverheatUnlock, UnlockMd5
<1>4. ASSUME NEW w \in Workers, StartCrcs(w) \/ WaitCrcs(w) \/ Emit(w) \/ DoneWorker(w)
      PROVE UNCHANGED md5Vars
  BY <1>4 DEF StartCrcs, WaitCrcs, Emit, DoneWorker
<1>5. ASSUME NEW w \in Workers, NEW x \in Places(w[1]), MyCrc32(w, x) PROVE UNCHANGED md5Vars
  BY <1>5 DEF MyCrc32, SendCrc, DoneCrc
<1>6. mu' \in Items \cup {None} /\ dataSignerOverheat' \in {0, 1}
  BY <1>0, <1>1, <1>2, <1>3, <1>4, <1>5 DEF Next, Worker, md5Vars
<1>7. overheated \in BOOLEAN /\ panicked \in BOOLEAN
  BY DEF IInv, TypeOK
<1>8. ASSUME NEW k, NEW m, SendTo(k, m) PROVE panicked' \in BOOLEAN
  <2>1. panicked' = (panicked \/ closed[k])
    BY <1>8 DEF SendTo
  <2> QED
    BY <2>1, Zenon
<1>9. ASSUME NEW w \in Workers, NEW x \in Places(w[1]), SendCrc(w, x) PROVE panicked' \in BOOLEAN
  <2>1. panicked' = (panicked \/ MychClosed(w))
    BY <1>9 DEF SendCrc
  <2> QED
    BY <2>1, Zenon
<1>10. ASSUME NEW w \in Workers, OverheatLock(w) \/ OverheatUnlock(w)
       PROVE overheated' \in BOOLEAN /\ panicked' = panicked
  <2>1. PICK d \in {0, 1} : overheated' = (overheated \/ dataSignerOverheat = d)
    BY <1>10 DEF OverheatLock, OverheatUnlock
  <2>2. overheated' \in BOOLEAN
    BY <2>1, Zenon
  <2>3. panicked' = panicked
    BY <1>10 DEF OverheatLock, OverheatUnlock
  <2> QED
    BY <2>2, <2>3
<1>11. ASSUME SourceStep \/ CombineStep \/ SinkStep \/ UNCHANGED vars
       PROVE overheated' = overheated /\ panicked' \in BOOLEAN
  <2>1. overheated' = overheated
    BY <1>11
       DEF SourceStep, SourceSend, SourceReturn, CombineStep, EndRange, Collect, SendCombined,
           SinkStep, SinkReceive, SinkReturn, md5Vars, vars
  <2>2. ASSUME SourceSend \/ SendCombined PROVE panicked' \in BOOLEAN
    BY <1>8, <2>2 DEF SourceSend, SendCombined
  <2>3. ASSUME SourceReturn \/ EndRange(Combine) \/ Collect \/ SinkStep \/ UNCHANGED vars
        PROVE panicked' = panicked
    BY <2>3 DEF SourceReturn, EndRange, Collect, SinkStep, SinkReceive, SinkReturn, vars
  <2> QED
    BY <1>7, <1>11, <2>1, <2>2, <2>3 DEF SourceStep, CombineStep
<1>12. ASSUME NEW w \in Workers, Emit(w) PROVE panicked' \in BOOLEAN
  BY <1>8, <1>12 DEF Emit
<1>13. ASSUME NEW w \in Workers,
              \/ StartCrcs(w) \/ LockMd5(w) \/ UnlockMd5(w) \/ WaitCrcs(w) \/ DoneWorker(w)
       PROVE UNCHANGED <<overheated, panicked>>
  BY <1>13 DEF StartCrcs, LockMd5, UnlockMd5, WaitCrcs, DoneWorker, md5Vars
<1>14. ASSUME NEW k \in HashStages, Stage(k) PROVE UNCHANGED <<overheated, panicked>>
  BY <1>14 DEF Stage, StartWorker, EndRange, WaitWorkers, md5Vars
<1>15. ASSUME NEW w \in Workers, NEW x \in Places(w[1]), DoneCrc(w, x) PROVE panicked' = panicked
  BY <1>15 DEF DoneCrc
<1>16. overheated' \in BOOLEAN
  BY <1>4, <1>5, <1>7, <1>10, <1>11, <1>13, <1>14 DEF Next, Worker, md5Vars
<1>17. panicked' \in BOOLEAN
  BY <1>7, <1>9, <1>10, <1>11, <1>12, <1>13, <1>14, <1>15 DEF Next, Worker, MyCrc32
<1> QED
  BY <1>6, <1>16, <1>17

\* Every step keeps the types.
LEMMA TypeStep == IInv /\ [Next]_vars => TypeOK'
<1> SUFFICES ASSUME IInv, [Next]_vars PROVE TypeOK'
  OBVIOUS
<1>1. ChanInv'
  BY ChanStep
<1>2. \A k \in Stages : /\ Len(chan'[k]) <= Capacity
                        /\ \A n \in DOMAIN chan'[k] : chan'[k][n].item \in Items \cup {1}
  BY <1>1, ChanTypes
<1> QED
  BY <1>2, StageTypes, WgTypes, PcTypes, Wg2Types, CrcTypes, Md5Types DEF TypeOK

\* The conjunction is an invariant of every behaviour of the pipeline.
THEOREM Invariance == Spec => []IInv
<1>1. Init => IInv
  BY InitInv
<1>2. IInv /\ [Next]_vars => IInv'
  <2> SUFFICES ASSUME IInv, [Next]_vars PROVE IInv'
    OBVIOUS
  <2>1. TypeOK' /\ DomainInv' /\ Md5Inv' /\ StageInv' /\ ChanInv' /\ CrcInv'
    BY TypeStep, DomainStep, Md5Step, StageStep, ChanStep, CrcStep
  <2>2. ArgInv' /\ MychInv' /\ NoPanic'
    BY ResultStep, NoPanicStep
  <2> QED
    BY <2>1, <2>2 DEF IInv
<1> QED
  BY <1>1, <1>2, PTL DEF Spec

\* The variables have their types: no channel of the pipeline holds more than
\* its capacity and no WaitGroup counter goes below zero.
THEOREM TypeCorrect == Spec => []TypeOK
<1>1. IInv => TypeOK
  BY DEF IInv
<1> QED
  BY <1>1, Invariance, PTL

\* DataSignerMd5 never overheats, whatever the pipeline is fed.
THEOREM NeverOverheats == Spec => []NoOverheat
<1>1. IInv => NoOverheat
  BY DEF IInv, Md5Inv, NoOverheat
<1> QED
  BY <1>1, Invariance, PTL

\* No goroutine of the pipeline sends on a closed channel.
THEOREM NeverPanics == Spec => []NoPanic
<1>1. IInv => NoPanic
  BY DEF IInv
<1> QED
  BY <1>1, Invariance, PTL

\* What SingleHash and MultiHash send on is the hash of the input it stems
\* from, for every number of hashes and every order of the crc32 goroutines.
THEOREM HashesCorrect == Spec => []HashesRight
<1>1. IInv => HashesRight
  <2> SUFFICES ASSUME IInv PROVE HashesRight
    OBVIOUS
  <2>1. ASSUME NEW k \in {Single, Multi}, NEW n \in DOMAIN chan[k]
        PROVE  chan[k][n].val = ValueOf(k, chan[k][n].item)
    <3>1. chan[k] # <<>>
      OBVIOUS
    <3>2. PICK i \in Items : chan[k] = <<Message(k, i)>>
      BY <3>1 DEF IInv, ChanInv
    <3>3. chan[k][n] = Message(k, i)
      BY <3>2
    <3>4. Message(k, i).item = i /\ Message(k, i).val = ValueOf(k, i)
      BY DEF Message
    <3> QED
      BY <3>3, <3>4
  <2> QED
    BY <2>1, StageNumbers DEF HashesRight, ValueOf
<1> QED
  BY <1>1, Invariance, PTL
-----------------------------------------------------------------------------
(***************************************************************************)
(* The delivery: nothing is lost between the stages, and what the sink     *)
(* gets is what Signature promises.                                        *)
(***************************************************************************)

\* The inputs whose hash CombineResults has received.
Taken == {i \in Items : /\ pc[<<Multi, i>>] \in {"emitted", "done"}
                        /\ chan[Multi] # <<Message(Multi, i)>>}

\* Nothing is lost: what a stage has sent is in its channel until the stage behind
\* takes it, and a stage leaves its range only behind a stage that has returned,
\* when there is nothing left to take.
FlowInv ==
  /\ at[Source] = "returned" => sent = Len(Input)
  /\ \A k \in {Source, Single}, i \in Items :
       Left(k, i) /\ pc[<<k + 1, i>>] = "none" => chan[k] = <<Message(k, i)>>
  /\ \A k \in {Single, Multi, Combine} :
       at[k] # "range" => chan[k - 1] = <<>> /\ at[k - 1] = "returned"

\* CombineResults holds the hash of every input it has received, once.
CollectInv ==
  /\ Len(unsortedResults) \in Nat
  /\ \E q \in [1 .. Len(unsortedResults) -> Taken] :
       /\ \A m, n \in DOMAIN q : q[m] = q[n] => m = n
       /\ \A i \in Taken : \E n \in DOMAIN q : q[n] = i
       /\ unsortedResults = [n \in DOMAIN q |-> HashOf(Input[q[n]])]

\* The sink gets the one value CombineResults sends.
OutputInv ==
  \/ output = <<>>
  \/ output = <<Combined>> /\ at[Combine] = "returned" /\ chan[Combine] = <<>>

DeliveryInv == FlowInv /\ CollectInv /\ OutputInv

\* What a message is of shows in it.
LEMMA MessageShape ==
  ASSUME NEW k
  PROVE  \A i, j : /\ <<Message(k, i)>> = <<Message(k, j)>> => i = j
                   /\ <<Message(k, i)>> # <<>>
<1>1. ASSUME NEW i, NEW j, <<Message(k, i)>> = <<Message(k, j)>> PROVE i = j
  <2>1. Message(k, i) = Message(k, j)
    BY <1>1
  <2>2. Message(k, i).item = i /\ Message(k, j).item = j
    BY DEF Message
  <2> QED
    BY <2>1, <2>2
<1>2. \A m : <<m>> # <<>>
  OBVIOUS
<1> QED
  BY <1>1, <1>2

\* The start: nothing has been sent.
LEMMA InitDelivery == Init => DeliveryInv
<1> SUFFICES ASSUME Init PROVE DeliveryInv
  OBVIOUS
<1>1. FlowInv
  <2>1. at[Source] = "range" /\ at[Single] = "range" /\ at[Multi] = "range" /\ at[Combine] = "range"
    BY StageNumbers DEF Init
  <2>2. \A i \in Items : ~Left(Source, i) /\ ~Left(Single, i)
    <3>1. \A i \in Items : ~ (i <= sent)
      BY InputAssumption DEF Init, Items
    <3>2. \A i \in Items : pc[<<Single, i>>] = "none"
      BY WorkerShape, StageNumbers DEF Init
    <3> QED
      BY <3>1, <3>2, StageNumbers DEF Left
  <2> QED
    BY <2>1, <2>2 DEF FlowInv
<1>2. CollectInv
  <2>1. Taken = {}
    BY WorkerShape, StageNumbers DEF Init, Taken
  <2>2. unsortedResults = <<>> /\ Len(<<>>) = 0
    BY DEF Init
  <2> DEFINE q == [n \in 1 .. 0 |-> 0]
  <2>3. q \in [1 .. 0 -> {}] /\ DOMAIN q = {}
    OBVIOUS
  <2>4. <<>> = [n \in DOMAIN q |-> HashOf(Input[q[n]])]
    BY <2>3
  <2> HIDE DEF q
  <2> QED
    BY <2>1, <2>2, <2>3, <2>4 DEF CollectInv
<1> QED
  BY <1>1, <1>2 DEF Init, DeliveryInv, OutputInv

\* The workers behind the source and behind SingleHash.
LEMMA NextWorkers ==
  \A i \in Items :
    /\ <<Single, i>> \in Workers /\ <<Multi, i>> \in Workers
    /\ <<Source + 1, i>> = <<Single, i>> /\ <<Single + 1, i>> = <<Multi, i>>
    /\ <<Single, i>>[1] = Single /\ <<Multi, i>>[1] = Multi /\ <<Single, i>> # <<Multi, i>>
    /\ <<Single, i>>[2] = i /\ <<Multi, i>>[2] = i
<1>1. Source + 1 = Single /\ Single + 1 = Multi /\ Single # Multi
      /\ Single \in HashStages /\ Multi \in HashStages
  BY StageNumbers
<1>2. \A i : /\ <<Single, i>>[1] = Single /\ <<Multi, i>>[1] = Multi
             /\ <<Single, i>>[2] = i /\ <<Multi, i>>[2] = i
  OBVIOUS
<1> QED
  BY <1>1, <1>2, WorkerShape

\* A step that sends nothing, takes nothing and moves no stage out of its range
\* loses nothing.
LEMMA FlowFrame ==
  ASSUME FlowInv, UNCHANGED <<chan, sent, at>>,
         \A i \in Items :
           /\ pc'[<<Single, i>>] = "none" <=> pc[<<Single, i>>] = "none"
           /\ pc'[<<Multi, i>>] = "none" <=> pc[<<Multi, i>>] = "none"
           /\ pc'[<<Single, i>>] \in {"emitted", "done"} => pc[<<Single, i>>] \in {"emitted", "done"}
  PROVE  FlowInv'
<1>1. \A i \in Items : /\ Left(Source, i)' <=> Left(Source, i)
                       /\ Left(Single, i)' => Left(Single, i)
  BY StageNumbers DEF Left
<1>2. ASSUME NEW k \in {Source, Single}, NEW i \in Items, Left(k, i)', pc'[<<k + 1, i>>] = "none"
      PROVE  chan'[k] = <<Message(k, i)>>
  <2>1. Left(k, i)
    BY <1>1, <1>2
  <2>2. pc[<<k + 1, i>>] = "none"
    <3>1. CASE k = Source
      BY <1>2, <3>1, NextWorkers
    <3>2. CASE k = Single
      BY <1>2, <3>2, NextWorkers
    <3> QED
      BY <3>1, <3>2
  <2> QED
    BY <2>1, <2>2 DEF FlowInv
<1> QED
  BY <1>2 DEF FlowInv

\* A step that changes neither the output channel of MultiHash nor who has sent to
\* it changes nothing of what was received.
LEMMA TakenFrame ==
  ASSUME chan'[Multi] = chan[Multi],
         \A i \in Items : pc'[<<Multi, i>>] \in {"emitted", "done"}
                            <=> pc[<<Multi, i>>] \in {"emitted", "done"}
  PROVE  Taken' = Taken
BY DEF Taken, Message, ValueOf

\* While nothing more is received the results stay those of the inputs received.
LEMMA CollectFrame ==
  ASSUME CollectInv, UNCHANGED unsortedResults, Taken' = Taken
  PROVE  CollectInv'
BY DEF CollectInv

\* The output stays what it is while nothing is sent to the sink.
LEMMA OutputFrame ==
  ASSUME OutputInv, UNCHANGED <<output, unsortedResults>>,
         at[Combine] = "returned" => at'[Combine] = "returned",
         at[Combine] = "returned" /\ chan[Combine] = <<>> => chan'[Combine] = <<>>
  PROVE  OutputInv'
BY DEF OutputInv, Combined


\* SourceSend and Emit of SingleHash put what they send into an empty channel;
\* nobody has taken it yet.
LEMMA FlowSend ==
  ASSUME IInv, FlowInv, NEW k \in {Source, Single}, NEW i \in Items,
         chan'[k] = <<Message(k, i)>>, chan[k] = <<>>,
         \A j \in Stages \ {k} : chan'[j] = chan[j],
         UNCHANGED at, at[k] # "returned",
         \A j \in Items : pc'[<<Single, j>>] = "none" <=> pc[<<Single, j>>] = "none",
         \A j \in Items : pc'[<<Multi, j>>] = "none" <=> pc[<<Multi, j>>] = "none",
         \A h \in {Source, Single}, j \in Items :
           Left(h, j)' => Left(h, j) \/ (h = k /\ j = i),
         sent' = sent \/ k = Source
  PROVE  FlowInv'
<1>1. at[Source] = "returned" => sent' = Len(Input)
  BY DEF FlowInv
<1>2. ASSUME NEW h \in {Source, Single}, NEW j \in Items,
             Left(h, j)', pc'[<<h + 1, j>>] = "none"
      PROVE  chan'[h] = <<Message(h, j)>>
  <2>1. pc[<<h + 1, j>>] = "none" /\ h \in Stages
    BY <1>2, StageNumbers
  <2>2. Left(h, j) => chan[h] = <<Message(h, j)>>
    BY <2>1 DEF FlowInv
  <2>3. CASE h # k
    BY <1>2, <2>1, <2>2, <2>3
  <2>4. CASE h = k
    BY <1>2, <2>2, <2>4, MessageShape
  <2> QED
    BY <2>3, <2>4
<1>3. ASSUME NEW h \in {Single, Multi, Combine}, at'[h] # "range"
      PROVE  chan'[h - 1] = <<>> /\ at'[h - 1] = "returned"
  <2>1. chan[h - 1] = <<>> /\ at[h - 1] = "returned"
    BY <1>3 DEF FlowInv
  <2>2. h - 1 # k /\ h - 1 \in Stages
    BY <2>1, StageNumbers
  <2> QED
    BY <2>1, <2>2
<1> QED
  BY <1>1, <1>2, <1>3 DEF FlowInv

\* Nor do the sends and the ends behind MultiHash lose anything.
LEMMA FlowQuiet ==
  ASSUME FlowInv, UNCHANGED <<sent, pc>>,
         \A k \in {Source, Single, Multi} : chan'[k] = chan[k] /\ at'[k] = at[k],
         at'[Combine] # "range" => at[Combine] # "range"
  PROVE  FlowInv'
<1>1. \A k \in {Source, Single}, i \in Items : Left(k, i)' <=> Left(k, i)
  BY DEF Left
<1>2. \A k \in {Source, Single}, i \in Items :
        Left(k, i)' /\ pc'[<<k + 1, i>>] = "none" => chan'[k] = <<Message(k, i)>>
  BY <1>1 DEF FlowInv
<1>3. ASSUME NEW k \in {Single, Multi, Combine}, at'[k] # "range"
      PROVE  chan'[k - 1] = <<>> /\ at'[k - 1] = "returned"
  <2>1. at[k] # "range" /\ k - 1 \in {Source, Single, Multi}
    BY <1>3, StageNumbers
  <2>2. chan[k - 1] = <<>> /\ at[k - 1] = "returned"
    BY <2>1 DEF FlowInv
  <2> QED
    BY <2>1, <2>2
<1> QED
  BY <1>2, <1>3 DEF FlowInv

\* Every step loses nothing.
LEMMA FlowStep == IInv /\ FlowInv /\ [Next]_vars => FlowInv'
<1> SUFFICES ASSUME IInv, FlowInv, [Next]_vars PROVE FlowInv'
  OBVIOUS
<1>0. /\ TypeOK /\ DOMAIN chan = Stages /\ at \in [Stages -> StageStates]
      /\ sent \in 0 .. Len(Input) /\ Len(Input) \in Nat
  BY InputAssumption DEF IInv, DomainInv, TypeOK
<1>a. \A i \in Items : <<Single, i>> \in Workers /\ <<Multi, i>> \in Workers
  BY NextWorkers
<1>1. CASE UNCHANGED vars
  BY <1>1, FlowFrame DEF vars
<1>2. CASE SourceSend
  <2>1. at[Source] = "range" /\ sent < Len(Input) /\ sent' = sent + 1 /\ UNCHANGED <<at, pc>>
    BY <1>2 DEF SourceSend, workerVars
  <2>2. sent + 1 \in Items
    BY <1>0, <2>1 DEF Items
  <2>3. SendTo(Source, Message(Source, sent + 1)) /\ ~closed[Source]
    <3>1. SendTo(Source, [item |-> sent + 1, val |-> Data(Input[sent + 1])])
      BY <1>2 DEF SourceSend
    <3> QED
      BY <2>1, <3>1, OpenChannel DEF Message, ValueOf
  <2>4. /\ chan[Source] = <<>> /\ chan'[Source] = <<Message(Source, sent + 1)>>
        /\ \A j \in Stages \ {Source} : chan'[j] = chan[j]
    BY <2>3, SendOpen
  <2>5. \A h \in {Source, Single}, j \in Items :
          Left(h, j)' => Left(h, j) \/ (h = Source /\ j = sent + 1)
    BY <1>0, <2>1, StageNumbers DEF Left, Items
  <2> QED
    BY <2>1, <2>2, <2>4, <2>5, FlowSend
<1>3. CASE SourceReturn
  <2>1. /\ at[Source] = "range" /\ sent = Len(Input) /\ UNCHANGED <<chan, sent, pc>>
        /\ at' = [at EXCEPT ![Source] = "returned"]
    BY <1>3 DEF SourceReturn, Return, workerVars
  <2>2. \A h \in Stages : h # Source => at'[h] = at[h]
    BY <1>0, <2>1
  <2>3. \A h \in {Source, Single}, j \in Items : Left(h, j)' <=> Left(h, j)
    BY <2>1 DEF Left
  <2>4. ASSUME NEW h \in {Single, Multi, Combine}, at'[h] # "range"
        PROVE  chan'[h - 1] = <<>> /\ at'[h - 1] = "returned"
    <3>1. h \in Stages /\ h # Source /\ h - 1 \in Stages
      BY StageNumbers
    <3>2. chan[h - 1] = <<>> /\ at[h - 1] = "returned"
      BY <2>2, <2>4, <3>1 DEF FlowInv
    <3> QED
      BY <2>1, <2>2, <3>1, <3>2
  <2> QED
    BY <2>1, <2>3, <2>4 DEF FlowInv
<1>4. ASSUME NEW k \in HashStages, StartWorker(k) PROVE FlowInv'
  <2>1. PICK i \in Items :
          /\ chan[k - 1] = <<Message(k - 1, i)>> /\ chan'[k - 1] = <<>>
          /\ \A j \in Stages \ {k - 1} : chan'[j] = chan[j]
          /\ \A v \in Workers : pc'[v] = IF v = <<k, i>> THEN "start" ELSE pc[v]
    BY <1>4, TakeMessage
  <2>2. UNCHANGED <<at, sent>>
    BY <1>4 DEF StartWorker
  <2>3. \A h \in {Source, Single}, j \in Items : Left(h, j)' => Left(h, j)
    BY <1>a, <2>1, <2>2, StageNumbers DEF Left
  <2>4. ASSUME NEW h \in {Source, Single}, NEW j \in Items,
               Left(h, j)', pc'[<<h + 1, j>>] = "none"
        PROVE  chan'[h] = <<Message(h, j)>>
    <3>1. <<h + 1, j>> \in Workers /\ <<h + 1, j>> # <<k, i>> /\ pc[<<h + 1, j>>] = "none"
      <4>1. <<h + 1, j>> \in Workers
        BY NextWorkers
      <4> QED
        BY <2>1, <2>4, <4>1
    <3>2. chan[h] = <<Message(h, j)>> /\ h \in Stages
      BY <2>3, <2>4, <3>1, StageNumbers DEF FlowInv
    <3>3. CASE h = k - 1
      <4>1. i = j /\ h + 1 = k
        BY <2>1, <3>2, <3>3, MessageShape, StageNumbers
      <4> QED
        BY <3>1, <4>1
    <3>4. CASE h # k - 1
      BY <2>1, <3>2, <3>4
    <3> QED
      BY <3>3, <3>4
  <2>5. ASSUME NEW h \in {Single, Multi, Combine}, at'[h] # "range"
        PROVE  chan'[h - 1] = <<>> /\ at'[h - 1] = "returned"
    <3>1. chan[h - 1] = <<>> /\ at'[h - 1] = "returned" /\ h - 1 \in Stages
      BY <2>2, <2>5, StageNumbers DEF FlowInv
    <3> QED
      BY <2>1, <3>1
  <2> QED
    BY <2>2, <2>4, <2>5 DEF FlowInv
<1>5. ASSUME NEW k \in {Single, Multi, Combine}, EndRange(k) \/ (k \in HashStages /\ WaitWorkers(k))
      PROVE  FlowInv'
  <2>1. /\ UNCHANGED <<chan, sent, pc>> /\ k \in Stages /\ k # Source /\ at'[k] # "range"
        /\ \A h \in Stages : h # k => at'[h] = at[h]
    BY <1>0, <1>5, StageNumbers DEF EndRange, WaitWorkers, Return, workerVars
  <2>2. chan[k - 1] = <<>> /\ at[k - 1] = "returned"
    <3>1. CASE EndRange(k)
      <4>1. chan[k - 1] = <<>> /\ closed[k - 1] /\ k - 1 \in Stages
        BY <3>1, StageNumbers DEF EndRange, Drained
      <4> QED
        BY <4>1 DEF IInv, StageInv
    <3>2. CASE WaitWorkers(k)
      BY <3>2 DEF WaitWorkers, FlowInv
    <3> QED
      BY <1>5, <3>1, <3>2
  <2>3. \A h \in {Source, Single}, j \in Items : Left(h, j)' <=> Left(h, j)
    BY <2>1 DEF Left
  <2>4. ASSUME NEW h \in {Single, Multi, Combine}, at'[h] # "range"
        PROVE  chan'[h - 1] = <<>> /\ at'[h - 1] = "returned"
    <3>1. h \in Stages /\ h - 1 \in Stages /\ h - 1 # h
      BY StageNumbers
    <3>2. chan[h - 1] = <<>> /\ at[h - 1] = "returned"
      BY <2>1, <2>2, <2>4, <3>1 DEF FlowInv
    <3>3. CASE h - 1 = k
      <4>1. at[k] = "returned"
        BY <3>2, <3>3
      <4>2. FALSE
        BY <1>5, <4>1 DEF EndRange, WaitWorkers
      <4> QED
        BY <4>2
    <3>4. CASE h - 1 # k
      BY <2>1, <3>1, <3>2, <3>4
    <3> QED
      BY <3>3, <3>4
  <2>5. at'[Source] = "returned" => sent' = Len(Input)
    BY <2>1, StageNumbers DEF FlowInv
  <2> QED
    BY <2>1, <2>3, <2>4, <2>5 DEF FlowInv
<1>6. ASSUME NEW w \in Workers, Emit(w) PROVE FlowInv'
  <2>1. /\ pc[w] = "emit" /\ UNCHANGED <<at, sent>>
        /\ \A v \in Workers : pc'[v] = IF v = w THEN "emitted" ELSE pc[v]
    BY <1>0, <1>6, GotoPc DEF Emit
  <2>2. SendTo(w[1], Message(w[1], w[2])) /\ ~closed[w[1]]
    BY <1>6, <2>1, ResultRight, OpenChannel DEF Emit, Message
  <2>3. w[1] \in {Single, Multi} /\ w[2] \in Items /\ w = <<w[1], w[2]>> /\ w[1] \in Stages
    BY WorkerShape, StageNumbers
  <2>4. /\ chan[w[1]] = <<>> /\ chan'[w[1]] = <<Message(w[1], w[2])>>
        /\ \A j \in Stages \ {w[1]} : chan'[j] = chan[j]
    BY <2>2, <2>3, SendOpen
  <2>5. at[w[1]] # "returned"
    BY <2>2, <2>3 DEF IInv, StageInv
  <2>6. CASE w[1] = Single
    <3>1. \A h \in {Source, Single}, j \in Items :
            Left(h, j)' => Left(h, j) \/ (h = Single /\ j = w[2])
      <4>1. \A j \in Items : Left(Source, j)' <=> Left(Source, j)
        BY <2>1 DEF Left
      <4>2. ASSUME NEW j \in Items, Left(Single, j)', j # w[2] PROVE Left(Single, j)
        <5>1. <<Single, j>> # w
          BY <4>2, NextWorkers
        <5> QED
          BY <1>a, <2>1, <4>2, <5>1, StageNumbers DEF Left
      <4> QED
        BY <4>1, <4>2
    <3>2. \A j \in Items : /\ pc'[<<Single, j>>] = "none" <=> pc[<<Single, j>>] = "none"
                           /\ pc'[<<Multi, j>>] = "none" <=> pc[<<Multi, j>>] = "none"
      BY <1>a, <2>1
    <3> QED
      BY <2>1, <2>3, <2>4, <2>5, <2>6, <3>1, <3>2, FlowSend
  <2>7. CASE w[1] = Multi
    <3>1. \A h \in {Source, Single}, j \in Items : Left(h, j)' <=> Left(h, j)
      <4>1. \A j \in Items : Left(Source, j)' <=> Left(Source, j)
        BY <2>1 DEF Left
      <4>2. \A j \in Items : <<Single, j>> # w
        BY <2>7, NextWorkers, StageNumbers
      <4>3. \A j \in Items : Left(Single, j)' <=> Left(Single, j)
        BY <1>a, <2>1, <4>2, StageNumbers DEF Left
      <4> QED
        BY <4>1, <4>3
    <3>2. \A h \in {Source, Single}, j \in Items :
            pc'[<<h + 1, j>>] = "none" <=> pc[<<h + 1, j>>] = "none"
      <4>1. \A v \in Workers : pc'[v] = "none" <=> pc[v] = "none"
        BY <2>1
      <4> QED
        BY <4>1, NextWorkers
    <3>3. chan'[Source] = chan[Source] /\ chan'[Single] = chan[Single]
      BY <2>4, <2>7, StageNumbers
    <3>4. ASSUME NEW h \in {Single, Multi, Combine}, at'[h] # "range"
          PROVE  chan'[h - 1] = <<>> /\ at'[h - 1] = "returned"
      <4>1. chan[h - 1] = <<>> /\ at[h - 1] = "returned" /\ h - 1 \in Stages
        BY <2>1, <3>4, StageNumbers DEF FlowInv
      <4>2. h - 1 # Multi
        BY <2>5, <2>7, <4>1
      <4> QED
        BY <2>1, <2>4, <2>7, <4>1, <4>2
    <3> QED
      BY <2>1, <3>1, <3>2, <3>3, <3>4 DEF FlowInv
  <2> QED
    BY <2>3, <2>6, <2>7
<1>7. ASSUME NEW w \in Workers,
             StartCrcs(w) \/ LockMd5(w) \/ OverheatLock(w) \/ OverheatUnlock(w)
               \/ UnlockMd5(w) \/ WaitCrcs(w) \/ DoneWorker(w)
      PROVE  FlowInv'
  <2>1. UNCHANGED <<chan, sent, at>>
    BY <1>7 DEF StartCrcs, LockMd5, OverheatLock, OverheatUnlock, UnlockMd5, WaitCrcs,
                DoneWorker, stageVars
  <2>2. \A v \in Workers :
          /\ pc'[v] = "none" <=> pc[v] = "none"
          /\ pc'[v] \in {"emitted", "done"} => pc[v] \in {"emitted", "done"}
    BY <1>0, <1>7, GotoPc
       DEF StartCrcs, LockMd5, OverheatLock, OverheatUnlock, UnlockMd5, WaitCrcs, DoneWorker
  <2> QED
    BY <1>a, <2>1, <2>2, FlowFrame
<1>8. ASSUME NEW w \in Workers, NEW x \in Places(w[1]), MyCrc32(w, x) PROVE FlowInv'
  BY <1>8, FlowFrame DEF MyCrc32, SendCrc, DoneCrc, stageVars
<1>9. CASE Collect
  <2>1. /\ at[Combine] = "range" /\ UNCHANGED <<at, sent, pc>>
        /\ chan' = [chan EXCEPT ![Combine - 1] = Tail(@)]
    BY <1>9 DEF Collect, Receive, workerVars
  <2>2. \A h \in {Source, Single} : chan'[h] = chan[h]
    BY <1>0, <2>1, StageNumbers
  <2>3. \A h \in {Source, Single}, j \in Items : Left(h, j)' <=> Left(h, j)
    BY <2>1 DEF Left
  <2>4. ASSUME NEW h \in {Single, Multi, Combine}, at'[h] # "range"
        PROVE  chan'[h - 1] = <<>> /\ at'[h - 1] = "returned"
    <3>1. h \in {Single, Multi} /\ h - 1 \in {Source, Single}
      BY <2>1, <2>4, StageNumbers
    <3>2. chan[h - 1] = <<>> /\ at[h - 1] = "returned"
      BY <2>1, <2>4 DEF FlowInv
    <3> QED
      BY <2>1, <2>2, <3>1, <3>2
  <2> QED
    BY <2>1, <2>2, <2>3, <2>4 DEF FlowInv
<1>10. CASE SendCombined
  <2>1. /\ at[Combine] = "emit" /\ UNCHANGED <<sent, pc>>
        /\ at' = [at EXCEPT ![Combine] = "returned"]
        /\ chan' = chan \/ chan' = [chan EXCEPT ![Combine] = Append(@, [item |-> 1, val |-> Combined])]
    BY <1>10 DEF SendCombined, SendTo, Return, workerVars
  <2> QED
    BY <1>0, <2>1, FlowQuiet, StageNumbers
<1>11. CASE SinkStep
  <2>1. /\ UNCHANGED <<sent, pc>>
        /\ at' = at \/ at' = [at EXCEPT ![Sink] = "returned"]
        /\ chan' = chan \/ chan' = [chan EXCEPT ![Sink - 1] = Tail(@)]
    BY <1>11 DEF SinkStep, SinkReceive, SinkReturn, Receive, Return, workerVars
  <2> QED
    BY <1>0, <2>1, FlowQuiet, StageNumbers
<1> QED
  BY <1>1, <1>2, <1>3, <1>4, <1>5, <1>6, <1>7, <1>8, <1>9, <1>10, <1>11, StageNumbers
     DEF Next, SourceStep, Stage, Worker, CombineStep

\* CombineResults receives the hash of one more input.
LEMMA CollectOne ==
  ASSUME CollectInv, NEW i \in Items, i \notin Taken, Taken' = Taken \cup {i},
         unsortedResults' = Append(unsortedResults, HashOf(Input[i]))
  PROVE  CollectInv'
<1>1. PICK q \in [1 .. Len(unsortedResults) -> Taken] :
        /\ \A m, n \in DOMAIN q : q[m] = q[n] => m = n
        /\ \A j \in Taken : \E n \in DOMAIN q : q[n] = j
        /\ unsortedResults = [n \in DOMAIN q |-> HashOf(Input[q[n]])]
  BY DEF CollectInv
<1> DEFINE N == Len(unsortedResults)
           r == [n \in 1 .. N + 1 |-> IF n = N + 1 THEN i ELSE q[n]]
           H(j) == HashOf(Input[j])
<1>2. N \in Nat
  BY DEF CollectInv
<1>3. DOMAIN q = 1 .. N
  OBVIOUS
<1>4. unsortedResults \in Seq({H(j) : j \in Taken})
  BY <1>1, <1>2, <1>3
<1>5. unsortedResults' = [n \in 1 .. N + 1 |-> IF n = N + 1 THEN H(i) ELSE unsortedResults[n]]
  <2> HIDE DEF H
  <2> QED
    BY <1>2, <1>4 DEF H
<1>6. unsortedResults' = [n \in DOMAIN r |-> H(r[n])]
  <2>1. DOMAIN r = 1 .. N + 1
    OBVIOUS
  <2>2. \A n \in 1 .. N + 1 : H(r[n]) = IF n = N + 1 THEN H(i) ELSE unsortedResults[n]
    BY <1>1, <1>2, <1>3
  <2> HIDE DEF H, r, N
  <2> QED
    BY <1>5, <2>1, <2>2
<1>7. Len(unsortedResults') = N + 1
  BY <1>2, <1>5
<1>8. /\ r \in [1 .. N + 1 -> Taken'] /\ DOMAIN r = 1 .. N + 1
      /\ \A m, n \in DOMAIN r : r[m] = r[n] => m = n
      /\ \A j \in Taken' : \E n \in DOMAIN r : r[n] = j
  <2>1. r \in [1 .. N + 1 -> Taken']
    BY <1>2, <1>3
  <2>2. \A m, n \in 1 .. N + 1 : r[m] = r[n] => m = n
    <3>1. \A n \in 1 .. N : n \in 1 .. N + 1 /\ r[n] = q[n] /\ q[n] # i
      BY <1>2, <1>3
    <3>2. r[N + 1] = i /\ \A n \in 1 .. N + 1 : n = N + 1 \/ n \in 1 .. N
      BY <1>2
    <3>3. \A m, n \in 1 .. N : q[m] = q[n] => m = n
      BY <1>1, <1>3
    <3> HIDE DEF r, N
    <3> QED
      BY <3>1, <3>2, <3>3
  <2>3. ASSUME NEW j \in Taken' PROVE \E n \in 1 .. N + 1 : r[n] = j
    <3>1. CASE j = i
      BY <1>2, <3>1
    <3>2. CASE j \in Taken
      <4>1. PICK n \in 1 .. N : q[n] = j
        BY <1>1, <1>3, <3>2
      <4>2. n \in 1 .. N + 1 /\ r[n] = j
        BY <1>2, <4>1
      <4> QED
        BY <4>2
    <3> QED
      BY <2>3, <3>1, <3>2
  <2> QED
    BY <2>1, <2>2, <2>3
<1>9. Len(unsortedResults') \in Nat /\ r \in [1 .. Len(unsortedResults') -> Taken']
  BY <1>2, <1>7, <1>8
<1> HIDE DEF r, N
<1> QED
  BY <1>6, <1>8, <1>9 DEF CollectInv

\* Every step keeps what CombineResults has in line with what it has received.
LEMMA CollectStep == IInv /\ CollectInv /\ [Next]_vars => CollectInv'
<1> SUFFICES ASSUME IInv, CollectInv, [Next]_vars PROVE CollectInv'
  OBVIOUS
<1>0. TypeOK /\ DOMAIN chan = Stages
  BY DEF IInv, DomainInv
<1>1. CASE Collect
  <2>1. /\ chan[Multi] # <<>> /\ Received(Combine) = Head(chan[Multi])
        /\ chan' = [chan EXCEPT ![Multi] = Tail(@)]
        /\ unsortedResults' = Append(unsortedResults, Received(Combine).val)
        /\ UNCHANGED pc
    <3>1. Combine - 1 = Multi
      BY StageNumbers
    <3> QED
      BY <1>1, <3>1 DEF Collect, CanReceive, Received, Receive, workerVars
  <2>2. PICK i \in Items : chan[Multi] = <<Message(Multi, i)>> /\ Left(Multi, i)
    BY <2>1 DEF IInv, ChanInv
  <2>3. Received(Combine).val = HashOf(Input[i])
    <3>1. Received(Combine).val = ValueOf(Multi, i)
      BY <2>1, <2>2 DEF Message
    <3> QED
      BY <3>1, StageNumbers DEF ValueOf
  <2>4. chan'[Multi] = <<>>
    BY <1>0, <2>1, <2>2, StageNumbers
  <2>5. pc[<<Multi, i>>] \in {"emitted", "done"}
    BY <2>2, StageNumbers DEF Left
  <2>6. Taken' = {j \in Items : pc[<<Multi, j>>] \in {"emitted", "done"}}
    <3>1. \A j \in Items : chan'[Multi] # <<Message(Multi, j)>>
      BY <2>4, MessageShape
    <3> QED
      BY <2>1, <3>1 DEF Taken, Message, ValueOf
  <2>7. Taken = {j \in Items : pc[<<Multi, j>>] \in {"emitted", "done"}} \ {i}
    <3>1. \A j \in Items : chan[Multi] = <<Message(Multi, j)>> <=> j = i
      BY <2>2, MessageShape
    <3> QED
      BY <3>1 DEF Taken
  <2>8. i \notin Taken /\ Taken' = Taken \cup {i}
    BY <2>5, <2>6, <2>7
  <2> QED
    BY <2>1, <2>3, <2>8, CollectOne
<1>2. ASSUME NEW w \in Workers, Emit(w) PROVE CollectInv'
  <2>1. /\ pc[w] = "emit" /\ UNCHANGED unsortedResults
        /\ \A v \in Workers : pc'[v] = IF v = w THEN "emitted" ELSE pc[v]
    BY <1>0, <1>2, GotoPc DEF Emit
  <2>2. SendTo(w[1], Message(w[1], w[2])) /\ ~closed[w[1]]
    BY <1>2, <2>1, ResultRight, OpenChannel DEF Emit, Message
  <2>3. w[1] \in {Single, Multi} /\ w[2] \in Items /\ w = <<w[1], w[2]>> /\ w[1] \in Stages
        /\ Multi \in Stages
    BY WorkerShape, StageNumbers
  <2>4. /\ chan[w[1]] = <<>> /\ chan'[w[1]] = <<Message(w[1], w[2])>>
        /\ \A j \in Stages \ {w[1]} : chan'[j] = chan[j]
    BY <2>2, <2>3, SendOpen
  <2>5. Taken' = Taken
    <3>1. CASE w[1] # Multi
      <4>1. chan'[Multi] = chan[Multi] /\ \A j \in Items : <<Multi, j>> # w
        BY <2>3, <2>4, <3>1, NextWorkers
      <4>2. \A j \in Items : pc'[<<Multi, j>>] = pc[<<Multi, j>>]
        BY <2>1, <4>1, NextWorkers
      <4> QED
        BY <4>1, <4>2, TakenFrame
    <3>2. CASE w[1] = Multi
      <4>1. \A j \in Items : chan[Multi] # <<Message(Multi, j)>>
        BY <2>4, <3>2, MessageShape
      <4>2. \A j \in Items : chan'[Multi] = <<Message(Multi, j)>> <=> j = w[2]
        BY <2>4, <3>2, MessageShape
      <4>3. \A j \in Items : pc'[<<Multi, j>>] = IF j = w[2] THEN "emitted" ELSE pc[<<Multi, j>>]
        BY <2>1, <2>3, <3>2, NextWorkers
      <4>4. pc[<<Multi, w[2]>>] = "emit"
        BY <2>1, <2>3, <3>2
      <4>5. \A j \in Items :
              (pc'[<<Multi, j>>] \in {"emitted", "done"} /\ chan'[Multi] # <<Message(Multi, j)>>)
                <=> (pc[<<Multi, j>>] \in {"emitted", "done"} /\ chan[Multi] # <<Message(Multi, j)>>)
        BY <4>1, <4>2, <4>3, <4>4
      <4> QED
        BY <4>5 DEF Taken, Message, ValueOf
    <3> QED
      BY <3>1, <3>2
  <2> QED
    BY <2>1, <2>5, CollectFrame
<1>3. ASSUME NEW w \in Workers,
             StartCrcs(w) \/ LockMd5(w) \/ OverheatLock(w) \/ OverheatUnlock(w)
               \/ UnlockMd5(w) \/ WaitCrcs(w) \/ DoneWorker(w)
      PROVE  CollectInv'
  <2>1. UNCHANGED <<chan, unsortedResults>>
    BY <1>3 DEF StartCrcs, LockMd5, OverheatLock, OverheatUnlock, UnlockMd5, WaitCrcs,
                DoneWorker, stageVars
  <2>2. \A v \in Workers : pc'[v] \in {"emitted", "done"} <=> pc[v] \in {"emitted", "done"}
    BY <1>0, <1>3, GotoPc
       DEF StartCrcs, LockMd5, OverheatLock, OverheatUnlock, UnlockMd5, WaitCrcs, DoneWorker
  <2> QED
    BY <2>1, <2>2, NextWorkers, TakenFrame, CollectFrame
<1>4. ASSUME NEW k \in HashStages, StartWorker(k) PROVE CollectInv'
  <2>1. PICK i \in Items :
          /\ pc[<<k, i>>] = "none"
          /\ \A j \in Stages \ {k - 1} : chan'[j] = chan[j]
          /\ \A v \in Workers : pc'[v] = IF v = <<k, i>> THEN "start" ELSE pc[v]
    BY <1>4, TakeMessage
  <2>2. chan'[Multi] = chan[Multi] /\ UNCHANGED unsortedResults
    BY <1>4, <2>1, StageNumbers DEF StartWorker
  <2>3. \A v \in Workers : pc'[v] \in {"emitted", "done"} <=> pc[v] \in {"emitted", "done"}
    BY <2>1
  <2> QED
    BY <2>2, <2>3, NextWorkers, TakenFrame, CollectFrame
<1>5. ASSUME UNCHANGED <<pc, unsortedResults>>, chan'[Multi] = chan[Multi] PROVE CollectInv'
  BY <1>5, TakenFrame, CollectFrame
<1>6. CASE SourceStep \/ UNCHANGED vars
  <2>1. UNCHANGED <<pc, unsortedResults>>
    BY <1>6 DEF SourceStep, SourceSend, SourceReturn, workerVars, vars
  <2>2. chan'[Multi] = chan[Multi]
    BY <1>0, <1>6, StageNumbers DEF SourceStep, SourceSend, SourceReturn, SendTo, vars
  <2> QED
    BY <1>5, <2>1, <2>2
<1>7. ASSUME NEW k \in Stages, EndRange(k) \/ WaitWorkers(k) PROVE CollectInv'
  BY <1>5, <1>7 DEF EndRange, WaitWorkers, workerVars
<1>8. ASSUME NEW w \in Workers, NEW x \in Places(w[1]), MyCrc32(w, x) PROVE CollectInv'
  BY <1>5, <1>8 DEF MyCrc32, SendCrc, DoneCrc, stageVars
<1>9. CASE SendCombined \/ SinkStep
  <2>1. UNCHANGED <<pc, unsortedResults>>
    BY <1>9 DEF SendCombined, SinkStep, SinkReceive, SinkReturn, workerVars
  <2>2. chan'[Multi] = chan[Multi]
    <3>1. \/ chan' = chan
          \/ chan' = [chan EXCEPT ![Combine] = Append(@, [item |-> 1, val |-> Combined])]
          \/ chan' = [chan EXCEPT ![Sink - 1] = Tail(@)]
      BY <1>9 DEF SendCombined, SendTo, SinkStep, SinkReceive, SinkReturn, Receive
    <3> QED
      BY <1>0, <3>1, StageNumbers
  <2> QED
    BY <1>5, <2>1, <2>2
<1> QED
  BY <1>1, <1>2, <1>3, <1>4, <1>6, <1>7, <1>8, <1>9, StageNumbers
     DEF Next, SourceStep, Stage, Worker, CombineStep

\* Every step keeps the sink's value the one CombineResults sends.
LEMMA OutputStep == IInv /\ OutputInv /\ [Next]_vars => OutputInv'
<1> SUFFICES ASSUME IInv, OutputInv, [Next]_vars PROVE OutputInv'
  OBVIOUS
<1>0. /\ DOMAIN chan = Stages /\ at \in [Stages -> StageStates] /\ Combine \in Stages
  BY StageNumbers DEF IInv, DomainInv, TypeOK
<1>1. CASE SinkReceive
  <2>1. /\ chan[Combine] # <<>> /\ Received(Sink) = Head(chan[Combine])
        /\ chan' = [chan EXCEPT ![Combine] = Tail(@)]
        /\ output' = Append(output, Received(Sink).val)
        /\ UNCHANGED unsortedResults
        /\ at' = at \/ at' = [at EXCEPT ![Sink] = "returned"]
    <3>1. Sink - 1 = Combine
      BY StageNumbers
    <3> QED
      BY <1>1, <3>1 DEF SinkReceive, CanReceive, Received, Receive, Return
  <2>2. at[Combine] = "returned" /\ chan[Combine] = <<[item |-> 1, val |-> Combined]>>
    BY <2>1 DEF IInv, ChanInv
  <2>3. output = <<>>
    BY <2>1 DEF OutputInv
  <2>4. output' = <<Combined>> /\ chan'[Combine] = <<>> /\ at'[Combine] = "returned"
    BY <1>0, <2>1, <2>2, <2>3, StageNumbers
  <2> QED
    BY <2>1, <2>4 DEF OutputInv, Combined
<1>2. CASE Collect \/ SendCombined
  <2>1. at[Combine] # "returned" /\ UNCHANGED output
    BY <1>2 DEF Collect, SendCombined
  <2> QED
    BY <2>1 DEF OutputInv
<1>3. CASE SourceStep \/ SinkReturn \/ UNCHANGED vars
  <2>1. UNCHANGED <<output, unsortedResults>> /\ at'[Combine] = at[Combine]
    BY <1>0, <1>3, StageNumbers
       DEF SourceStep, SourceSend, SourceReturn, SinkReturn, Return, vars
  <2>2. chan'[Combine] = chan[Combine]
    BY <1>0, <1>3, StageNumbers
       DEF SourceStep, SourceSend, SourceReturn, SendTo, SinkReturn, vars
  <2> QED
    BY <2>1, <2>2, OutputFrame
<1>4. ASSUME NEW k \in {Single, Multi, Combine}, EndRange(k) \/ (k \in HashStages /\ WaitWorkers(k))
      PROVE  OutputInv'
  <2>1. UNCHANGED <<output, unsortedResults, chan>>
    BY <1>4 DEF EndRange, WaitWorkers
  <2>2. at[Combine] = "returned" => at'[Combine] = "returned"
    BY <1>0, <1>4, StageNumbers DEF EndRange, WaitWorkers, Return
  <2> QED
    BY <2>1, <2>2, OutputFrame
<1>5. ASSUME NEW k \in HashStages, StartWorker(k) PROVE OutputInv'
  <2>1. UNCHANGED <<output, unsortedResults, at>> /\ chan' = [chan EXCEPT ![k - 1] = Tail(@)]
    BY <1>5 DEF StartWorker, Receive
  <2>2. chan'[Combine] = chan[Combine]
    BY <1>0, <2>1, StageNumbers
  <2> QED
    BY <2>1, <2>2, OutputFrame
<1>6. ASSUME NEW w \in Workers, Worker(w) PROVE OutputInv'
  <2>1. UNCHANGED <<output, unsortedResults, at>>
    BY <1>6 DEF Worker, StartCrcs, LockMd5, OverheatLock, OverheatUnlock, UnlockMd5, WaitCrcs,
                Emit, DoneWorker, stageVars
  <2>2. chan'[Combine] = chan[Combine]
    <3>1. CASE Emit(w)
      BY <1>0, <3>1, WorkerShape, StageNumbers DEF Emit, SendTo
    <3>2. CASE ~Emit(w)
      BY <1>6, <3>2 DEF Worker, StartCrcs, LockMd5, OverheatLock, OverheatUnlock, UnlockMd5,
                        WaitCrcs, DoneWorker, stageVars
    <3> QED
      BY <3>1, <3>2
  <2> QED
    BY <2>1, <2>2, OutputFrame
<1>7. ASSUME NEW w \in Workers, NEW x \in Places(w[1]), MyCrc32(w, x) PROVE OutputInv'
  BY <1>7, OutputFrame DEF MyCrc32, SendCrc, DoneCrc, stageVars
<1> QED
  BY <1>1, <1>2, <1>3, <1>4, <1>5, <1>6, <1>7, StageNumbers
     DEF Next, Stage, CombineStep, SinkStep

\* Nothing is lost in any behaviour.
THEOREM Delivery == Spec => [](IInv /\ DeliveryInv)
<1>1. Init => IInv /\ DeliveryInv
  BY InitInv, InitDelivery
<1>2. (IInv /\ DeliveryInv) /\ IInv' /\ [Next]_vars => DeliveryInv'
  BY FlowStep, CollectStep, OutputStep DEF DeliveryInv
<1> QED
  BY <1>1, <1>2, Invariance, PTL DEF Spec

\* When CombineResults leaves its range, every input has been sent and the hash
\* of every input received.
LEMMA AllTaken ==
  ASSUME IInv, FlowInv, at[Combine] # "range"
  PROVE  sent = Len(Input) /\ Taken = Items
<1>1. chan[Multi] = <<>> /\ at[Multi] = "returned"
  <2>1. Combine - 1 = Multi
    BY StageNumbers
  <2> QED
    BY <2>1 DEF FlowInv
<1>2. chan[Single] = <<>> /\ at[Single] = "returned"
  <2>1. Multi - 1 = Single
    BY StageNumbers
  <2> QED
    BY <1>1, <2>1 DEF FlowInv
<1>3. chan[Source] = <<>> /\ at[Source] = "returned"
  <2>1. Single - 1 = Source
    BY StageNumbers
  <2> QED
    BY <1>2, <2>1 DEF FlowInv
<1>4. sent = Len(Input)
  BY <1>3 DEF FlowInv
<1>5. \A w \in Workers : pc[w] \in {"none", "done"}
  <2>1. Active(Single) = {} /\ Active(Multi) = {}
    BY <1>1, <1>2, StageNumbers DEF IInv, StageInv
  <2> QED
    BY <2>1, WorkerShape, StageNumbers DEF Active
<1>6. ASSUME NEW i \in Items PROVE i \in Taken
  <2>1. Left(Source, i)
    BY <1>4, InputAssumption DEF Left, Items
  <2>2. pc[<<Single, i>>] = "done"
    <3>1. pc[<<Source + 1, i>>] # "none"
      BY <1>3, <2>1, MessageShape DEF FlowInv
    <3> QED
      BY <1>5, <3>1, NextWorkers
  <2>3. Left(Single, i)
    BY <2>2, StageNumbers DEF Left
  <2>4. pc[<<Multi, i>>] = "done"
    <3>1. pc[<<Single + 1, i>>] # "none"
      BY <1>2, <2>3, MessageShape DEF FlowInv
    <3> QED
      BY <1>5, <3>1, NextWorkers
  <2> QED
    BY <1>1, <2>4, MessageShape DEF Taken
<1> QED
  BY <1>4, <1>6 DEF Taken

\* Two sequences with the same values, in whatever order, have the same arrangements.
LEMMA SameArrangements ==
  ASSUME NEW D, NEW h, NEW s, NEW q \in [D -> D],
         DOMAIN h = D, s = [n \in D |-> h[q[n]]],
         \A i, j \in D : q[i] = q[j] => i = j,
         \A i \in D : \E j \in D : q[j] = i
  PROVE  Arrangements(s) = Arrangements(h)
<1> DEFINE Orders == {p \in [D -> D] : \A i, j \in D : p[i] = p[j] => i = j}
<1>1. Arrangements(s) = {[k \in D |-> s[p[k]]] : p \in Orders}
  BY DEF Arrangements
<1>2. Arrangements(h) = {[k \in D |-> h[p[k]]] : p \in Orders}
  BY DEF Arrangements
<1>3. ASSUME NEW p \in Orders PROVE \E r \in Orders : [k \in D |-> s[p[k]]] = [k \in D |-> h[r[k]]]
  <2> DEFINE r == [k \in D |-> q[p[k]]]
  <2>1. r \in Orders
    <3>1. r \in [D -> D]
      OBVIOUS
    <3>2. ASSUME NEW i \in D, NEW j \in D, r[i] = r[j] PROVE i = j
      <4>1. p[i] \in D /\ p[j] \in D /\ q[p[i]] = q[p[j]]
        BY <3>2
      <4>2. p[i] = p[j]
        BY <4>1
      <4> QED
        BY <4>2
    <3> HIDE DEF r
    <3> QED
      BY <3>1, <3>2
  <2>2. \A k \in D : s[p[k]] = h[r[k]]
    OBVIOUS
  <2> HIDE DEF r, Orders
  <2> QED
    BY <2>1, <2>2
<1>4. ASSUME NEW p \in Orders PROVE \E r \in Orders : [k \in D |-> h[p[k]]] = [k \in D |-> s[r[k]]]
  <2> DEFINE Back(i) == CHOOSE j \in D : q[j] = i
             r == [k \in D |-> Back(p[k])]
  <2>1. \A i \in D : Back(i) \in D /\ q[Back(i)] = i
    OBVIOUS
  <2>2. r \in Orders
    <3>1. r \in [D -> D]
      <4> HIDE DEF Back
      <4> QED
        BY <2>1
    <3>2. ASSUME NEW i \in D, NEW j \in D, r[i] = r[j] PROVE i = j
      <4>1. Back(p[i]) = Back(p[j]) /\ p[i] \in D /\ p[j] \in D
        BY <3>2
      <4>2. p[i] = p[j]
        <5> HIDE DEF Back
        <5> QED
          BY <2>1, <4>1
      <4> QED
        BY <4>2
    <3> HIDE DEF r
    <3> QED
      BY <3>1, <3>2
  <2>3. \A k \in D : h[p[k]] = s[r[k]]
    <3> HIDE DEF Back
    <3> QED
      BY <2>1
  <2> HIDE DEF r, Orders
  <2> QED
    BY <2>2, <2>3
<1> HIDE DEF Orders
<1> QED
  <2>1. ASSUME NEW t \in Arrangements(s) PROVE t \in Arrangements(h)
    <3>1. PICK p \in Orders : t = [k \in D |-> s[p[k]]]
      BY <1>1
    <3>2. PICK r \in Orders : t = [k \in D |-> h[r[k]]]
      BY <1>3, <3>1
    <3> QED
      BY <1>2, <3>2
  <2>2. ASSUME NEW t \in Arrangements(h) PROVE t \in Arrangements(s)
    <3>1. PICK p \in Orders : t = [k \in D |-> h[p[k]]]
      BY <1>2
    <3>2. PICK r \in Orders : t = [k \in D |-> s[r[k]]]
      BY <1>4, <3>1
    <3> QED
      BY <1>1, <3>2
  <2> QED
    BY <2>1, <2>2

Hashes == [i \in DOMAIN Input |-> HashOf(Input[i])]

\* What CombineResults sends is the hashes of all inputs, sorted.
LEMMA CombinedRight ==
  ASSUME CollectInv, Taken = Items
  PROVE  Combined = Sorted(Hashes, Less)
<1>1. PICK q :
        /\ q \in [1 .. Len(unsortedResults) -> Items]
        /\ \A m, n \in DOMAIN q : q[m] = q[n] => m = n
        /\ \A i \in Items : \E n \in DOMAIN q : q[n] = i
        /\ unsortedResults = [n \in DOMAIN q |-> HashOf(Input[q[n]])]
  BY DEF CollectInv
<1>2. /\ DOMAIN Input = Items /\ Items = 1 .. Len(Input) /\ Len(Input) \in Nat
      /\ DOMAIN q = 1 .. Len(unsortedResults) /\ Len(unsortedResults) \in Nat
  BY <1>1, InputAssumption DEF Items, CollectInv
<1>3. Len(unsortedResults) = Len(Input)
  <2>1. q \in Bijection(DOMAIN q, Items)
    BY <1>1, <1>2 DEF Bijection, Injection, Surjection, IsInjective
  <2>a. ASSUME NEW n \in Nat PROVE IsFiniteSet(1 .. n) /\ Cardinality(1 .. n) = n
    <3>1. Cardinality(1 .. n) = IF 1 > n THEN 0 ELSE n - 1 + 1
      BY FS_Interval
    <3> QED
      BY <3>1, FS_Interval
  <2>2. IsFiniteSet(DOMAIN q) /\ Cardinality(DOMAIN q) = Len(unsortedResults)
    BY <1>2, <2>a
  <2>3. Cardinality(Items) = Len(Input)
    BY <1>2, <2>a
  <2>4. ExistsBijection(DOMAIN q, Items)
    BY <2>1 DEF ExistsBijection
  <2>5. Cardinality(Items) = Cardinality(DOMAIN q)
    BY <2>2, <2>4, FS_Bijection
  <2> QED
    BY <2>2, <2>3, <2>5
<1>4. DOMAIN q = Items /\ q \in [Items -> Items] /\ DOMAIN Hashes = Items
  BY <1>1, <1>2, <1>3 DEF Hashes
<1>5. unsortedResults = [n \in Items |-> Hashes[q[n]]]
  BY <1>1, <1>2, <1>4 DEF Hashes
<1>6. Arrangements(unsortedResults) = Arrangements(Hashes)
  <2>1. \A i, j \in Items : q[i] = q[j] => i = j
    BY <1>1, <1>4
  <2>2. \A i \in Items : \E j \in Items : q[j] = i
    BY <1>1, <1>4
  <2> QED
    BY <1>4, <1>5, <2>1, <2>2, SameArrangements
<1> QED
  BY <1>6 DEF Combined, Sorted

\* What Signature delivers is the hashes of all inputs, sorted.
LEMMA PromiseJoined == Promise!Joined = Sorted(Hashes, Less)
<1>1. \A v : Promise!HashOf(v) = HashOf(v)
  BY DEF Promise!HashOf, Promise!MultiHashOf, Promise!SingleHashOf, Promise!Data, Promise!Md5,
         Promise!Crc32, Promise!Prefixed, HashOf, MultiHashOf, SingleHashOf, Data, Md5, Crc32,
         Prefixed
<1>2. Promise!Hashes = Hashes
  BY <1>1 DEF Promise!Hashes, Hashes
<1>3. Promise!Arrangements(Hashes) = Arrangements(Hashes)
  BY DEF Promise!Arrangements, Arrangements
<1> QED
  BY <1>2, <1>3 DEF Promise!Joined, Promise!Sorted, Sorted

\* A step of the pipeline takes an input, delivers the sorted hashes, or neither.
LEMMA PromiseStep ==
  IInv /\ DeliveryInv /\ [Next]_vars => [Promise!Take \/ Promise!Deliver]_<<sent, output>>
<1> SUFFICES ASSUME IInv, DeliveryInv, [Next]_vars
             PROVE  [Promise!Take \/ Promise!Deliver]_<<sent, output>>
  OBVIOUS
<1>1. CASE SourceSend
  BY <1>1 DEF SourceSend, Promise!Take
<1>2. CASE SinkReceive
  <2>1. /\ chan[Combine] # <<>> /\ Received(Sink) = Head(chan[Combine])
        /\ output' = Append(output, Received(Sink).val)
        /\ UNCHANGED sent
    <3>1. Sink - 1 = Combine
      BY StageNumbers
    <3> QED
      BY <1>2, <3>1 DEF SinkReceive, CanReceive, Received
  <2>2. at[Combine] = "returned" /\ chan[Combine] = <<[item |-> 1, val |-> Combined]>>
    BY <2>1 DEF IInv, ChanInv
  <2>3. output = <<>> /\ output' = <<Combined>>
    BY <2>1, <2>2 DEF DeliveryInv, OutputInv
  <2>4. sent = Len(Input) /\ Combined = Promise!Joined
    BY <2>2, AllTaken, CombinedRight, PromiseJoined DEF DeliveryInv
  <2> QED
    BY <2>1, <2>3, <2>4 DEF Promise!Deliver
<1>3. CASE UNCHANGED <<sent, output>>
  BY <1>3
<1>4. CASE SourceReturn \/ CombineStep \/ SinkReturn \/ UNCHANGED vars
  BY <1>3, <1>4 DEF SourceReturn, CombineStep, EndRange, Collect, SendCombined, SinkReturn, vars
<1>5. ASSUME NEW k \in HashStages, Stage(k) PROVE UNCHANGED <<sent, output>>
  BY <1>5 DEF Stage, StartWorker, EndRange, WaitWorkers
<1>6. ASSUME NEW w \in Workers, Worker(w) PROVE UNCHANGED <<sent, output>>
  BY <1>6 DEF Worker, StartCrcs, LockMd5, OverheatLock, OverheatUnlock, UnlockMd5, WaitCrcs,
              Emit, DoneWorker, stageVars
<1>7. ASSUME NEW w \in Workers, NEW x \in Places(w[1]), MyCrc32(w, x)
      PROVE  UNCHANGED <<sent, output>>
  BY <1>7 DEF MyCrc32, SendCrc, DoneCrc, stageVars
<1> QED
  BY <1>1, <1>2, <1>3, <1>4, <1>5, <1>6, <1>7 DEF Next, SourceStep, SinkStep

\* The pipeline implements its promise: whatever the goroutines do, it takes its
\* inputs one by one and then delivers one value, their sorted hashes.
THEOREM SignatureRefinement == Spec => ImplementsSignature
<1>1. Init => Promise!SignatureInit
  BY DEF Init, Promise!SignatureInit
<1> QED
  BY <1>1, PromiseStep, Delivery, PTL DEF Spec, ImplementsSignature, Promise!SignatureSpec

\* Any order of strings sorts the hashes: no value stands behind a greater one.
LEMMA JoinedRight ==
  /\ Promise!Joined \in Arrangements(Hashes)
  /\ \A i, j \in DOMAIN Promise!Joined :
       i < j => ~Less(Promise!Joined[j], Promise!Joined[i])
<1> DEFINE V == {HashOf(Input[i]) : i \in Items}
           R == {x \in V \X V : Less(x[1], x[2])}
           n == Len(Input)
<1>1. n \in Nat /\ Items = 1 .. n /\ DOMAIN Input = 1 .. n
  BY InputAssumption DEF Items
<1>2. Hashes \in [1 .. n -> V]
  BY <1>1 DEF Hashes
<1>3. R \in SUBSET (V \X V) /\ \A x, y \in V : <<x, y>> \in R <=> Less(x, y)
  <2> HIDE DEF V
  <2> QED
    OBVIOUS
<1>4. \A x \in V : ~Less(x, x)
  BY LessAssumption
<1>5. \A x, y, z \in V : Less(x, y) /\ Less(y, z) => Less(x, z)
  BY LessAssumption
<1> HIDE DEF V, R, n
<1>6. \E t \in Arrangements(Hashes) : \A i, j \in DOMAIN t : i < j => <<t[j], t[i]>> \notin R
  <2>1. \A x \in V : <<x, x>> \notin R
    BY <1>3, <1>4
  <2>2. \A x, y, z \in V : <<x, y>> \in R /\ <<y, z>> \in R => <<x, z>> \in R
    BY <1>3, <1>5
  <2> QED
    BY <1>1, <1>2, <1>3, <2>1, <2>2, Sortable
<1>7. \A t \in Arrangements(Hashes) : DOMAIN t = 1 .. n /\ \A i \in DOMAIN t : t[i] \in V
  <2>1. DOMAIN Hashes = 1 .. n /\ \A i \in 1 .. n : Hashes[i] \in V
    BY <1>2
  <2> QED
    BY <2>1 DEF Arrangements
<1>8. \E t \in Arrangements(Hashes) : \A i, j \in DOMAIN t : i < j => ~Less(t[j], t[i])
  BY <1>3, <1>6, <1>7
<1> DEFINE s == Sorted(Hashes, Less)
<1>9. s \in Arrangements(Hashes) /\ \A i, j \in DOMAIN s : i < j => ~Less(s[j], s[i])
  BY <1>8 DEF Sorted
<1> HIDE DEF s
<1>10. Promise!Joined = s
  BY PromiseJoined DEF s
<1> QED
  BY <1>9, <1>10, Zenon

\* What the sink has received is the hashes of all inputs, each in the place the order
\* of the strings gives it, whatever the goroutines did.
THEOREM DeliveredInOrder ==
  Spec => [](\A n \in DOMAIN output :
               /\ output[n] \in Arrangements(Hashes)
               /\ \A i, j \in DOMAIN output[n] : i < j => ~Less(output[n][j], output[n][i]))
<1> DEFINE InOrder == \A n \in DOMAIN output :
             /\ output[n] \in Arrangements(Hashes)
             /\ \A i, j \in DOMAIN output[n] : i < j => ~Less(output[n][j], output[n][i])
<1>1. IInv /\ DeliveryInv => InOrder
  <2> SUFFICES ASSUME IInv, DeliveryInv, NEW n \in DOMAIN output
               PROVE  /\ output[n] \in Arrangements(Hashes)
                      /\ \A i, j \in DOMAIN output[n] :
                           i < j => ~Less(output[n][j], output[n][i])
    OBVIOUS
  <2>1. output = <<Combined>> /\ at[Combine] = "returned"
    <3>1. output # <<>>
      OBVIOUS
    <3> QED
      BY <3>1 DEF DeliveryInv, OutputInv
  <2>2. Combined = Promise!Joined
    BY <2>1, AllTaken, CombinedRight, PromiseJoined DEF DeliveryInv
  <2>3. output[n] = Promise!Joined
    <3>1. \A v : \A x \in DOMAIN <<v>> : <<v>>[x] = v
      OBVIOUS
    <3> QED
      BY <2>1, <2>2, <3>1, Zenon
  <2> QED
    BY <2>3, JoinedRight, Zenon
<1>2. Spec => [](IInv /\ DeliveryInv)
  BY Delivery
<1> QED
  BY <1>1, <1>2, PTL
-----------------------------------------------------------------------------
(***************************************************************************)
(* Progress.  Terminates and Flows need fairness; the two facts about      *)
(* states and steps they rest on do not: a goroutine that waits waits for  *)
(* one that can go on, and no goroutine goes back.                         *)
(***************************************************************************)

\* A send on the channel of stage k does not block.
Room(k) == closed[k] \/ Len(chan[k]) < Capacity

WorkerCanGo(w) ==
  \/ pc[w] \in {"start", "md5", "hashing", "unlock", "emitted"}
  \/ pc[w] = "lock" /\ MuFree
  \/ pc[w] = "wait" /\ CrcsDone(w)
  \/ pc[w] = "emit" /\ Room(w[1])
  \/ \E x \in Places(w[1]) : crc[w][x] \in {"running", "sent"}

StageCanGo(k) ==
  \/ k # Source /\ at[k] = "range" /\ (CanReceive(k) \/ Drained(k))
  \/ at[k] = "wait" /\ wg[k] = 0
  \/ at[k] = "emit" /\ Room(k)

\* Some goroutine other than the source's does not block.
CanGo == (\E k \in Stages : StageCanGo(k)) \/ (\E w \in Workers : WorkerCanGo(w))

\* All of them block only when ExecutePipeline is about to return, or when the source,
\* which could send, keeps them waiting and CombineResults has all it has sent.
NoStall ==
  \/ CanGo
  \/ \A k \in Stages : at[k] = "returned"
  \/ at[Source] = "range" /\ Room(Source) /\ Len(unsortedResults) = sent

\* Where the stages without workers can be, and those with.
StagePlaces ==
  /\ at[Source] \in {"range", "returned"} /\ at[Sink] \in {"range", "returned"}
  /\ at[Combine] # "wait"
  /\ \A k \in HashStages : at[k] # "emit"

\* Whoever holds the mutex is between Lock and Unlock.
Holder == mu # None => pc[<<Single, mu>>] \in {"md5", "hashing", "unlock"}

\* A worker that waits for its crc32 goroutines has started them all.
CrcsStarted ==
  \A w \in Workers : \A x \in Places(w[1]) :
    crc[w][x] = "none" =>
      \/ pc[w] \in {"none", "start"}
      \/ pc[w] \in {"lock", "md5", "hashing", "unlock"} /\ x = 1

StartedInv == StagePlaces /\ Holder /\ CrcsStarted

\* A hash stage behind which there is room and that is still open has no worker and no
\* input left when nothing can go on: whoever waits for the mutex waits for its holder,
\* whoever waits for wg2 for a crc32 goroutine.
LEMMA IdleHashStage ==
  ASSUME IInv, StartedInv, ~CanGo, NEW k \in HashStages, chan[k] = <<>>, ~closed[k]
  PROVE  /\ \A i \in Items : pc[<<k, i>>] \in {"none", "done"}
         /\ chan[k - 1] = <<>> /\ ~closed[k - 1]
<1>1. /\ k \in Stages /\ k # Source /\ Room(k)
      /\ \A i \in Items : <<k, i>> \in Workers /\ <<k, i>>[1] = k /\ <<Single, i>> \in Workers
  BY StageNumbers, WorkerShape, NextWorkers DEF Room
<1>2. \A w \in Workers : ~WorkerCanGo(w)
  BY DEF CanGo
<1>3. ~StageCanGo(k)
  BY <1>1 DEF CanGo
<1>4. MuFree
  <2>1. SUFFICES ASSUME mu # None PROVE FALSE
    BY DEF MuFree
  <2>2. mu \in Items /\ pc[<<Single, mu>>] \in {"md5", "hashing", "unlock"}
    BY <2>1 DEF StartedInv, Holder, IInv, TypeOK
  <2> QED
    BY <1>1, <1>2, <2>2 DEF WorkerCanGo
<1>5. ASSUME NEW i \in Items PROVE pc[<<k, i>>] \in {"none", "done"}
  <2> DEFINE w == <<k, i>>
  <2>1. w \in Workers /\ w[1] = k
    BY <1>1
  <2> HIDE DEF w
  <2>2. /\ pc[w] \in WorkerStates
        /\ \A x \in Places(w[1]) : crc[w][x] \in CrcStates
        /\ CrcOf(w)
    BY <2>1 DEF IInv, TypeOK, CrcInv
  <2>3. pc[w] # "wait"
    <3>1. SUFFICES ASSUME pc[w] = "wait" PROVE FALSE
      OBVIOUS
    <3>2. \A x \in Places(w[1]) : crc[w][x] \notin {"running", "sent"}
      BY <1>2, <2>1 DEF WorkerCanGo
    <3>3. \A x \in Places(w[1]) : crc[w][x] # "none"
      BY <2>1, <3>1 DEF StartedInv, CrcsStarted
    <3>4. Unfinished(w) = {}
      BY <2>2, <3>2, <3>3 DEF Unfinished, CrcStates
    <3>5. wg2[w] = 0
      BY <2>2, <3>1, <3>4, FS_EmptySet DEF CrcOf
    <3> QED
      BY <1>2, <2>1, <3>1, <3>5 DEF WorkerCanGo, CrcsDone
  <2>4. pc[w] \notin {"start", "lock", "md5", "hashing", "unlock", "emit", "emitted"}
    BY <1>1, <1>2, <1>4, <2>1 DEF WorkerCanGo
  <2>5. pc[w] \in {"none", "done"}
    BY <2>2, <2>3, <2>4 DEF WorkerStates
  <2> QED
    BY <2>5 DEF w
<1>6. at[k] = "range"
  <2>1. Active(k) = {}
    BY <1>5, WorkerShape DEF Active
  <2>2. wg[k] = 0
    BY <2>1, FS_EmptySet DEF IInv, StageInv
  <2>3. at[k] # "wait"
    BY <1>3, <2>2 DEF StageCanGo
  <2>4. at[k] # "returned" /\ at[k] \in StageStates
    BY <1>1 DEF IInv, StageInv, TypeOK
  <2>5. at[k] # "emit"
    BY DEF StartedInv, StagePlaces
  <2> QED
    BY <2>3, <2>4, <2>5 DEF StageStates
<1>7. ~CanReceive(k) /\ ~Drained(k)
  BY <1>1, <1>3, <1>6 DEF StageCanGo
<1> QED
  BY <1>5, <1>7 DEF CanReceive, Drained

\* CombineResults has received as many hashes as the source has sent inputs when no
\* channel and no worker holds one.
LEMMA AllCollected ==
  ASSUME IInv, FlowInv, CollectInv, \A w \in Workers : pc[w] \in {"none", "done"},
         chan[Source] = <<>>, chan[Single] = <<>>, chan[Multi] = <<>>
  PROVE  Len(unsortedResults) = sent
<1>1. sent \in 0 .. Len(Input) /\ Len(Input) \in Nat /\ Items = 1 .. Len(Input)
  BY InputAssumption DEF IInv, TypeOK, Items
<1>2. ASSUME NEW i \in Items, i <= sent PROVE i \in Taken
  <2>1. Left(Source, i)
    BY <1>2 DEF Left
  <2>2. pc[<<Single, i>>] = "done"
    <3>1. pc[<<Source + 1, i>>] # "none"
      BY <2>1, MessageShape DEF FlowInv
    <3> QED
      BY <3>1, NextWorkers
  <2>3. Left(Single, i)
    BY <2>2, StageNumbers DEF Left
  <2>4. pc[<<Multi, i>>] = "done"
    <3>1. pc[<<Single + 1, i>>] # "none"
      BY <2>3, MessageShape DEF FlowInv
    <3> QED
      BY <3>1, NextWorkers
  <2> QED
    BY <2>4, MessageShape DEF Taken
<1>3. ASSUME NEW i \in Taken PROVE i \in Items /\ i <= sent
  <2>1. i \in Items /\ pc[<<Multi, i>>] # "none"
    BY DEF Taken
  <2>2. pc[<<Single, i>>] # "none"
    BY <2>1 DEF IInv, ChanInv
  <2> QED
    BY <2>1, <2>2 DEF IInv, ChanInv
<1>4. Taken = 1 .. sent
  BY <1>1, <1>2, <1>3 DEF Taken
<1> DEFINE n == Len(unsortedResults)
<1>5. n \in Nat
  BY DEF CollectInv
<1>6. ExistsBijection(1 .. n, Taken)
  <2>1. PICK q \in [1 .. n -> Taken] :
          /\ \A a, b \in DOMAIN q : q[a] = q[b] => a = b
          /\ \A i \in Taken : \E a \in DOMAIN q : q[a] = i
    BY DEF CollectInv
  <2> HIDE DEF n
  <2>2. q \in Bijection(1 .. n, Taken)
    BY <2>1 DEF Bijection, Injection, Surjection, IsInjective
  <2> QED
    BY <2>2 DEF ExistsBijection
<1> HIDE DEF n
<1>7. Cardinality(Taken) = n
  BY <1>5, <1>6, FS_CountingElements
<1>8. Cardinality(1 .. sent) = IF 1 > sent THEN 0 ELSE sent - 1 + 1
  BY <1>1, FS_Interval
<1>9. n = sent
  BY <1>1, <1>4, <1>7, <1>8
<1> QED
  BY <1>9 DEF n

\* Seen from the last stage backwards, every stage waits for one that can go on.
LEMMA NeverWaitsInVain ==
  ASSUME IInv, DeliveryInv, StartedInv
  PROVE  NoStall
<1> SUFFICES ASSUME ~CanGo
             PROVE  \/ \A k \in Stages : at[k] = "returned"
                    \/ at[Source] = "range" /\ Room(Source) /\ Len(unsortedResults) = sent
  BY DEF NoStall
<1>1. \A k \in Stages : ~StageCanGo(k)
  BY DEF CanGo
<1>2. /\ Combine - 1 = Multi /\ Multi - 1 = Single /\ Single - 1 = Source /\ Sink - 1 = Combine
      /\ Combine # Source /\ Sink # Source /\ Capacity = 1
      /\ Source \in Stages /\ Combine \in Stages /\ Sink \in Stages /\ Multi \in Stages
      /\ Single \in HashStages /\ Multi \in HashStages
  BY StageNumbers
<1>3. \A k \in Stages : closed[k] <=> at[k] = "returned"
  BY DEF IInv, StageInv
<1>4. at[Combine] \in {"range", "emit", "returned"}
  BY <1>2 DEF IInv, TypeOK, StageStates, StartedInv, StagePlaces
<1>5. at[Combine] # "emit"
  <2>1. SUFFICES ASSUME at[Combine] = "emit" PROVE FALSE
    OBVIOUS
  <2>2. chan[Combine] = <<>>
    BY <2>1 DEF IInv, ChanInv
  <2>3. Room(Combine)
    BY <1>2, <2>2 DEF Room
  <2> QED
    BY <1>1, <1>2, <2>1, <2>3 DEF StageCanGo
<1>6. CASE at[Combine] = "returned"
  <2>1. at[Multi] = "returned"
    BY <1>2, <1>6 DEF DeliveryInv, FlowInv
  <2>2. at[Single] = "returned"
    BY <1>2, <2>1 DEF DeliveryInv, FlowInv
  <2>3. at[Source] = "returned"
    BY <1>2, <2>2 DEF DeliveryInv, FlowInv
  <2>4. at[Sink] = "returned"
    <3>1. CanReceive(Sink) \/ Drained(Sink)
      BY <1>2, <1>3, <1>6 DEF CanReceive, Drained
    <3>2. at[Sink] # "range"
      BY <1>1, <1>2, <3>1 DEF StageCanGo
    <3> QED
      BY <3>2 DEF StartedInv, StagePlaces
  <2> QED
    BY <1>6, <2>1, <2>2, <2>3, <2>4, StageNumbers
<1>7. CASE at[Combine] = "range"
  <2>1. chan[Multi] = <<>> /\ ~closed[Multi]
    <3>1. ~CanReceive(Combine) /\ ~Drained(Combine)
      BY <1>1, <1>2, <1>7 DEF StageCanGo
    <3> QED
      BY <1>2, <3>1 DEF CanReceive, Drained
  <2>2. /\ \A i \in Items : pc[<<Multi, i>>] \in {"none", "done"}
        /\ chan[Single] = <<>> /\ ~closed[Single]
    BY <1>2, <2>1, IdleHashStage
  <2>3. /\ \A i \in Items : pc[<<Single, i>>] \in {"none", "done"}
        /\ chan[Source] = <<>> /\ ~closed[Source]
    BY <1>2, <2>2, IdleHashStage
  <2>4. at[Source] = "range" /\ Room(Source)
    BY <1>2, <1>3, <2>3 DEF StartedInv, StagePlaces, Room
  <2>5. \A w \in Workers : pc[w] \in {"none", "done"}
    BY <2>2, <2>3, WorkerShape DEF HashStages
  <2>6. Len(unsortedResults) = sent
    BY <2>1, <2>2, <2>3, <2>5, AllCollected DEF DeliveryInv
  <2> QED
    BY <2>4, <2>6
<1> QED
  BY <1>4, <1>5, <1>6, <1>7

\* The start: every stage in its range, no worker, the mutex free.
LEMMA InitStarted == Init => StartedInv
<1> SUFFICES ASSUME Init PROVE StartedInv
  OBVIOUS
<1>1. StagePlaces
  BY StageNumbers DEF Init, StagePlaces
<1>2. Holder
  BY DEF Init, Holder
<1>3. CrcsStarted
  BY DEF Init, CrcsStarted
<1> QED
  BY <1>1, <1>2, <1>3 DEF StartedInv

\* Stages move from range by wait or emit to returned.
LEMMA PlacesStep == IInv /\ StagePlaces /\ [Next]_vars => StagePlaces'
<1> SUFFICES ASSUME IInv, StagePlaces, [Next]_vars PROVE StagePlaces'
  OBVIOUS
<1>0. at \in [Stages -> StageStates]
  BY DEF IInv, TypeOK
<1> USE <1>0, StageNumbers
<1>1. CASE UNCHANGED vars
  BY <1>1 DEF vars, StagePlaces
<1>2. CASE SourceStep
  BY <1>2 DEF SourceStep, SourceSend, SourceReturn, Return, StagePlaces
<1>3. CASE CombineStep
  BY <1>3 DEF CombineStep, EndRange, Collect, SendCombined, Return, StagePlaces
<1>4. CASE SinkStep
  BY <1>4 DEF SinkStep, SinkReceive, SinkReturn, Return, StagePlaces
<1>5. ASSUME NEW k \in HashStages, Stage(k) PROVE StagePlaces'
  BY <1>5 DEF Stage, StartWorker, EndRange, WaitWorkers, Return, StagePlaces
<1>6. ASSUME NEW w \in Workers, Worker(w) PROVE at' = at
  BY <1>6 DEF Worker, StartCrcs, LockMd5, OverheatLock, OverheatUnlock, UnlockMd5, WaitCrcs,
              Emit, DoneWorker, stageVars
<1>7. ASSUME NEW w \in Workers, NEW x \in Places(w[1]), MyCrc32(w, x) PROVE at' = at
  BY <1>7 DEF MyCrc32, SendCrc, DoneCrc, stageVars
<1>8. at' = at => StagePlaces'
  BY DEF StagePlaces
<1> QED
  BY <1>1, <1>2, <1>3, <1>4, <1>5, <1>6, <1>7, <1>8 DEF Next

\* The worker that has locked the mutex stays between Lock and Unlock until it unlocks it.
LEMMA HolderStep == IInv /\ Holder /\ [Next]_vars => Holder'
<1> SUFFICES ASSUME IInv, Holder, [Next]_vars PROVE Holder'
  OBVIOUS
<1>0. /\ TypeOK /\ pc \in [Workers -> WorkerStates] /\ mu \in Items \cup {None}
      /\ None \notin Items /\ \A i \in Items : <<Single, i>> \in Workers
  BY InputAssumption, NextWorkers DEF IInv, TypeOK
<1> USE <1>0
<1>a. ASSUME mu' = mu,
             \A v \in Workers : pc[v] \in {"md5", "hashing", "unlock"} =>
                                  pc'[v] \in {"md5", "hashing", "unlock"}
      PROVE  Holder'
  BY <1>a DEF Holder
<1>1. CASE SourceStep \/ CombineStep \/ SinkStep \/ UNCHANGED vars
  BY <1>1, <1>a
     DEF SourceStep, SourceSend, SourceReturn, CombineStep, EndRange, Collect, SendCombined,
         SinkStep, SinkReceive, SinkReturn, workerVars, vars, md5Vars
<1>2. ASSUME NEW k \in HashStages, StartWorker(k) PROVE Holder'
  <2>1. PICK i \in Items :
          /\ pc[<<k, i>>] = "none"
          /\ \A v \in Workers : pc'[v] = IF v = <<k, i>> THEN "start" ELSE pc[v]
    BY <1>2, TakeMessage
  <2>2. mu' = mu
    BY <1>2 DEF StartWorker, md5Vars
  <2> QED
    BY <1>a, <2>1, <2>2
<1>3. ASSUME NEW k \in HashStages, EndRange(k) \/ WaitWorkers(k) PROVE Holder'
  BY <1>3, <1>a DEF EndRange, WaitWorkers, workerVars, md5Vars
<1>4. ASSUME NEW w \in Workers, LockMd5(w) PROVE Holder'
  <2>1. w[1] = Single /\ mu' = w[2] /\ w = <<w[1], w[2]>>
    BY <1>4, WorkerShape DEF LockMd5, Goto, IInv, Md5Inv
  <2>2. pc'[w] = "md5"
    BY <1>4, GotoPc DEF LockMd5
  <2>3. pc'[<<Single, mu'>>] = "md5"
    BY <2>1, <2>2
  <2> QED
    BY <2>3 DEF Holder
<1>5. ASSUME NEW w \in Workers, UnlockMd5(w) PROVE Holder'
  BY <1>5 DEF UnlockMd5, Holder
<1>6. ASSUME NEW w \in Workers, OverheatLock(w) \/ OverheatUnlock(w) PROVE Holder'
  <2>1. mu' = mu
    BY <1>6 DEF OverheatLock, OverheatUnlock
  <2>2. PICK s \in {"md5", "hashing"}, t \in {"md5", "hashing", "unlock"} : Goto(w, s, t)
    BY <1>6 DEF OverheatLock, OverheatUnlock
  <2>3. \A v \in Workers : pc'[v] = IF v = w THEN t ELSE pc[v]
    BY <2>2, GotoPc
  <2> QED
    BY <1>a, <2>1, <2>3
<1>7. ASSUME NEW w \in Workers, StartCrcs(w) \/ WaitCrcs(w) \/ Emit(w) \/ DoneWorker(w)
      PROVE Holder'
  <2>1. mu' = mu
    BY <1>7 DEF StartCrcs, WaitCrcs, Emit, DoneWorker, md5Vars
  <2>2. PICK s \in {"start", "wait", "emit", "emitted"},
             t \in {"lock", "wait", "emit", "emitted", "done"} : Goto(w, s, t)
    BY <1>7 DEF StartCrcs, WaitCrcs, Emit, DoneWorker
  <2>3. pc[w] = s /\ \A v \in Workers : pc'[v] = IF v = w THEN t ELSE pc[v]
    BY <2>2, GotoPc
  <2> QED
    BY <1>a, <2>1, <2>3
<1>8. ASSUME NEW w \in Workers, NEW x \in Places(w[1]), MyCrc32(w, x) PROVE Holder'
  BY <1>8, <1>a DEF MyCrc32, SendCrc, DoneCrc, md5Vars
<1> QED
  BY <1>1, <1>2, <1>3, <1>4, <1>5, <1>6, <1>7, <1>8 DEF Next, Stage, Worker

\* SingleHash starts the crc32 of the data before the md5 and the crc32 of the md5 behind
\* it, MultiHash all of its crc32 goroutines at once.
LEMMA CrcsStep == IInv /\ CrcsStarted /\ [Next]_vars => CrcsStarted'
<1> SUFFICES ASSUME IInv, CrcsStarted, [Next]_vars PROVE CrcsStarted'
  OBVIOUS
<1> DEFINE Some(w) == \A x \in Places(w[1]) :
             crc[w][x] = "none" => \/ pc[w] \in {"none", "start"}
                                   \/ pc[w] \in {"lock", "md5", "hashing", "unlock"} /\ x = 1
<1>0. /\ TypeOK /\ pc \in [Workers -> WorkerStates] /\ DOMAIN crc = Workers
      /\ \A w \in Workers : crc[w] \in [Places(w[1]) -> CrcStates]
  BY DEF IInv, TypeOK, DomainInv
<1> USE <1>0
<1>a. \A w \in Workers : Some(w)
  BY DEF CrcsStarted
<1>b. SUFFICES \A w \in Workers : Some(w)'
  BY DEF CrcsStarted
<1>c. ASSUME NEW w \in Workers, crc'[w] = crc[w], pc'[w] = pc[w] PROVE Some(w)'
  BY <1>a, <1>c
<1>1. CASE SourceStep \/ CombineStep \/ SinkStep \/ UNCHANGED vars
  <2>1. UNCHANGED <<pc, crc>>
    BY <1>1 DEF SourceStep, SourceSend, SourceReturn, CombineStep, EndRange, Collect,
                SendCombined, SinkStep, SinkReceive, SinkReturn, workerVars, vars
  <2> QED
    BY <1>c, <2>1
<1>2. ASSUME NEW k \in HashStages, StartWorker(k) PROVE \A w \in Workers : Some(w)'
  <2>1. PICK i \in Items :
          /\ pc[<<k, i>>] = "none"
          /\ \A v \in Workers : pc'[v] = IF v = <<k, i>> THEN "start" ELSE pc[v]
    BY <1>2, TakeMessage
  <2>2. crc' = crc
    BY <1>2 DEF StartWorker
  <2> QED
    BY <1>c, <2>1, <2>2
<1>3. ASSUME NEW k \in HashStages, EndRange(k) \/ WaitWorkers(k)
      PROVE  \A w \in Workers : Some(w)'
  <2>1. UNCHANGED <<pc, crc>>
    BY <1>3 DEF EndRange, WaitWorkers, workerVars
  <2> QED
    BY <1>c, <2>1
<1>4. ASSUME NEW w \in Workers, StartCrcs(w) PROVE \A v \in Workers : Some(v)'
  <2>1. \A v \in Workers :
          pc'[v] = IF v = w THEN IF w[1] = Single THEN "lock" ELSE "wait" ELSE pc[v]
    BY <1>4, GotoPc DEF StartCrcs
  <2>2. /\ \A v \in Workers \ {w} : crc'[v] = crc[v]
        /\ crc'[w] =
             [x \in Places(w[1]) |-> IF w[1] = Single /\ x = 1 THEN "none" ELSE "running"]
    BY <1>4 DEF StartCrcs
  <2>3. Some(w)'
    BY <2>1, <2>2
  <2>4. ASSUME NEW v \in Workers, v # w PROVE Some(v)'
    BY <1>c, <2>1, <2>2, <2>4
  <2> QED
    BY <2>3, <2>4
<1>5. ASSUME NEW w \in Workers, UnlockMd5(w) PROVE \A v \in Workers : Some(v)'
  <2>1. pc[w] = "unlock" /\ \A v \in Workers : pc'[v] = IF v = w THEN "wait" ELSE pc[v]
    BY <1>5, GotoPc DEF UnlockMd5
  <2>2. /\ \A v \in Workers \ {w} : crc'[v] = crc[v]
        /\ crc'[w] = [crc[w] EXCEPT ![1] = "running"]
    BY <1>5 DEF UnlockMd5
  <2>3. Some(w)'
    <3>1. \A x \in Places(w[1]) : x # 1 => crc[w][x] # "none"
      BY <1>a, <2>1
    <3>2. \A x \in Places(w[1]) : crc'[w][x] = IF x = 1 THEN "running" ELSE crc[w][x]
      BY <2>2
    <3> QED
      BY <3>1, <3>2
  <2>4. ASSUME NEW v \in Workers, v # w PROVE Some(v)'
    BY <1>c, <2>1, <2>2, <2>4
  <2> QED
    BY <2>3, <2>4
<1>6. ASSUME NEW w \in Workers, LockMd5(w) \/ OverheatLock(w) \/ OverheatUnlock(w)
      PROVE  \A v \in Workers : Some(v)'
  <2>1. crc' = crc
    BY <1>6 DEF LockMd5, OverheatLock, OverheatUnlock
  <2>2. PICK s \in {"lock", "md5", "hashing"}, t \in {"md5", "hashing", "unlock"} :
          Goto(w, s, t)
    BY <1>6 DEF LockMd5, OverheatLock, OverheatUnlock
  <2>3. pc[w] = s /\ \A v \in Workers : pc'[v] = IF v = w THEN t ELSE pc[v]
    BY <2>2, GotoPc
  <2>4. Some(w)'
    BY <1>a, <2>1, <2>3
  <2>5. ASSUME NEW v \in Workers, v # w PROVE Some(v)'
    BY <1>c, <2>1, <2>3, <2>5
  <2> QED
    BY <2>4, <2>5
<1>7. ASSUME NEW w \in Workers, WaitCrcs(w) \/ Emit(w) \/ DoneWorker(w)
      PROVE  \A v \in Workers : Some(v)'
  <2>1. crc' = crc
    BY <1>7 DEF WaitCrcs, Emit, DoneWorker
  <2>2. PICK s \in {"wait", "emit", "emitted"}, t \in {"emit", "emitted", "done"} :
          Goto(w, s, t)
    BY <1>7 DEF WaitCrcs, Emit, DoneWorker
  <2>3. pc[w] = s /\ \A v \in Workers : pc'[v] = IF v = w THEN t ELSE pc[v]
    BY <2>2, GotoPc
  <2>4. Some(w)'
    BY <1>a, <2>1, <2>3
  <2>5. ASSUME NEW v \in Workers, v # w PROVE Some(v)'
    BY <1>c, <2>1, <2>3, <2>5
  <2> QED
    BY <2>4, <2>5
<1>8. ASSUME NEW w \in Workers, NEW x \in Places(w[1]), MyCrc32(w, x)
      PROVE  \A v \in Workers : Some(v)'
  <2>1. PICK s \in {"sent", "done"} : crc' = [crc EXCEPT ![w][x] = s]
    BY <1>8 DEF MyCrc32, SendCrc, DoneCrc
  <2>2. pc' = pc
    BY <1>8 DEF MyCrc32, SendCrc, DoneCrc
  <2>3. /\ \A v \in Workers \ {w} : crc'[v] = crc[v]
        /\ \A y \in Places(w[1]) : crc'[w][y] = IF y = x THEN s ELSE crc[w][y]
    BY <2>1
  <2>4. Some(w)'
    BY <1>a, <2>2, <2>3
  <2>5. ASSUME NEW v \in Workers, v # w PROVE Some(v)'
    BY <1>c, <2>2, <2>3, <2>5
  <2> QED
    BY <2>4, <2>5
<1> HIDE DEF Some
<1> QED
  BY <1>1, <1>2, <1>3, <1>4, <1>5, <1>6, <1>7, <1>8 DEF Next, Stage, Worker

\* For every input and every number of hashes, no goroutine of the pipeline waits for
\* one that will not come: some goroutine behind the source can go on, or all stages
\* have returned, or all the source has sent has reached CombineResults and the source
\* can send.
THEOREM NeverStalls == Spec => []NoStall
<1>1. StartedInv /\ IInv /\ [Next]_vars => StartedInv'
  BY PlacesStep, HolderStep, CrcsStep DEF StartedInv
<1>2. IInv /\ DeliveryInv /\ StartedInv => NoStall
  BY NeverWaitsInVain
<1> QED
  BY <1>1, <1>2, InitStarted, Delivery, PTL DEF Spec

\* How far along a stage, a worker and a crc32 goroutine are.
StageRank(s) == CASE s = "range" -> 0
                  [] s \in {"wait", "emit"} -> 1
                  [] s = "returned" -> 2
WorkerRank(s) == CASE s = "none" -> 0
                   [] s = "start" -> 1
                   [] s = "lock" -> 2
                   [] s = "md5" -> 3
                   [] s = "hashing" -> 4
                   [] s = "unlock" -> 5
                   [] s = "wait" -> 6
                   [] s = "emit" -> 7
                   [] s = "emitted" -> 8
                   [] s = "done" -> 9
CrcRank(s) == CASE s = "none" -> 0
                [] s = "running" -> 1
                [] s = "sent" -> 2
                [] s = "done" -> 3

\* Nothing goes back, and something goes on.
AtForward == \A k \in Stages : StageRank(at[k]) <= StageRank(at'[k])
PcForward == \A w \in Workers : WorkerRank(pc[w]) <= WorkerRank(pc'[w])
CrcForward == \A w \in Workers : \A x \in Places(w[1]) : CrcRank(crc[w][x]) <= CrcRank(crc'[w][x])
CountsForward ==
  /\ sent <= sent'
  /\ Len(unsortedResults) <= Len(unsortedResults')
  /\ Len(output) <= Len(output')
Forward ==
  /\ AtForward /\ PcForward /\ CrcForward /\ CountsForward
  /\ \/ at' # at \/ pc' # pc \/ crc' # crc
     \/ sent' # sent
     \/ Len(unsortedResults)' # Len(unsortedResults)
     \/ Len(output)' # Len(output)

\* How far the counts can go; the ranks end at 2, 9 and 3.
Bounded ==
  /\ sent <= Len(Input)
  /\ Len(unsortedResults) <= Len(Input)
  /\ Len(output) <= 1

\* Ranks are numbers, and the lengths are.
LEMMA Ranks ==
  ASSUME IInv, DeliveryInv
  PROVE  /\ \A k \in Stages : StageRank(at[k]) \in Nat
         /\ \A w \in Workers : WorkerRank(pc[w]) \in Nat
         /\ \A w \in Workers : \A x \in Places(w[1]) : CrcRank(crc[w][x]) \in Nat
         /\ sent \in Nat /\ Len(unsortedResults) \in Nat /\ Len(output) \in Nat
<1>1. \A k \in Stages : StageRank(at[k]) \in Nat
  BY DEF IInv, TypeOK, StageStates, StageRank
<1>2. \A w \in Workers : WorkerRank(pc[w]) \in Nat
  BY DEF IInv, TypeOK, WorkerStates, WorkerRank
<1>3. \A w \in Workers : \A x \in Places(w[1]) : CrcRank(crc[w][x]) \in Nat
  <2>1. \A w \in Workers : \A x \in Places(w[1]) : crc[w][x] \in CrcStates
    BY DEF IInv, TypeOK
  <2> QED
    BY <2>1 DEF CrcStates, CrcRank
<1>4. sent \in Nat
  BY InputAssumption DEF IInv, TypeOK
<1>5. Len(unsortedResults) \in Nat
  BY DEF DeliveryInv, CollectInv
<1>6. Len(output) \in Nat
  BY DEF DeliveryInv, OutputInv
<1> QED
  BY <1>1, <1>2, <1>3, <1>4, <1>5, <1>6

\* What does not move does not go back.
LEMMA StandStill ==
  ASSUME IInv, DeliveryInv
  PROVE  /\ at' = at => AtForward
         /\ pc' = pc => PcForward
         /\ crc' = crc => CrcForward
         /\ UNCHANGED <<sent, unsortedResults, output>> => CountsForward
<1>1. at' = at => AtForward
  BY Ranks DEF AtForward
<1>2. pc' = pc => PcForward
  BY Ranks DEF PcForward
<1>3. crc' = crc => CrcForward
  BY Ranks DEF CrcForward
<1>4. UNCHANGED <<sent, unsortedResults, output>> => CountsForward
  BY Ranks DEF CountsForward
<1> QED
  BY <1>1, <1>2, <1>3, <1>4

\* A stage that moves goes on.
LEMMA StageForward ==
  ASSUME IInv, DeliveryInv, NEW k \in Stages, NEW t,
         at' = [at EXCEPT ![k] = t],
         \/ at[k] = "range" /\ t \in {"wait", "emit", "returned"}
         \/ at[k] \in {"wait", "emit"} /\ t = "returned"
  PROVE  AtForward /\ at' # at
<1>1. at \in [Stages -> StageStates]
  BY DEF IInv, TypeOK
<1>2. at'[k] = t /\ at[k] # t /\ \A j \in Stages : j # k => at'[j] = at[j]
  BY <1>1
<1>3. StageRank(at[k]) <= StageRank(t)
  BY DEF StageRank
<1>4. AtForward
  BY <1>2, <1>3, Ranks DEF AtForward
<1> QED
  BY <1>2, <1>4

\* A worker that moves goes on.
LEMMA WorkerForward ==
  ASSUME IInv, DeliveryInv, NEW w \in Workers,
         \/ Goto(w, "none", "start")
         \/ Goto(w, "start", "lock") \/ Goto(w, "start", "wait")
         \/ Goto(w, "lock", "md5") \/ Goto(w, "md5", "hashing")
         \/ Goto(w, "hashing", "unlock") \/ Goto(w, "unlock", "wait")
         \/ Goto(w, "wait", "emit") \/ Goto(w, "emit", "emitted") \/ Goto(w, "emitted", "done")
  PROVE  PcForward /\ pc' # pc
<1>0. TypeOK
  BY DEF IInv
<1>1. PICK s, t : /\ Goto(w, s, t)
                  /\ s # t
                  /\ WorkerRank(s) <= WorkerRank(t)
  BY DEF WorkerRank
<1>2. pc[w] = s /\ \A v \in Workers : pc'[v] = IF v = w THEN t ELSE pc[v]
  BY <1>0, <1>1, GotoPc
<1>3. PcForward
  BY <1>1, <1>2, Ranks DEF PcForward
<1> QED
  BY <1>1, <1>2, <1>3

\* A crc32 goroutine that moves goes on.
LEMMA CrcOnward ==
  ASSUME IInv, DeliveryInv, NEW w \in Workers, NEW x \in Places(w[1]), NEW t,
         crc' = [crc EXCEPT ![w][x] = t],
         \/ crc[w][x] = "none" /\ t = "running"
         \/ crc[w][x] = "running" /\ t = "sent"
         \/ crc[w][x] = "sent" /\ t = "done"
  PROVE  CrcForward /\ crc' # crc
<1>1. DOMAIN crc = Workers /\ crc[w] \in [Places(w[1]) -> CrcStates]
  BY DEF IInv, TypeOK, DomainInv
<1>2. /\ \A v \in Workers : v # w => crc'[v] = crc[v]
      /\ \A y \in Places(w[1]) : y # x => crc'[w][y] = crc[w][y]
      /\ crc'[w][x] = t /\ crc[w][x] # t
  BY <1>1
<1>3. CrcRank(crc[w][x]) <= CrcRank(t)
  BY DEF CrcRank
<1>4. \A y \in Places(w[1]) : CrcRank(crc[w][y]) <= CrcRank(crc'[w][y])
  BY <1>2, <1>3, Ranks
<1>5. \A v \in Workers : v # w =>
        \A y \in Places(v[1]) : CrcRank(crc[v][y]) <= CrcRank(crc'[v][y])
  BY <1>2, Ranks
<1>6. CrcForward
  BY <1>4, <1>5 DEF CrcForward
<1> QED
  BY <1>2, <1>6

\* One step of the source, the stages and the sink.
LEMMA StagesForward ==
  ASSUME IInv, DeliveryInv, SourceStep \/ CombineStep \/ SinkStep \/ \E k \in HashStages : Stage(k)
  PROVE  Forward
<1>1. CASE SourceStep
  <2>1. UNCHANGED <<pc, crc, unsortedResults, output>>
    BY <1>1 DEF SourceStep, SourceSend, SourceReturn, workerVars
  <2>2. CASE SourceSend
    <3>1. at' = at /\ sent' = sent + 1
      BY <2>2 DEF SourceSend
    <3>2. CountsForward /\ sent' # sent
      BY <2>1, <3>1, Ranks DEF CountsForward
    <3> QED
      BY <2>1, <3>1, <3>2, StandStill DEF Forward
  <2>3. CASE SourceReturn
    <3>1. at' = [at EXCEPT ![Source] = "returned"] /\ at[Source] = "range" /\ sent' = sent
      BY <2>3 DEF SourceReturn, Return
    <3>2. Source \in Stages
      BY StageNumbers
    <3>3. AtForward /\ at' # at
      BY <3>1, <3>2, StageForward
    <3> QED
      BY <2>1, <3>1, <3>3, StandStill DEF Forward
  <2> QED
    BY <1>1, <2>2, <2>3 DEF SourceStep
<1>2. ASSUME NEW k \in HashStages, StartWorker(k) PROVE Forward
  <2>1. UNCHANGED <<at, crc, sent, unsortedResults, output>>
    BY <1>2 DEF StartWorker
  <2>2. PICK i \in Items :
          /\ pc[<<k, i>>] = "none"
          /\ \A v \in Workers : pc'[v] = IF v = <<k, i>> THEN "start" ELSE pc[v]
    BY <1>2, TakeMessage
  <2>3. <<k, i>> \in Workers
    BY WorkerShape
  <2>4. PcForward /\ pc' # pc
    <3>1. WorkerRank("none") <= WorkerRank("start") /\ "none" # "start"
      BY DEF WorkerRank
    <3>2. PcForward
      BY <2>2, <3>1, Ranks DEF PcForward
    <3> QED
      BY <2>2, <2>3, <3>2
  <2> QED
    BY <2>1, <2>4, StandStill DEF Forward
<1>3. ASSUME NEW k \in HashStages \cup {Combine}, EndRange(k) PROVE Forward
  <2>1. UNCHANGED <<pc, crc, sent, unsortedResults, output>>
    BY <1>3 DEF EndRange, workerVars
  <2>2. AtForward /\ at' # at
    <3>1. k \in Stages
      BY StageNumbers
    <3>2. PICK t \in {"wait", "emit"} : at[k] = "range" /\ at' = [at EXCEPT ![k] = t]
      BY <1>3 DEF EndRange
    <3> QED
      BY <3>1, <3>2, StageForward
  <2> QED
    BY <2>1, <2>2, StandStill DEF Forward
<1>4. ASSUME NEW k \in HashStages, WaitWorkers(k) PROVE Forward
  <2>1. UNCHANGED <<pc, crc, sent, unsortedResults, output>>
    BY <1>4 DEF WaitWorkers, workerVars
  <2>2. AtForward /\ at' # at
    <3>1. k \in Stages
      BY StageNumbers
    <3>2. at[k] = "wait" /\ at' = [at EXCEPT ![k] = "returned"]
      BY <1>4 DEF WaitWorkers, Return
    <3> QED
      BY <3>1, <3>2, StageForward
  <2> QED
    BY <2>1, <2>2, StandStill DEF Forward
<1>5. CASE Collect
  <2>1. UNCHANGED <<at, pc, crc, sent, output>>
    BY <1>5 DEF Collect, workerVars
  <2>2. Len(unsortedResults') = Len(unsortedResults) + 1
    <3>1. PICK q \in [1 .. Len(unsortedResults) -> Taken] :
            unsortedResults = [n \in DOMAIN q |-> HashOf(Input[q[n]])]
      BY DEF DeliveryInv, CollectInv
    <3>2. unsortedResults \in Seq({HashOf(Input[i]) : i \in Taken})
      <4>1. DOMAIN q = 1 .. Len(unsortedResults) /\ Len(unsortedResults) \in Nat
        BY Ranks
      <4> QED
        BY <3>1, <4>1
    <3>3. PICK v : unsortedResults' = Append(unsortedResults, v)
      BY <1>5 DEF Collect
    <3> QED
      BY <3>2, <3>3
  <2>3. CountsForward /\ Len(unsortedResults)' # Len(unsortedResults)
    BY <2>1, <2>2, Ranks DEF CountsForward
  <2> QED
    BY <2>1, <2>3, StandStill DEF Forward
<1>6. CASE SendCombined
  <2>1. UNCHANGED <<pc, crc, sent, unsortedResults, output>>
    BY <1>6 DEF SendCombined, workerVars
  <2>2. AtForward /\ at' # at
    <3>1. Combine \in Stages
      BY StageNumbers
    <3>2. at[Combine] = "emit" /\ at' = [at EXCEPT ![Combine] = "returned"]
      BY <1>6 DEF SendCombined, Return
    <3> QED
      BY <3>1, <3>2, StageForward
  <2> QED
    BY <2>1, <2>2, StandStill DEF Forward
<1>7. CASE SinkReceive
  <2>1. UNCHANGED <<pc, crc, sent, unsortedResults>>
    BY <1>7 DEF SinkReceive, workerVars
  <2>2. output = <<>>
    <3>1. chan[Combine] # <<>>
      BY <1>7, StageNumbers DEF SinkReceive, CanReceive
    <3> QED
      BY <3>1 DEF DeliveryInv, OutputInv
  <2>3. Len(output) = 0 /\ Len(output') = 1
    BY <1>7, <2>2 DEF SinkReceive
  <2>4. CountsForward /\ Len(output)' # Len(output)
    BY <2>1, <2>3, Ranks DEF CountsForward
  <2>5. AtForward
    <3>1. CASE at' = at
      BY <3>1, StandStill
    <3>2. CASE Return(Sink)
      <4>1. Sink \in Stages
        BY StageNumbers
      <4>2. at[Sink] = "range" /\ at' = [at EXCEPT ![Sink] = "returned"]
        BY <1>7, <3>2 DEF SinkReceive, Return
      <4> QED
        BY <4>1, <4>2, StageForward
    <3> QED
      BY <1>7, <3>1, <3>2 DEF SinkReceive
  <2> QED
    BY <2>1, <2>4, <2>5, StandStill DEF Forward
<1>8. CASE SinkReturn
  <2>1. UNCHANGED <<pc, crc, sent, unsortedResults, output>>
    BY <1>8 DEF SinkReturn, workerVars
  <2>2. AtForward /\ at' # at
    <3>1. Sink \in Stages
      BY StageNumbers
    <3>2. at[Sink] = "range" /\ at' = [at EXCEPT ![Sink] = "returned"]
      BY <1>8 DEF SinkReturn, Return
    <3> QED
      BY <3>1, <3>2, StageForward
  <2> QED
    BY <2>1, <2>2, StandStill DEF Forward
<1> QED
  BY <1>1, <1>2, <1>3, <1>4, <1>5, <1>6, <1>7, <1>8 DEF CombineStep, SinkStep, Stage

\* One step of a worker or of a crc32 goroutine.  DataSignerMd5 never sleeps and tries
\* again, because the mutex lets one worker in at a time.
LEMMA WorkersForward ==
  ASSUME IInv, DeliveryInv, NEW w \in Workers,
         Worker(w) \/ \E x \in Places(w[1]) : MyCrc32(w, x)
  PROVE  Forward
<1>1. UNCHANGED <<at, sent, unsortedResults, output>>
  BY DEF Worker, StartCrcs, LockMd5, OverheatLock, OverheatUnlock, UnlockMd5, WaitCrcs, Emit,
         DoneWorker, MyCrc32, SendCrc, DoneCrc, stageVars
<1>2. AtForward /\ CountsForward
  BY <1>1, StandStill
<1>3. DOMAIN crc = Workers /\ crc[w] \in [Places(w[1]) -> CrcStates]
  BY DEF IInv, TypeOK, DomainInv
<1>4. CASE StartCrcs(w)
  <2>1. PcForward /\ pc' # pc
    BY <1>4, WorkerForward DEF StartCrcs
  <2>2. CrcForward
    <3>1. pc[w] = "start"
      BY <1>4 DEF StartCrcs, Goto
    <3>2. \A x \in Places(w[1]) : crc[w][x] = "none"
      BY <3>1 DEF IInv, CrcInv, CrcOf
    <3>3. /\ \A v \in Workers : v # w => crc'[v] = crc[v]
          /\ \A x \in Places(w[1]) : crc'[w][x] \in {"none", "running"}
      BY <1>3, <1>4 DEF StartCrcs
    <3>4. \A x \in Places(w[1]) : CrcRank(crc[w][x]) <= CrcRank(crc'[w][x])
      BY <3>2, <3>3 DEF CrcRank
    <3>5. \A v \in Workers : v # w =>
            \A x \in Places(v[1]) : CrcRank(crc[v][x]) <= CrcRank(crc'[v][x])
      BY <3>3, Ranks
    <3> QED
      BY <3>4, <3>5 DEF CrcForward
  <2> QED
    BY <1>2, <2>1, <2>2 DEF Forward
<1>5. CASE UnlockMd5(w)
  <2>1. PcForward /\ pc' # pc
    BY <1>5, WorkerForward DEF UnlockMd5
  <2>2. CrcForward
    <3>1. pc[w] = "unlock"
      BY <1>5 DEF UnlockMd5, Goto
    <3>2. crc[w][1] = "none" /\ w[1] = Single
      BY <3>1 DEF IInv, CrcInv, CrcOf, Md5Inv
    <3>3. 1 \in Places(w[1])
      BY <3>2 DEF Places
    <3>4. crc' = [crc EXCEPT ![w][1] = "running"]
      BY <1>5 DEF UnlockMd5
    <3> QED
      BY <3>2, <3>3, <3>4, CrcOnward
  <2> QED
    BY <1>2, <2>1, <2>2 DEF Forward
<1>6. CASE LockMd5(w) \/ OverheatLock(w) \/ OverheatUnlock(w) \/ WaitCrcs(w) \/ Emit(w)
             \/ DoneWorker(w)
  <2>1. crc' = crc
    BY <1>6 DEF LockMd5, OverheatLock, OverheatUnlock, WaitCrcs, Emit, DoneWorker
  <2>2. /\ OverheatLock(w) => Goto(w, "md5", "hashing")
        /\ OverheatUnlock(w) => Goto(w, "hashing", "unlock")
    BY DEF OverheatLock, OverheatUnlock, Goto, IInv, Md5Inv
  <2>3. PcForward /\ pc' # pc
    BY <1>6, <2>2, WorkerForward DEF LockMd5, WaitCrcs, Emit, DoneWorker
  <2> QED
    BY <1>2, <2>1, <2>3, StandStill DEF Forward
<1>7. ASSUME NEW x \in Places(w[1]), MyCrc32(w, x) PROVE Forward
  <2>1. pc' = pc
    BY <1>7 DEF MyCrc32, SendCrc, DoneCrc
  <2>2. CrcForward /\ crc' # crc
    <3>1. CASE crc[w][x] = "running" /\ crc' = [crc EXCEPT ![w][x] = "sent"]
      BY <3>1, CrcOnward
    <3>2. CASE crc[w][x] = "sent" /\ crc' = [crc EXCEPT ![w][x] = "done"]
      BY <3>2, CrcOnward
    <3> QED
      BY <1>7, <3>1, <3>2 DEF MyCrc32, SendCrc, DoneCrc
  <2> QED
    BY <1>2, <2>1, <2>2, StandStill DEF Forward
<1> QED
  BY <1>4, <1>5, <1>6, <1>7 DEF Worker

\* The counts are bounded: CombineResults receives the hash of an input once.
LEMMA CountsBounded == IInv /\ DeliveryInv => Bounded
<1> SUFFICES ASSUME IInv, DeliveryInv PROVE Bounded
  OBVIOUS
<1>1. sent <= Len(Input) /\ Len(Input) \in Nat /\ Items = 1 .. Len(Input)
  BY InputAssumption DEF IInv, TypeOK, Items
<1>2. Len(output) <= 1
  <2>1. output = <<>> \/ \E v : output = <<v>>
    BY DEF DeliveryInv, OutputInv
  <2>2. CASE output = <<>>
    BY <2>2
  <2>3. ASSUME NEW v, output = <<v>> PROVE Len(output) <= 1
    <3>1. Len(output) = 1
      BY <2>3
    <3> QED
      BY <3>1
  <2> QED
    BY <2>1, <2>2, <2>3
<1> DEFINE n == Len(unsortedResults)
<1>3. n \in Nat
  BY Ranks
<1>4. PICK q \in [1 .. n -> Taken] : \A a, b \in DOMAIN q : q[a] = q[b] => a = b
  BY DEF DeliveryInv, CollectInv
<1> HIDE DEF n
<1>5. q \in Injection(1 .. n, Items)
  BY <1>4 DEF Injection, IsInjective, Taken
<1>6. IsFiniteSet(Items) /\ Cardinality(1 .. n) <= Cardinality(Items)
  <2>1. IsFiniteSet(Items)
    BY <1>1, FS_Interval
  <2> QED
    BY <1>5, <2>1, FS_Injection
<1>7. /\ Cardinality(1 .. n) = IF 1 > n THEN 0 ELSE n - 1 + 1
      /\ Cardinality(1 .. Len(Input)) = IF 1 > Len(Input) THEN 0 ELSE Len(Input) - 1 + 1
  <2>1. ASSUME NEW a \in Nat PROVE Cardinality(1 .. a) = IF 1 > a THEN 0 ELSE a - 1 + 1
    BY FS_Interval
  <2> QED
    BY <1>1, <1>3, <2>1
<1>8. n <= Len(Input)
  BY <1>1, <1>3, <1>6, <1>7
<1> QED
  BY <1>1, <1>2, <1>8 DEF Bounded, n

\* Every step moves a stage, a worker, a crc32 goroutine or a count forward and none back,
\* and there is an end to each: the pipeline takes finitely many steps, and since it
\* never stalls, it runs until every stage has returned or the source stops sending.
THEOREM OnlyForward == Spec => []Bounded /\ [][Forward]_vars
<1>1. IInv /\ DeliveryInv /\ Next => Forward
  BY StagesForward, WorkersForward DEF Next
<1> QED
  BY <1>1, CountsBounded, Delivery, PTL DEF Spec
=============================================================================
