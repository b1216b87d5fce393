---------------------------- MODULE UserApiProofs ----------------------------
(***************************************************************************)
(* Proofs about UserApi, for any number of calls and any requests.  The    *)
(* invariant says who holds mu, and what each call knows of the users once *)
(* it has looked.                                                          *)
(***************************************************************************)
EXTENDS UserApi, TLAPS

\* The places where a call of Create has locked mu, and one of Profile reads.
Writing == {"exists", "take_id", "store", "unlock"}
Reading == {"lookup", "runlock"}

\* What is known of a call that has been answered or is to be.
Outcomes == {<<>>, <<"found">>, <<"missing">>, <<"conflict">>}

LockInv ==
  /\ \A c \in Calls : mu = c <=> pc[c] \in Writing \cup {"drain"}
  /\ \A c \in Calls : c \in readers <=> pc[c] \in Reading
  /\ \A c \in Calls : pc[c] \in Writing => readers = {}
  /\ \A c \in Calls : pc[c] = "rwait" => mu # None

\* A call in the middle of Create has not found its login; its id is the last
\* one given out.
CreateInv ==
  \A c \in Calls :
    /\ pc[c] \in {"take_id", "store"} => Login(c) \notin DOMAIN users
    /\ pc[c] = "store" => id[c] = nextID - 1

\* Registered logins keep what was said about them, and a method that answers 200
\* has found or created its user.
ResultOf(c) ==
  /\ res[c] \in Outcomes \/ res[c] = <<"created", id[c]>>
  /\ res[c] = <<"found">> => Login(c) \in DOMAIN users
  /\ res[c] = <<"created", id[c]>> => Login(c) \in DOMAIN users /\ users[Login(c)].ID = id[c]
  /\ pc[c] \in {"idle", "rlock", "rwait", "lookup", "lock", "drain", "exists", "take_id",
               "store"} => res[c] = <<>>
  /\ pc[c] \in {"runlock", "unlock", "write"} => res[c] # <<>>
AnswerOf(c) ==
  pc[c] = "answered" /\ answer[c][1] = 200 /\ res[c] # <<>> =>
    \/ res[c] = <<"found">> /\ answer[c][2] = users[Login(c)]
    \/ res[c] = <<"created", id[c]>> /\ answer[c][2] = users[Login(c)].ID
ResultInv == \A c \in Calls : ResultOf(c)
AnswerInv == \A c \in Calls : AnswerOf(c)

Domains == DOMAIN req = Calls /\ DOMAIN in = Calls /\ DOMAIN res = Calls /\ DOMAIN answer = Calls

Inv ==
  TypeOK /\ Domains /\ LockInv /\ CreateInv /\ ResultInv /\ AnswerInv
-----------------------------------------------------------------------------
\* The users there are at the start.
LEMMA FirstUsers ==
  /\ DOMAIN First = {Rvasily}
  /\ \A l \in DOMAIN First : First[l].ID = 42
BY DEF First

\* What can be refused at once has not come to anything.
LEMMA InvInit == Init => Inv
<1> SUFFICES ASSUME Init PROVE Inv
  OBVIOUS
<1> USE DEF Init
<1>1. TypeOK
  <2>1. \A l \in DOMAIN users : users[l].ID \in 0 .. nextID - 1
    BY FirstUsers
  <2> QED
    BY <2>1 DEF TypeOK
<1>2. LockInv
  BY CallAssumption DEF LockInv, Writing, Reading
<1>3. CreateInv
  BY DEF CreateInv
<1>4. ResultInv
  BY DEF ResultInv, ResultOf, Outcomes
<1>5. AnswerInv
  BY DEF AnswerInv, AnswerOf
<1>6. Domains
  BY DEF Domains
<1> QED
  BY <1>1, <1>2, <1>3, <1>4, <1>5, <1>6 DEF Inv

\* Unlock moves the call that held mu and the readers that waited for it.
LEMMA Woken ==
  ASSUME TypeOK, NEW c \in Calls, Unlock(c)
  PROVE  /\ pc[c] = "unlock" /\ pc'[c] = "write" /\ mu' = None
         /\ \A d \in Calls \ {c} : IF pc[d] = "rwait" THEN pc'[d] = "lookup" ELSE pc'[d] = pc[d]
         /\ UNCHANGED <<users, nextID, req, in, id, res, answer>>
BY DEF Unlock, Released, Waiting

\* A step of one call keeps the types.
LEMMA TypesNext == Inv /\ [Next]_vars => TypeOK'
<1> SUFFICES ASSUME Inv, [Next]_vars PROVE TypeOK'
  OBVIOUS
<1>1. TypeOK /\ LockInv /\ CreateInv
  BY DEF Inv
<1>2. ASSUME NEW c \in Calls, NEW r \in Requests[c], Receive(c, r)
      PROVE  TypeOK'
  <2>1. pc' \in [Calls -> {"idle", "rlock", "rwait", "lookup", "runlock", "lock", "drain",
                           "exists", "take_id", "store", "unlock", "write", "answered"}]
    BY <1>1, <1>2 DEF TypeOK, Receive, Goto
  <2>2. \A d \in Calls : req'[d] \in Requests[d] \cup {<<>>}
    <3>1. req' = [req EXCEPT ![c] = r]
      BY <1>2 DEF Receive
    <3> QED
      BY <1>1, <3>1 DEF TypeOK
  <2>3. UNCHANGED <<users, nextID, mu, readers, id>>
    BY <1>2 DEF Receive, apiVars
  <2> QED
    BY <1>1, <2>1, <2>2, <2>3 DEF TypeOK
<1>3. ASSUME NEW c \in Calls, RLock(c) \/ Lookup(c) \/ RUnlock(c) \/ Write(c)
      PROVE  TypeOK'
  BY <1>1, <1>3 DEF TypeOK, RLock, Lookup, RUnlock, Write, Goto, apiVars
<1>4. ASSUME NEW c \in Calls, Lock(c) \/ Drain(c) \/ CheckLogin(c) \/ Unlock(c)
      PROVE  TypeOK'
  BY <1>1, <1>4 DEF TypeOK, Lock, Drain, CheckLogin, Unlock, Released, Waiting, Goto, apiVars
<1>5. ASSUME NEW c \in Calls, TakeId(c)
      PROVE  TypeOK'
  BY <1>1, <1>5 DEF TypeOK, TakeId, FreshID, Goto
<1>6. ASSUME NEW c \in Calls, Store(c)
      PROVE  TypeOK'
  <2>1. id[c] \in 0 .. nextID - 1
    BY <1>1, <1>6 DEF TypeOK, CreateInv, Store, Goto
  <2>2. DOMAIN users' = DOMAIN users \cup {Login(c)}
    BY <1>6 DEF Store
  <2>3. \A l \in DOMAIN users' : users'[l].ID \in 0 .. nextID - 1
    BY <1>1, <1>6, <2>1 DEF Store, TypeOK
  <2>4. UNCHANGED <<nextID, mu, readers, req, id>>
    BY <1>6 DEF Store
  <2>5. pc' \in [Calls -> {"idle", "rlock", "rwait", "lookup", "runlock", "lock", "drain",
                           "exists", "take_id", "store", "unlock", "write", "answered"}]
    BY <1>1, <1>6 DEF TypeOK, Store, Goto
  <2> QED
    BY <1>1, <2>2, <2>3, <2>4, <2>5 DEF TypeOK
<1>7. CASE UNCHANGED vars
  BY <1>1, <1>7 DEF TypeOK, vars
<1> QED
  BY <1>2, <1>3, <1>4, <1>5, <1>6, <1>7 DEF Next, Serve, Profile, Create

\* The functions over calls keep their domain.
LEMMA DomainsNext == Inv /\ [Next]_vars => Domains'
<1> SUFFICES ASSUME Inv, [Next]_vars PROVE Domains'
  OBVIOUS
<1>1. Domains
  BY DEF Inv
<1>2. ASSUME NEW c \in Calls, NEW r \in Requests[c], Receive(c, r)
      PROVE  Domains'
  BY <1>1, <1>2 DEF Domains, Receive
<1>3. ASSUME NEW c \in Calls, RLock(c) \/ Lookup(c) \/ RUnlock(c) \/ Write(c)
      PROVE  Domains'
  BY <1>1, <1>3 DEF Domains, RLock, Lookup, RUnlock, Write
<1>4. ASSUME NEW c \in Calls,
             Lock(c) \/ Drain(c) \/ CheckLogin(c) \/ TakeId(c) \/ Store(c) \/ Unlock(c)
      PROVE  Domains'
  BY <1>1, <1>4 DEF Domains, Lock, Drain, CheckLogin, TakeId, Store, Unlock
<1>5. CASE UNCHANGED vars
  BY <1>1, <1>5 DEF Domains, vars
<1> QED
  BY <1>2, <1>3, <1>4, <1>5 DEF Next, Serve, Profile, Create

\* One writer at a time has locked mu, and no one reads meanwhile; readers wait only
\* behind a writer.
LEMMA LockNext == Inv /\ [Next]_vars => LockInv'
<1> SUFFICES ASSUME Inv, [Next]_vars PROVE LockInv'
  OBVIOUS
<1>1. LockInv /\ TypeOK
  BY DEF Inv
<1>2. DOMAIN pc = Calls
  BY <1>1 DEF TypeOK
<1> USE CallAssumption, <1>1, <1>2 DEF LockInv, Writing, Reading
<1>3. ASSUME NEW c \in Calls, NEW r \in Requests[c], Receive(c, r)
      PROVE  LockInv'
  BY <1>3 DEF Receive, Goto, apiVars
<1>4. ASSUME NEW c \in Calls, RLock(c)
      PROVE  LockInv'
  <2>1. CASE mu = None
    BY <1>4, <2>1 DEF RLock, Goto
  <2>2. CASE mu # None
    BY <1>4, <2>2 DEF RLock, Goto
  <2> QED
    BY <2>1, <2>2
<1>5. ASSUME NEW c \in Calls, Lookup(c) \/ Write(c) \/ CheckLogin(c)
      PROVE  LockInv'
  BY <1>5 DEF Lookup, Write, CheckLogin, Goto, apiVars
<1>6. ASSUME NEW c \in Calls, RUnlock(c)
      PROVE  LockInv'
  BY <1>6 DEF RUnlock, Goto
<1>7. ASSUME NEW c \in Calls, Lock(c)
      PROVE  LockInv'
  BY <1>7 DEF Lock, Free, Goto
<1>8. ASSUME NEW c \in Calls, Drain(c)
      PROVE  LockInv'
  BY <1>8 DEF Drain, Goto, apiVars
<1>9. ASSUME NEW c \in Calls, TakeId(c) \/ Store(c)
      PROVE  LockInv'
  BY <1>9 DEF TakeId, Store, Goto
<1>10. ASSUME NEW c \in Calls, Unlock(c)
       PROVE  LockInv'
  <2>1. /\ pc[c] = "unlock" /\ pc'[c] = "write" /\ mu' = None
        /\ \A d \in Calls \ {c} : IF pc[d] = "rwait" THEN pc'[d] = "lookup" ELSE pc'[d] = pc[d]
    BY <1>10, Woken
  <2>2. \A d \in Calls \ {c} : pc[d] \notin Writing \cup {"drain"}
    BY <2>1
  <2>3. \A d \in Calls : d \in readers' <=> d \in readers \/ pc[d] = "rwait"
    BY <1>10 DEF Unlock, Waiting
  <2>4. \A d \in Calls : pc'[d] \notin Writing \cup {"drain", "rwait"}
    BY <2>1, <2>2
  <2>5. \A d \in Calls : d \in readers' <=> pc'[d] \in Reading
    BY <2>1, <2>3
  <2> QED
    BY <2>1, <2>4, <2>5
<1>11. CASE UNCHANGED vars
  BY <1>11 DEF vars
<1> QED
  BY <1>3, <1>4, <1>5, <1>6, <1>7, <1>8, <1>9, <1>10, <1>11 DEF Next, Serve, Profile, Create

\* Only a call that holds mu registers, so a login that was free is free until then.
LEMMA CreateNext == Inv /\ [Next]_vars => CreateInv'
<1> SUFFICES ASSUME Inv, [Next]_vars PROVE CreateInv'
  OBVIOUS
<1>1. LockInv /\ TypeOK /\ Domains /\ CreateInv
  BY DEF Inv
<1>2. DOMAIN pc = Calls /\ DOMAIN id = Calls /\ DOMAIN in = Calls /\ nextID \in Nat
  BY <1>1 DEF TypeOK, Domains
<1>3. \A c, d \in Calls : pc[c] \in Writing /\ pc[d] \in Writing => c = d
  BY <1>1 DEF LockInv
<1> USE <1>2
<1>4. ASSUME NEW c \in Calls, NEW r \in Requests[c], Receive(c, r)
      PROVE  CreateInv'
  BY <1>1, <1>4 DEF CreateInv, Receive, Goto, apiVars, Login
<1>5. ASSUME NEW c \in Calls, RLock(c) \/ Lookup(c) \/ RUnlock(c)
      PROVE  CreateInv'
  BY <1>1, <1>5 DEF CreateInv, RLock, Lookup, RUnlock, Goto, apiVars, Login
<1>6. ASSUME NEW c \in Calls, Write(c) \/ Lock(c) \/ Drain(c) \/ Unlock(c)
      PROVE  CreateInv'
  BY <1>1, <1>6 DEF CreateInv, Write, Lock, Drain, Unlock, Waiting, Goto, apiVars, Login
<1>7. ASSUME NEW c \in Calls, CheckLogin(c)
      PROVE  CreateInv'
  BY <1>1, <1>7 DEF CreateInv, CheckLogin, Goto, apiVars, Login, Exist
<1>8. ASSUME NEW c \in Calls, TakeId(c)
      PROVE  CreateInv'
  <2>1. \A d \in Calls : d # c => pc'[d] \notin {"take_id", "store"}
    BY <1>3, <1>8 DEF TakeId, Goto, Writing
  <2> QED
    BY <1>1, <1>8, <2>1 DEF CreateInv, TakeId, FreshID, Goto, Login
<1>9. ASSUME NEW c \in Calls, Store(c)
      PROVE  CreateInv'
  <2>1. \A d \in Calls : pc'[d] \notin {"take_id", "store"}
    BY <1>3, <1>9 DEF Store, Goto, Writing
  <2> QED
    BY <2>1 DEF CreateInv
<1>10. CASE UNCHANGED vars
  BY <1>1, <1>10 DEF CreateInv, vars, Login
<1> QED
  BY <1>4, <1>5, <1>6, <1>7, <1>8, <1>9, <1>10 DEF Next, Serve, Profile, Create

\* A registered login keeps its user.
LEMMA UsersKept ==
  Inv /\ [Next]_vars => \A l \in DOMAIN users : l \in DOMAIN users' /\ users'[l] = users[l]
<1> SUFFICES ASSUME Inv, [Next]_vars
             PROVE  \A l \in DOMAIN users : l \in DOMAIN users' /\ users'[l] = users[l]
  OBVIOUS
<1>1. ASSUME NEW c \in Calls, Store(c)
      PROVE  \A l \in DOMAIN users : l \in DOMAIN users' /\ users'[l] = users[l]
  <2>1. Login(c) \notin DOMAIN users
    BY <1>1 DEF Inv, CreateInv, Store, Goto
  <2> QED
    BY <1>1, <2>1 DEF Store
<1>2. ASSUME ~\E c \in Calls : Store(c)
      PROVE  users' = users
  BY <1>2 DEF Next, Serve, Profile, Create, Receive, RLock, Lookup, RUnlock, Lock,
              Drain, CheckLogin, TakeId, Unlock, Write, apiVars, vars
<1> QED
  BY <1>1, <1>2

\* What was known of a call remains true while the others go on.
LEMMA OthersKept ==
  ASSUME NEW d \in Calls, Inv, [Next]_vars,
         pc'[d] = pc[d], in'[d] = in[d], id'[d] = id[d], res'[d] = res[d],
         answer'[d] = answer[d]
  PROVE  ResultOf(d)' /\ AnswerOf(d)'
<1>1. ResultOf(d) /\ AnswerOf(d)
  BY DEF Inv, ResultInv, AnswerInv
<1>2. \A l \in DOMAIN users : l \in DOMAIN users' /\ users'[l] = users[l]
  BY UsersKept
<1>3. ResultOf(d)'
  BY <1>1, <1>2 DEF ResultOf, Login
<1>4. AnswerOf(d)'
  BY <1>1, <1>2 DEF AnswerOf, ResultOf, Login
<1> QED
  BY <1>3, <1>4

\* The call that moves knows what it says of the users, and goes on knowing it.
LEMMA ResultsNext == Inv /\ [Next]_vars => ResultInv' /\ AnswerInv'
<1> SUFFICES ASSUME Inv, [Next]_vars PROVE ResultInv' /\ AnswerInv'
  OBVIOUS
<1>1. TypeOK /\ Domains /\ CreateInv /\ ResultInv /\ AnswerInv
  BY DEF Inv
<1>2. /\ DOMAIN pc = Calls /\ DOMAIN id = Calls /\ DOMAIN in = Calls
      /\ DOMAIN res = Calls /\ DOMAIN answer = Calls
  BY <1>1 DEF TypeOK, Domains
<1>3. ASSUME NEW c \in Calls, ResultOf(c)', AnswerOf(c)',
             \A d \in Calls \ {c} : /\ pc'[d] = pc[d] /\ in'[d] = in[d] /\ id'[d] = id[d]
                                    /\ res'[d] = res[d] /\ answer'[d] = answer[d]
      PROVE  ResultInv' /\ AnswerInv'
  <2>1. \A d \in Calls \ {c} : ResultOf(d)' /\ AnswerOf(d)'
    BY <1>3, OthersKept
  <2> QED
    BY <1>3, <2>1 DEF ResultInv, AnswerInv
<1>4. ASSUME NEW c \in Calls
      PROVE  ResultOf(c) /\ AnswerOf(c)
  BY <1>1 DEF ResultInv, AnswerInv
<1> USE <1>2
<1>5. ASSUME NEW c \in Calls, NEW r \in Requests[c], Receive(c, r)
      PROVE  ResultInv' /\ AnswerInv'
  <2>1. /\ pc[c] = "idle" /\ pc'[c] \in {"answered", "rlock", "lock"}
        /\ UNCHANGED <<users, res, id>>
    BY <1>5 DEF Receive, Goto, apiVars
  <2>2. res'[c] = <<>>
    BY <1>4, <2>1 DEF ResultOf
  <2>3. ResultOf(c)' /\ AnswerOf(c)'
    BY <2>1, <2>2 DEF ResultOf, AnswerOf, Outcomes
  <2> QED
    BY <1>3, <1>5, <2>3 DEF Receive, Goto
<1>6. ASSUME NEW c \in Calls, RLock(c) \/ Lock(c) \/ Drain(c) \/ TakeId(c)
      PROVE  ResultInv' /\ AnswerInv'
  <2>1. /\ pc[c] \in {"rlock", "lock", "drain", "take_id"}
        /\ pc'[c] \in {"lookup", "rwait", "drain", "exists", "store"}
        /\ res' = res
    BY <1>6 DEF RLock, Lock, Drain, TakeId, Goto
  <2>2. res'[c] = <<>>
    BY <1>4, <2>1 DEF ResultOf
  <2>3. ResultOf(c)' /\ AnswerOf(c)'
    BY <2>1, <2>2 DEF ResultOf, AnswerOf, Outcomes
  <2> QED
    BY <1>3, <1>6, <2>3 DEF RLock, Lock, Drain, TakeId, Goto
<1>7. ASSUME NEW c \in Calls, RUnlock(c)
      PROVE  ResultInv' /\ AnswerInv'
  <2>1. /\ pc[c] = "runlock" /\ pc'[c] = "write"
        /\ UNCHANGED <<users, in, id, res>>
    BY <1>7 DEF RUnlock, Goto
  <2>2. ResultOf(c)' /\ AnswerOf(c)'
    BY <1>4, <2>1 DEF ResultOf, AnswerOf, Login
  <2> QED
    BY <1>3, <1>7, <2>2 DEF RUnlock, Goto
<1>8. ASSUME NEW c \in Calls, Lookup(c)
      PROVE  ResultInv' /\ AnswerInv'
  <2>1. /\ pc'[c] = "runlock" /\ UNCHANGED <<users, in, id>>
        /\ res'[c] = IF Login(c) \in DOMAIN users THEN <<"found">> ELSE <<"missing">>
    BY <1>8 DEF Lookup, Goto, apiVars
  <2>2. ResultOf(c)' /\ AnswerOf(c)'
    BY <2>1 DEF ResultOf, AnswerOf, Login, Outcomes
  <2> QED
    BY <1>3, <1>8, <2>2 DEF Lookup, Goto
<1>9. ASSUME NEW c \in Calls, CheckLogin(c)
      PROVE  ResultInv' /\ AnswerInv'
  <2>1. /\ pc[c] = "exists" /\ UNCHANGED <<users, in, id>>
        /\ \/ pc'[c] = "unlock" /\ res'[c] = <<"conflict">>
           \/ pc'[c] = "take_id" /\ res' = res
    BY <1>9 DEF CheckLogin, Goto, apiVars
  <2>2. ResultOf(c)' /\ AnswerOf(c)'
    <3>1. CASE pc'[c] = "unlock" /\ res'[c] = <<"conflict">>
      BY <2>1, <3>1 DEF ResultOf, AnswerOf, Outcomes
    <3>2. CASE pc'[c] = "take_id" /\ res' = res
      <4>1. res[c] = <<>>
        BY <1>4, <2>1 DEF ResultOf
      <4> QED
        BY <3>2, <4>1 DEF ResultOf, AnswerOf, Outcomes
    <3> QED
      BY <2>1, <3>1, <3>2
  <2> QED
    BY <1>3, <1>9, <2>2 DEF CheckLogin, Goto
<1>10. ASSUME NEW c \in Calls, Store(c)
      PROVE  ResultInv' /\ AnswerInv'
  <2>1. /\ pc'[c] = "unlock" /\ UNCHANGED <<in, id>>
        /\ res'[c] = <<"created", id[c]>>
        /\ Login(c) \in DOMAIN users' /\ users'[Login(c)].ID = id[c]
    BY <1>10 DEF Store, Goto
  <2>2. ResultOf(c)' /\ AnswerOf(c)'
    BY <2>1 DEF ResultOf, AnswerOf, Login, Outcomes
  <2> QED
    BY <1>3, <1>10, <2>2 DEF Store, Goto
<1>11. ASSUME NEW c \in Calls, Write(c)
      PROVE  ResultInv' /\ AnswerInv'
  <2>1. /\ pc[c] = "write" /\ pc'[c] = "answered" /\ UNCHANGED <<users, in, id, res>>
        /\ answer'[c] = Response(c)
    BY <1>11 DEF Write, Goto, apiVars
  <2>2. ResultOf(c)'
    BY <1>4, <2>1 DEF ResultOf, Login
  <2>3. \/ res[c] \in {<<"found">>, <<"missing">>, <<"conflict">>}
        \/ res[c] = <<"created", id[c]>>
    BY <1>4, <2>1 DEF ResultOf, Outcomes
  <2>4. AnswerOf(c)'
    <3>1. CASE res[c] = <<"found">>
      <4>1. Response(c) = <<200, users[Login(c)]>>
        BY <3>1 DEF Response
      <4> QED
        BY <2>1, <3>1, <4>1 DEF AnswerOf, Login
    <3>2. CASE res[c] \in {<<"missing">>, <<"conflict">>}
      <4>1. Response(c)[1] \in {404, 409}
        BY <3>2 DEF Response
      <4> QED
        BY <2>1, <4>1 DEF AnswerOf
    <3>3. CASE res[c] = <<"created", id[c]>>
      <4>1. Response(c) = <<200, id[c]>>
        BY <3>3 DEF Response
      <4>2. users[Login(c)].ID = id[c]
        BY <1>4, <3>3 DEF ResultOf
      <4> QED
        BY <2>1, <3>3, <4>1, <4>2 DEF AnswerOf, Login
    <3> QED
      BY <2>3, <3>1, <3>2, <3>3
  <2> QED
    BY <1>3, <1>11, <2>2, <2>4 DEF Write, Goto
<1>12. ASSUME NEW c \in Calls, Unlock(c)
       PROVE  ResultInv' /\ AnswerInv'
  <2>1. /\ pc[c] = "unlock" /\ pc'[c] = "write"
        /\ \A d \in Calls \ {c} : IF pc[d] = "rwait" THEN pc'[d] = "lookup" ELSE pc'[d] = pc[d]
        /\ UNCHANGED <<users, in, id, res, answer>>
    BY <1>1, <1>12, Woken
  <2>2. ASSUME NEW d \in Calls PROVE ResultOf(d)' /\ AnswerOf(d)'
    <3>1. CASE pc'[d] = pc[d]
      BY <2>1, <3>1, OthersKept
    <3>2. CASE pc'[d] # pc[d]
      <4>1. \/ pc[d] = "unlock" /\ pc'[d] = "write"
            \/ pc[d] = "rwait" /\ pc'[d] = "lookup"
        BY <2>1, <3>2
      <4> QED
        BY <1>4, <2>1, <4>1 DEF ResultOf, AnswerOf, Login
    <3> QED
      BY <3>1, <3>2
  <2> QED
    BY <2>2 DEF ResultInv, AnswerInv
<1>13. CASE UNCHANGED vars
  BY <1>13, OthersKept DEF vars, ResultInv, AnswerInv
<1> QED
  BY <1>5, <1>6, <1>7, <1>8, <1>9, <1>10, <1>11, <1>12, <1>13 DEF Next, Serve, Profile, Create

\* The invariant holds in every state.
LEMMA Invariance == Spec => []Inv
<1>1. Inv /\ [Next]_vars => Inv'
  BY TypesNext, DomainsNext, LockNext, CreateNext, ResultsNext DEF Inv
<1> QED
  BY <1>1, InvInit, PTL DEF Spec

\* The variables keep their types, and every id in the map was given out.
THEOREM TypeCorrect == Spec => []TypeOK
<1>1. Inv => TypeOK
  BY DEF Inv
<1> QED
  BY <1>1, Invariance, PTL

\* The profile and the id that were answered are those of the user there is now,
\* whatever the other calls have done since.
THEOREM StayTrue == Spec => []AnswersStayTrue
<1>1. Inv => AnswersStayTrue
  BY DEF Inv, AnswerInv, AnswerOf, AnswersStayTrue
<1> QED
  BY <1>1, Invariance, PTL
-----------------------------------------------------------------------------
(***************************************************************************)
(* What the checks of the handler of Create admit.                         *)
(***************************************************************************)

LoginField == Field("Login", "string", "login", <<Required, Part("min", 10)>>)
AgeField == Field("Age", "int", "age", <<Part("min", 0), Part("max", 128)>>)

\* A parameter is a text, be it there or not.
LEMMA GetText ==
  ASSUME NEW c \in Calls, NEW r \in Requests[c], NEW name
  PROVE  LET v == Get(UrlVal(r), name)
         IN  v.len \in Nat /\ v.ints \subseteq Int /\ \A m, n \in v.ints : m = n
<1>1. CASE name \in DOMAIN UrlVal(r)
  BY <1>1, TextAssumption DEF Get
<1>2. CASE name \notin DOMAIN UrlVal(r)
  BY <1>2 DEF Get, Empty
<1> QED
  BY <1>1, <1>2

\* The fields of CreateParams that OnlyValidRegistered is about, and their tags.
LEMMA CreateFields ==
  /\ DOMAIN CreateParams = 1..4
  /\ CreateParams[1] = LoginField /\ CreateParams[4] = AgeField
  /\ CreateParams[2].name = "Name" /\ CreateParams[3].name = "Status"
BY DEF CreateParams, LoginField, AgeField, Field

\* The tags of a login ask for ten letters, those of an age for 0 to 128; neither
\* has another name or a default.
LEMMA FieldTags ==
  /\ ParamName(LoginField) = "login" /\ ParamName(AgeField) = "age"
  /\ Labelled(LoginField.tag, "default") = {} /\ Labelled(AgeField.tag, "default") = {}
  /\ 10 \in Labelled(LoginField.tag, "min")
  /\ 0 \in Labelled(AgeField.tag, "min") /\ 128 \in Labelled(AgeField.tag, "max")
<1>1. /\ LoginField.tag = <<Required, Part("min", 10)>> /\ LoginField.snake = "login"
      /\ AgeField.tag = <<Part("min", 0), Part("max", 128)>> /\ AgeField.snake = "age"
  BY DEF LoginField, AgeField, Field
<1>2. ~HasLabel(LoginField.tag, "paramname") /\ ~HasLabel(AgeField.tag, "paramname")
  BY <1>1 DEF HasLabel, Required, Part
<1>3. ParamName(LoginField) = "login" /\ ParamName(AgeField) = "age"
  BY <1>1, <1>2 DEF ParamName
<1>4. Labelled(LoginField.tag, "default") = {} /\ Labelled(AgeField.tag, "default") = {}
  BY <1>1 DEF Labelled, Required, Part
<1>5. 10 \in Labelled(LoginField.tag, "min")
  BY <1>1 DEF Labelled, Required, Part
<1>6. 0 \in Labelled(AgeField.tag, "min")
  BY <1>1 DEF Labelled, Required, Part
<1>7. 128 \in Labelled(AgeField.tag, "max")
  BY <1>1 DEF Labelled, Required, Part
<1> QED
  BY <1>3, <1>4, <1>5, <1>6, <1>7

\* What fills the two fields is the text of the client.
LEMMA CreateFilled ==
  ASSUME NEW q
  PROVE  /\ Unmarshalled(CreateParams, q).Login = Get(q, "login")
         /\ Unmarshalled(CreateParams, q).Age = Get(q, "age")
<1> DEFINE gs == {CreateParams[i] : i \in DOMAIN CreateParams}
           names == {CreateParams[i].name : i \in DOMAIN CreateParams}
<1>1. LoginField.name = "Login" /\ AgeField.name = "Age"
  BY DEF LoginField, AgeField, Field
<1>2. (CHOOSE g \in gs : g.name = "Login") = LoginField
  BY <1>1, CreateFields
<1>3. (CHOOSE g \in gs : g.name = "Age") = AgeField
  BY <1>1, CreateFields
<1>4. "Login" \in names /\ "Age" \in names
  BY <1>1, CreateFields
<1>5. /\ Unmarshalled(CreateParams, q).Login = Filled(LoginField, Get(q, ParamName(LoginField)))
      /\ Unmarshalled(CreateParams, q).Age = Filled(AgeField, Get(q, ParamName(AgeField)))
  BY <1>2, <1>3, <1>4 DEF Unmarshalled
<1>6. \A v : Filled(LoginField, v) = v /\ Filled(AgeField, v) = v
  BY FieldTags DEF Filled
<1> QED
  BY <1>5, <1>6, FieldTags

\* Without an error, a field fails none of its checks.
LEMMA NoneFails ==
  ASSUME NEW fields, NEW q, UnmarshallError(fields, q) = <<>>,
         NEW i \in DOMAIN fields, NEW k \in 1..5
  PROVE  ~Checks(fields[i], Get(q, ParamName(fields[i])))[k][2]
<1> DEFINE failing(n) == {j \in 1..5 : Checks(fields[n], Get(q, ParamName(fields[n])))[j][2]}
           bad == {n \in DOMAIN fields : failing(n) # {}}
<1>1. bad = {}
  <2> SUFFICES ASSUME bad # {} PROVE FALSE
    OBVIOUS
  <2>1. UnmarshallError(fields, q) =
          LET n == CHOOSE n \in bad : \A m \in bad : n <= m
              j == CHOOSE j \in failing(n) : \A m \in failing(n) : j <= m
          IN  <<ParamName(fields[n]), Checks(fields[n], Empty)[j][1]>>
    BY DEF UnmarshallError
  <2>2. \E x, y : UnmarshallError(fields, q) = <<x, y>>
    <3> HIDE DEF bad, failing
    <3> QED
      BY <2>1, Zenon
  <2>3. \A x, y : <<x, y>> # <<>>
    OBVIOUS
  <2> QED
    BY <2>2, <2>3
<1>2. failing(i) = {}
  BY <1>1
<1> QED
  BY <1>2

\* What is said of a request that reaches Create, and of its params.
Valid(r, params) ==
  /\ r.method = "POST" /\ r.auth
  /\ params.Login.len >= 10 /\ params.Login # BadUsername
  /\ \E a \in 0..128 : params.Age.ints = {a}

\* A request that passes the checks of the handler is valid.
LEMMA CreateAdmits ==
  ASSUME NEW c \in Calls, NEW r \in Requests[c],
         Rejection(CreateHandler, r) = 0, Get(UrlVal(r), "login") # BadUsername
  PROVE  Valid(r, Unmarshalled(CreateParams, UrlVal(r)))
<1> DEFINE q == UrlVal(r)
           login == Get(q, "login")
           age == Get(q, "age")
<1>1. CreateHandler.method = "POST" /\ CreateHandler.auth = TRUE
      /\ CreateHandler.fields = CreateParams
  BY DEF CreateHandler, Handler
<1>2. /\ MethodAllowed(CreateHandler, r) /\ Authorized(CreateHandler, r)
      /\ UnmarshallError(CreateParams, q) = <<>>
  BY <1>1 DEF Rejection
<1>3. r.method = "POST" /\ r.auth
  BY <1>1, <1>2 DEF MethodAllowed, Authorized
<1>4. /\ login.len \in Nat
      /\ age.ints \subseteq Int /\ \A m, n \in age.ints : m = n
  BY GetText
<1>5. /\ ~Checks(LoginField, login)[4][2]
      /\ \A k \in {1, 4, 5} : ~Checks(AgeField, age)[k][2]
  BY <1>2, NoneFails, CreateFields, FieldTags
<1>6. /\ Filled(LoginField, login) = login /\ Filled(AgeField, age) = age
      /\ LoginField.type = "string" /\ AgeField.type = "int"
  BY FieldTags DEF Filled, LoginField, AgeField, Field
<1> HIDE DEF q, login, age
<1>7. login.len >= 10
  <2>1. ~(\E m \in Labelled(LoginField.tag, "min") : \E n \in Measure(LoginField, login) : n < m)
    BY <1>5, <1>6 DEF Checks
  <2>2. Measure(LoginField, login) = {login.len}
    BY <1>6 DEF Measure
  <2> QED
    BY <1>4, <2>1, <2>2, FieldTags
<1>8. \E a \in 0..128 : age.ints = {a}
  <2>1. Measure(AgeField, age) = age.ints
    BY <1>6 DEF Measure
  <2>2. age.ints # {}
    BY <1>5, <1>6 DEF Checks
  <2>3. ~(\E m \in Labelled(AgeField.tag, "min") : \E n \in age.ints : n < m)
    BY <1>5, <1>6, <2>1 DEF Checks
  <2>4. ~(\E m \in Labelled(AgeField.tag, "max") : \E n \in age.ints : n > m)
    BY <1>5, <1>6, <2>1 DEF Checks
  <2>5. PICK a \in age.ints : TRUE
    BY <2>2
  <2>6. age.ints = {a}
    BY <1>4, <2>5
  <2>7. a \in 0..128
    BY <1>4, <2>3, <2>4, <2>5, FieldTags
  <2> QED
    BY <2>6, <2>7
<1>9. /\ Unmarshalled(CreateParams, q).Login = login
      /\ Unmarshalled(CreateParams, q).Age = age
  BY CreateFilled DEF login, age
<1>10. login # BadUsername
  BY DEF login, q
<1>11. Valid(r, Unmarshalled(CreateParams, q))
  BY <1>3, <1>7, <1>8, <1>9, <1>10 DEF Valid
<1> QED
  BY <1>11 DEF q

\* A call in Create, or that has created a user, has a valid request.
ValidOf(c) ==
  \/ pc[c] \in {"lock", "drain", "exists", "take_id", "store"}
  \/ res[c] # <<>> /\ res[c][1] = "created"
  => Valid(req[c], in[c])
ValidInv == \A c \in Calls : ValidOf(c)

\* Nothing but its arrival changes the request of a call.
LEMMA ValidNext == Inv /\ ValidInv /\ [Next]_vars => ValidInv'
<1> SUFFICES ASSUME Inv, ValidInv, [Next]_vars PROVE ValidInv'
  OBVIOUS
<1>1. TypeOK /\ Domains /\ ResultInv
  BY DEF Inv
<1>2. DOMAIN pc = Calls /\ DOMAIN in = Calls /\ DOMAIN res = Calls /\ DOMAIN req = Calls
  BY <1>1 DEF TypeOK, Domains
<1> USE <1>2
<1>3. ASSUME NEW c \in Calls, ValidOf(c)',
             \A d \in Calls \ {c} : /\ pc'[d] = pc[d] /\ in'[d] = in[d]
                                    /\ res'[d] = res[d] /\ req'[d] = req[d]
      PROVE  ValidInv'
  BY <1>3 DEF ValidInv, ValidOf
<1>4. ASSUME NEW c \in Calls, NEW r \in Requests[c], Receive(c, r)
      PROVE  ValidInv'
  <2>1. res'[c] = <<>>
    BY <1>1, <1>4 DEF Receive, Goto, ResultInv, ResultOf
  <2>2. ASSUME pc'[c] = "lock"
        PROVE  Valid(req'[c], in'[c])
    <3>1. /\ r.srv # "OtherApi" /\ Refusal(r) = 0 /\ r.path # "/user/profile"
          /\ req'[c] = r /\ in'[c] = Unmarshalled(CreateParams, UrlVal(r))
      BY <1>4, <2>2 DEF Receive, Goto
    <3>2. /\ Rejection(CreateHandler, r) = 0 /\ Get(UrlVal(r), "login") # BadUsername
      BY <3>1 DEF Refusal
    <3> QED
      BY <3>1, <3>2, CreateAdmits
  <2>3. pc'[c] \in {"answered", "rlock", "lock"}
    BY <1>4 DEF Receive, Goto
  <2>4. ValidOf(c)'
    BY <2>1, <2>2, <2>3 DEF ValidOf
  <2> QED
    BY <1>3, <1>4, <2>4 DEF Receive, Goto
<1>5. ASSUME NEW c \in Calls, RLock(c) \/ RUnlock(c) \/ Write(c)
      PROVE  ValidInv'
  <2>1. ValidOf(c)'
    BY <1>5 DEF RLock, RUnlock, Write, Goto, ValidInv, ValidOf
  <2> QED
    BY <1>3, <1>5, <2>1 DEF RLock, RUnlock, Write, Goto
<1>6. ASSUME NEW c \in Calls, Lookup(c)
      PROVE  ValidInv'
  <2>1. ValidOf(c)'
    BY <1>6 DEF Lookup, Goto, ValidOf
  <2> QED
    BY <1>3, <1>6, <2>1 DEF Lookup, Goto
<1>7. ASSUME NEW c \in Calls, Lock(c) \/ Drain(c) \/ CheckLogin(c) \/ TakeId(c) \/ Store(c)
      PROVE  ValidInv'
  <2>1. Valid(req[c], in[c]) /\ req' = req /\ in' = in
    BY <1>7 DEF Lock, Drain, CheckLogin, TakeId, Store, Goto, ValidInv, ValidOf
  <2>2. ValidOf(c)'
    BY <2>1 DEF ValidOf
  <2> QED
    BY <1>3, <1>7, <2>2 DEF Lock, Drain, CheckLogin, TakeId, Store, Goto
<1>8. ASSUME NEW c \in Calls, Unlock(c)
      PROVE  ValidInv'
  <2>1. /\ \A d \in Calls : pc'[d] \in {"lock", "drain", "exists", "take_id", "store"} =>
                              pc'[d] = pc[d]
        /\ UNCHANGED <<req, in, res>>
    BY <1>1, <1>8, Woken
  <2> QED
    BY <2>1 DEF ValidInv, ValidOf
<1>9. CASE UNCHANGED vars
  BY <1>9 DEF vars, ValidInv, ValidOf
<1> QED
  BY <1>4, <1>5, <1>6, <1>7, <1>8, <1>9 DEF Next, Serve, Profile, Create

\* Only what the tags and the annotation of Create admit is registered.
THEOREM ValidRegistered == Spec => []OnlyValidRegistered
<1>1. Init => ValidInv
  BY DEF Init, ValidInv, ValidOf
<1>2. ValidInv => OnlyValidRegistered
  BY DEF ValidInv, ValidOf, Valid, OnlyValidRegistered, Login
<1> QED
  BY <1>1, <1>2, ValidNext, Invariance, PTL DEF Spec
-----------------------------------------------------------------------------
(***************************************************************************)
(* The refinement: each call takes effect when it looks its login up, when *)
(* it meets the conflict, or when it stores its user.                      *)
(***************************************************************************)

Registered == DOMAIN users \ DOMAIN First

\* The ids are given out in order: those of the registered users end before nextID,
\* or before the one that a call has but has not stored yet.
Given == {users[l].ID : l \in Registered}
CountInv ==
  /\ nextID >= 43
  /\ (\A c \in Calls : pc[c] # "store") => Given = 43 .. nextID - 1
  /\ (\E c \in Calls : pc[c] = "store") => nextID >= 44 /\ Given = 43 .. nextID - 2

\* What a call asks for is set when it arrives.
AskOf(c) ==
  /\ pc[c] = "idle" => in[c] = <<>>
  /\ pc[c] \in {"rlock", "rwait", "lookup"} => in[c] # <<>> /\ req[c].path = "/user/profile"
  /\ pc[c] \in {"lock", "drain", "exists", "take_id", "store"} =>
       in[c] # <<>> /\ req[c].path # "/user/profile"
AskInv == \A c \in Calls : AskOf(c)

\* The params that Unmarshall fills are never empty.
LEMMA ParamsFilled ==
  ASSUME NEW q
  PROVE  Unmarshalled(ProfileParams, q) # <<>> /\ Unmarshalled(CreateParams, q) # <<>>
<1>1. ProfileParams[1].name = "Login" /\ DOMAIN ProfileParams = 1..1
  BY DEF ProfileParams, Field
<1>2. CreateParams[1].name = "Login" /\ DOMAIN CreateParams = 1..4
  BY CreateFields DEF LoginField, Field
<1>3. ASSUME NEW fields, 1 \in DOMAIN fields
      PROVE  Unmarshalled(fields, q) # <<>>
  <2>1. DOMAIN Unmarshalled(fields, q) = {fields[i].name : i \in DOMAIN fields}
    BY DEF Unmarshalled
  <2>2. DOMAIN Unmarshalled(fields, q) # {}
    BY <1>3, <2>1
  <2>3. DOMAIN <<>> = {}
    OBVIOUS
  <2> QED
    BY <2>2, <2>3
<1> QED
  BY <1>1, <1>2, <1>3

\* The ids are counted.
LEMMA CountNext == Inv /\ CountInv /\ [Next]_vars => CountInv'
<1> SUFFICES ASSUME Inv, CountInv, [Next]_vars PROVE CountInv'
  OBVIOUS
<1>1. TypeOK /\ LockInv /\ CreateInv
  BY DEF Inv
<1>2. DOMAIN pc = Calls /\ nextID \in Nat
  BY <1>1 DEF TypeOK
<1>3. \A c, d \in Calls : pc[c] \in Writing /\ pc[d] \in Writing => c = d
  BY <1>1 DEF LockInv
<1> USE <1>2
<1>4. ASSUME \A d \in Calls : pc'[d] = "store" <=> pc[d] = "store", UNCHANGED <<users, nextID>>
      PROVE  CountInv'
  <2>1. Given' = Given
    BY <1>4 DEF Given, Registered
  <2> QED
    BY <1>4, <2>1 DEF CountInv
<1>5. ASSUME NEW c \in Calls, pc[c] # "store", pc'[c] # "store",
             \A d \in Calls \ {c} : pc'[d] = pc[d], UNCHANGED <<users, nextID>>
      PROVE  CountInv'
  BY <1>4, <1>5
<1>6. ASSUME NEW c \in Calls, NEW r \in Requests[c], Receive(c, r)
      PROVE  CountInv'
  BY <1>5, <1>6 DEF Receive, Goto, apiVars
<1>7. ASSUME NEW c \in Calls, RLock(c) \/ Lookup(c) \/ RUnlock(c)
      PROVE  CountInv'
  BY <1>5, <1>7 DEF RLock, Lookup, RUnlock, Goto, apiVars
<1>8. ASSUME NEW c \in Calls, Write(c) \/ Lock(c) \/ Drain(c) \/ CheckLogin(c) \/ Unlock(c)
      PROVE  CountInv'
  <2>1. CASE Unlock(c)
    BY <1>1, <1>4, <2>1, Woken
  <2>2. CASE Write(c) \/ Lock(c) \/ Drain(c) \/ CheckLogin(c)
    BY <1>5, <2>2 DEF Write, Lock, Drain, CheckLogin, Goto, apiVars
  <2> QED
    BY <1>8, <2>1, <2>2
<1>9. ASSUME NEW c \in Calls, TakeId(c)
      PROVE  CountInv'
  <2>1. /\ pc[c] = "take_id" /\ pc' = [pc EXCEPT ![c] = "store"]
        /\ nextID' = nextID + 1 /\ users' = users
    BY <1>9 DEF TakeId, Goto
  <2>2. \A d \in Calls : pc[d] # "store"
    BY <1>3, <2>1 DEF Writing
  <2>3. Given = 43 .. nextID - 1 /\ nextID >= 43
    BY <2>2 DEF CountInv
  <2>4. Given' = Given
    BY <2>1 DEF Given, Registered
  <2>5. /\ pc'[c] = "store" /\ nextID' >= 44
        /\ nextID' >= 43 /\ nextID' - 2 = nextID - 1
    BY <2>1, <2>3
  <2>6. Given' = 43 .. nextID' - 2
    BY <2>3, <2>4, <2>5
  <2>7. ~\A d \in Calls : pc'[d] # "store"
    BY <2>5
  <2> QED
    BY <2>5, <2>6, <2>7 DEF CountInv
<1>10. ASSUME NEW c \in Calls, Store(c)
       PROVE  CountInv'
  <2>1. /\ pc[c] = "store" /\ pc' = [pc EXCEPT ![c] = "unlock"] /\ nextID' = nextID
        /\ DOMAIN users' = DOMAIN users \cup {Login(c)}
    BY <1>10 DEF Store, Goto
  <2>2. \A d \in Calls : pc'[d] # "store"
    BY <1>3, <2>1 DEF Writing
  <2>3. nextID >= 44 /\ Given = 43 .. nextID - 2
    BY <2>1 DEF CountInv
  <2>4. Login(c) \notin DOMAIN users /\ DOMAIN First \subseteq DOMAIN users /\ id[c] = nextID - 1
    BY <1>1, <2>1 DEF CreateInv, TypeOK
  <2>5. Registered' = Registered \cup {Login(c)} /\ Login(c) \notin Registered
    BY <2>1, <2>4 DEF Registered, First
  <2>6. users'[Login(c)].ID = id[c] /\ \A l \in Registered : users'[l] = users[l]
    BY <1>10, <2>4 DEF Store, Registered
  <2>7. Given' = Given \cup {id[c]}
    BY <2>5, <2>6 DEF Given
  <2>8. Given' = 43 .. nextID' - 1
    BY <2>1, <2>3, <2>4, <2>7
  <2> QED
    BY <2>1, <2>2, <2>3, <2>8 DEF CountInv
<1>11. CASE UNCHANGED vars
  BY <1>11 DEF vars, CountInv, Given, Registered
<1> QED
  BY <1>6, <1>7, <1>8, <1>9, <1>10, <1>11 DEF Next, Serve, Profile, Create

\* A call keeps what it asked for.
LEMMA AskNext == Inv /\ AskInv /\ [Next]_vars => AskInv'
<1> SUFFICES ASSUME Inv, AskInv, [Next]_vars PROVE AskInv'
  OBVIOUS
<1>1. DOMAIN pc = Calls /\ DOMAIN in = Calls /\ DOMAIN req = Calls
  BY DEF Inv, TypeOK, Domains
<1> USE <1>1
<1>2. ASSUME NEW c \in Calls, AskOf(c)',
             \A d \in Calls \ {c} : pc'[d] = pc[d] /\ in'[d] = in[d] /\ req'[d] = req[d]
      PROVE  AskInv'
  BY <1>2 DEF AskInv, AskOf
<1>3. ASSUME NEW c \in Calls, NEW r \in Requests[c], Receive(c, r)
      PROVE  AskInv'
  <2>1. CASE pc'[c] = "answered"
    <3>1. AskOf(c)'
      BY <2>1 DEF AskOf
    <3> QED
      BY <1>2, <1>3, <3>1 DEF Receive, Goto
  <2>2. CASE pc'[c] # "answered"
    <3>1. /\ req'[c] = r
          /\ pc'[c] = IF r.path = "/user/profile" THEN "rlock" ELSE "lock"
          /\ in'[c] = Unmarshalled(
               IF r.path = "/user/profile" THEN ProfileParams ELSE CreateParams, UrlVal(r))
      BY <1>3, <2>2 DEF Receive, Goto
    <3>2. in'[c] # <<>>
      BY <3>1, ParamsFilled
    <3>3. AskOf(c)'
      BY <3>1, <3>2 DEF AskOf
    <3> QED
      BY <1>2, <1>3, <3>3 DEF Receive, Goto
  <2> QED
    BY <2>1, <2>2
<1>4. ASSUME NEW c \in Calls, RLock(c) \/ Lookup(c) \/ RUnlock(c) \/ Write(c)
      PROVE  AskInv'
  <2>1. AskOf(c)'
    BY <1>4 DEF RLock, Lookup, RUnlock, Write, Goto, AskInv, AskOf
  <2> QED
    BY <1>2, <1>4, <2>1 DEF RLock, Lookup, RUnlock, Write, Goto
<1>5. ASSUME NEW c \in Calls, Lock(c) \/ Drain(c) \/ CheckLogin(c) \/ TakeId(c) \/ Store(c)
      PROVE  AskInv'
  <2>1. AskOf(c)'
    BY <1>5 DEF Lock, Drain, CheckLogin, TakeId, Store, Goto, AskInv, AskOf
  <2> QED
    BY <1>2, <1>5, <2>1 DEF Lock, Drain, CheckLogin, TakeId, Store, Goto
<1>6. ASSUME NEW c \in Calls, Unlock(c)
      PROVE  AskInv'
  <2>1. TypeOK
    BY DEF Inv
  <2>2. /\ pc[c] = "unlock" /\ pc'[c] = "write" /\ UNCHANGED <<req, in>>
        /\ \A d \in Calls \ {c} : IF pc[d] = "rwait" THEN pc'[d] = "lookup" ELSE pc'[d] = pc[d]
    BY <1>6, <2>1, Woken
  <2> QED
    BY <2>2 DEF AskInv, AskOf
<1>7. CASE UNCHANGED vars
  BY <1>7 DEF vars, AskInv, AskOf
<1> QED
  BY <1>3, <1>4, <1>5, <1>6, <1>7 DEF Next, Serve, Profile, Create

AskedAll == [c \in Calls |-> Asked(c)]

\* Calls that have asked go on asking the same, as long as their req and in stay.
LEMMA AskedKept ==
  ASSUME \A d \in Calls : req'[d] = req[d] /\ in'[d] = in[d]
  PROVE  AskedAll' = AskedAll
BY DEF AskedAll, Asked, Login

\* A step that touches no user, no outcome and no request is a stutter.
LEMMA Stutters ==
  ASSUME users' = users, res' = res, req' = req, in' = in
  PROVE  UNCHANGED <<users, AskedAll, res>>
BY AskedKept

\* A request that gets to its method arrives at the registry, the others do not.
LEMMA ReceiveRefines ==
  ASSUME Inv, AskInv, NEW c \in Calls, NEW r \in Requests[c], Receive(c, r)
  PROVE  Registry!RegistryNext \/ UNCHANGED <<users, AskedAll, res>>
<1>1. /\ pc[c] = "idle" /\ UNCHANGED <<users, res>> /\ req' = [req EXCEPT ![c] = r]
      /\ in[c] = <<>> /\ DOMAIN req = Calls /\ DOMAIN in = Calls
  BY DEF Receive, Goto, apiVars, AskInv, AskOf, Inv, Domains
<1>2. Asked(c) = <<>>
  BY <1>1 DEF Asked
<1>3. CASE in' = in
  <2>1. \A d \in Calls : Asked(d)' = Asked(d)
    <3>1. Asked(c)' = <<>>
      BY <1>1, <1>3 DEF Asked
    <3>2. ASSUME NEW d \in Calls, d # c PROVE Asked(d)' = Asked(d)
      BY <1>1, <1>3, <3>2 DEF Asked, Login
    <3> QED
      BY <1>2, <3>1, <3>2
  <2>2. AskedAll' = AskedAll
    BY <2>1 DEF AskedAll
  <2> QED
    BY <1>1, <2>2
<1>4. CASE in' # in
  <2>1. in' = [in EXCEPT ![c] = Unmarshalled(
                 IF r.path = "/user/profile" THEN ProfileParams ELSE CreateParams, UrlVal(r))]
    BY <1>4 DEF Receive
  <2>2. in'[c] # <<>> /\ req'[c] = r
    BY <1>1, <2>1, ParamsFilled
  <2>3. Asked(c)' \in Asks
    <3>1. r \in UNION {Requests[d] : d \in Calls}
      OBVIOUS
    <3>2. CASE r.path = "/user/profile"
      <4>1. in'[c] = Unmarshalled(ProfileParams, UrlVal(r))
        BY <1>1, <2>1, <3>2
      <4>2. Asked(c)' = [op |-> "profile", login |-> Unmarshalled(ProfileParams, UrlVal(r)).Login]
        BY <2>2, <3>2, <4>1 DEF Asked, Login
      <4> QED
        BY <3>1, <4>2 DEF Asks
    <3>3. CASE r.path # "/user/profile"
      <4>1. in'[c] = Unmarshalled(CreateParams, UrlVal(r))
        BY <1>1, <2>1, <3>3
      <4>2. Asked(c)' = [op |-> "create", login |-> Unmarshalled(CreateParams, UrlVal(r)).Login,
                         user |-> NewAccount(Unmarshalled(CreateParams, UrlVal(r)))]
        BY <2>2, <3>3, <4>1 DEF Asked, Login
      <4> QED
        BY <3>1, <4>2 DEF Asks
    <3> QED
      BY <3>2, <3>3
  <2>4. AskedAll' = [AskedAll EXCEPT ![c] = Asked(c)']
    <3>1. ASSUME NEW d \in Calls, d # c PROVE Asked(d)' = Asked(d)
      BY <1>1, <2>1, <3>1 DEF Asked, Login
    <3> QED
      BY <3>1 DEF AskedAll
  <2>5. Registry!Arrive(c)
    BY <1>1, <1>2, <2>3, <2>4 DEF Registry!Arrive, Registry!NotAsked, AskedAll
  <2> QED
    BY <2>5 DEF Registry!RegistryNext
<1> QED
  BY <1>3, <1>4

\* What a call in Profile, or in Create, asks of the registry.
LEMMA Asking ==
  ASSUME Inv, AskInv, NEW c \in Calls
  PROVE  /\ pc[c] = "lookup" =>
              /\ AskedAll[c] # <<>> /\ AskedAll[c].op = "profile"
              /\ AskedAll[c].login = Login(c) /\ res[c] = <<>>
         /\ pc[c] \in {"exists", "store"} =>
              /\ AskedAll[c] # <<>> /\ AskedAll[c].op = "create"
              /\ AskedAll[c].login = Login(c) /\ AskedAll[c].user = NewAccount(in[c])
              /\ res[c] = <<>>
<1>1. AskedAll[c] = Asked(c)
  BY DEF AskedAll
<1>2. pc[c] \in {"lookup", "exists", "store"} => res[c] = <<>>
  BY DEF Inv, ResultInv, ResultOf
<1>3. ASSUME pc[c] = "lookup"
      PROVE  Asked(c) = [op |-> "profile", login |-> Login(c)]
  BY <1>3 DEF AskInv, AskOf, Asked
<1>4. ASSUME pc[c] \in {"exists", "store"}
      PROVE  Asked(c) = [op |-> "create", login |-> Login(c), user |-> NewAccount(in[c])]
  BY <1>4 DEF AskInv, AskOf, Asked
<1>5. /\ [op |-> "profile", login |-> Login(c)] # <<>>
      /\ [op |-> "create", login |-> Login(c), user |-> NewAccount(in[c])] # <<>>
  <2>1. /\ DOMAIN [op |-> "profile", login |-> Login(c)] # {}
        /\ DOMAIN [op |-> "create", login |-> Login(c), user |-> NewAccount(in[c])] # {}
        /\ DOMAIN <<>> = {}
    OBVIOUS
  <2> QED
    BY <2>1
<1> QED
  BY <1>1, <1>2, <1>3, <1>4, <1>5

\* Lookup shows the user or misses it.
LEMMA LookupRefines ==
  ASSUME Inv, AskInv, NEW c \in Calls, Lookup(c)
  PROVE  Registry!RegistryNext
<1>1. /\ pc[c] = "lookup" /\ users' = users /\ AskedAll' = AskedAll
      /\ res' = [res EXCEPT ![c] = IF Login(c) \in DOMAIN users THEN <<"found">>
                                                                ELSE <<"missing">>]
  BY AskedKept DEF Lookup, Goto, apiVars
<1>2. CASE Login(c) \in DOMAIN users
  <2>1. Registry!Show(c)
    BY <1>1, <1>2, Asking DEF Registry!Show, Registry!Asking, Registry!Known,
       Registry!Comes, Registry!NotAsked, Registry!Open, AskedAll
  <2> QED
    BY <2>1 DEF Registry!RegistryNext
<1>3. CASE Login(c) \notin DOMAIN users
  <2>1. Registry!Miss(c)
    BY <1>1, <1>3, Asking DEF Registry!Miss, Registry!Asking, Registry!Known,
       Registry!Comes, Registry!NotAsked, Registry!Open, AskedAll
  <2> QED
    BY <2>1 DEF Registry!RegistryNext
<1> QED
  BY <1>2, <1>3

\* A conflict is the refusal; a login that is free is not.
LEMMA CheckRefines ==
  ASSUME Inv, AskInv, NEW c \in Calls, CheckLogin(c)
  PROVE  Registry!RegistryNext \/ UNCHANGED <<users, AskedAll, res>>
<1>1. pc[c] = "exists" /\ users' = users /\ AskedAll' = AskedAll
  BY AskedKept DEF CheckLogin, apiVars
<1>2. CASE Login(c) \in DOMAIN users
  <2>1. res' = [res EXCEPT ![c] = <<"conflict">>]
    BY <1>2 DEF CheckLogin, Exist
  <2>2. Registry!Refuse(c)
    BY <1>1, <1>2, <2>1, Asking DEF Registry!Refuse, Registry!Asking, Registry!Known,
       Registry!Comes, Registry!NotAsked, Registry!Open, AskedAll
  <2> QED
    BY <2>2 DEF Registry!RegistryNext
<1>3. CASE Login(c) \notin DOMAIN users
  BY <1>1, <1>3 DEF CheckLogin, Exist
<1> QED
  BY <1>2, <1>3

\* The store is the registration, under the next id.
LEMMA StoreRefines ==
  ASSUME Inv, AskInv, CountInv, NEW c \in Calls, Store(c)
  PROVE  Registry!RegistryNext
<1>1. /\ pc[c] = "store" /\ AskedAll' = AskedAll
      /\ users' = [l \in DOMAIN users \cup {Login(c)} |->
                     IF l = Login(c) THEN [ID |-> id[c], user |-> NewAccount(in[c])]
                     ELSE users[l]]
      /\ res' = [res EXCEPT ![c] = <<"created", id[c]>>]
  BY AskedKept DEF Store, Goto
<1>2. Login(c) \notin DOMAIN users /\ id[c] = nextID - 1
  BY <1>1 DEF Inv, CreateInv
<1>3. nextID \in Nat /\ nextID >= 44 /\ Given = 43 .. nextID - 2
  BY <1>1 DEF CountInv, Inv, TypeOK
<1>4. id[c] \in Registry!Fresh
  <2>1. Registry!Given = Given
    BY DEF Registry!Given, Given, Registered
  <2>2. id[c] \notin Given
    BY <1>2, <1>3
  <2>3. id[c] = 43 \/ id[c] - 1 \in Given
    BY <1>2, <1>3
  <2>4. id[c] \in {43} \cup {n + 1 : n \in Given}
    BY <1>2, <1>3, <2>3
  <2> QED
    BY <2>1, <2>2, <2>4 DEF Registry!Fresh
<1>5. Registry!Register(c)
  <2>1. Registry!Asking(c, "create") /\ ~Registry!Known(c)
    BY <1>1, <1>2, Asking DEF Registry!Asking, Registry!Known, Registry!NotAsked,
       Registry!Open, AskedAll
  <2>2. AskedAll[c].login = Login(c) /\ AskedAll[c].user = NewAccount(in[c])
    BY <1>1, Asking
  <2>3. users' = [l \in DOMAIN users \cup {AskedAll[c].login} |->
                    IF l = AskedAll[c].login
                    THEN [ID |-> id[c], user |-> AskedAll[c].user]
                    ELSE users[l]]
    BY <1>1, <2>2
  <2>4. Registry!Comes(c, <<"created", id[c]>>)
    BY <1>1 DEF Registry!Comes, AskedAll
  <2> QED
    BY <1>4, <2>1, <2>3, <2>4 DEF Registry!Register, AskedAll
<1> QED
  BY <1>5 DEF Registry!RegistryNext

\* Handlers that run side by side implement the registry: each call takes effect at
\* one instant, whatever the interleaving.
THEOREM RegistryRefinement == Spec => ImplementsRegistry
<1>1. Init => Registry!RegistryInit /\ CountInv /\ AskInv
  <2> SUFFICES ASSUME Init PROVE Registry!RegistryInit /\ CountInv /\ AskInv
    OBVIOUS
  <2>1. Registered = {} /\ \A c \in Calls : pc[c] # "store"
    BY DEF Init, Registered
  <2>2. CountInv
    BY <2>1 DEF CountInv, Given, Init
  <2>3. AskInv
    BY DEF Init, AskInv, AskOf
  <2>4. [c \in Calls |-> Asked(c)] = [c \in Calls |-> <<>>]
    BY DEF Init, Asked
  <2>5. Registry!RegistryInit
    BY <2>4 DEF Init, Registry!RegistryInit, Registry!NotAsked, Registry!Open
  <2> QED
    BY <2>2, <2>3, <2>5
<1>2. Inv /\ CountInv /\ AskInv /\ [Next]_vars =>
        [Registry!RegistryNext]_(Registry!registryVars)
  <2> SUFFICES ASSUME Inv, CountInv, AskInv, [Next]_vars
               PROVE  Registry!RegistryNext \/ UNCHANGED <<users, AskedAll, res>>
    BY DEF Registry!registryVars, AskedAll
  <2>1. ASSUME NEW c \in Calls, NEW r \in Requests[c], Receive(c, r)
        PROVE  Registry!RegistryNext \/ UNCHANGED <<users, AskedAll, res>>
    BY <2>1, ReceiveRefines
  <2>2. ASSUME NEW c \in Calls,
               \/ RLock(c) \/ RUnlock(c) \/ Lock(c) \/ Drain(c)
               \/ TakeId(c) \/ Unlock(c) \/ Write(c)
        PROVE  UNCHANGED <<users, AskedAll, res>>
    <3>1. users' = users /\ res' = res /\ req' = req /\ in' = in
      BY <2>2 DEF RLock, RUnlock, Lock, Drain, TakeId, Unlock, Write, apiVars
    <3> QED
      BY <3>1, Stutters
  <2>3. ASSUME NEW c \in Calls, Lookup(c)
        PROVE  Registry!RegistryNext
    BY <2>3, LookupRefines
  <2>4. ASSUME NEW c \in Calls, CheckLogin(c)
        PROVE  Registry!RegistryNext \/ UNCHANGED <<users, AskedAll, res>>
    BY <2>4, CheckRefines
  <2>5. ASSUME NEW c \in Calls, Store(c)
        PROVE  Registry!RegistryNext
    BY <2>5, StoreRefines
  <2>6. CASE UNCHANGED vars
    BY <2>6, Stutters DEF vars
  <2> QED
    BY <2>1, <2>2, <2>3, <2>4, <2>5, <2>6 DEF Next, Serve, Profile, Create
<1>3. Inv /\ CountInv /\ AskInv /\ [Next]_vars => CountInv' /\ AskInv'
  BY CountNext, AskNext
<1> QED
  BY <1>1, <1>2, <1>3, Invariance, PTL DEF Spec, ImplementsRegistry, Registry!RegistrySpec
-----------------------------------------------------------------------------
(***************************************************************************)
(* Progress.  EveryCallAnswered needs fairness; that calls do not wait in  *)
(* a circle does not.                                                      *)
(***************************************************************************)

\* The calls that must leave mu before c goes on: a reader and a writer wait for the
\* writer whose turn it is, which waits for the readers that came before it.
WaitsFor(c) ==
  CASE pc[c] \in {"rwait", "lock"} -> {d \in Calls : mu = d}
    [] pc[c] = "drain" -> readers
    [] OTHER -> {}

\* The waiting calls form no circle: whom c waits for is inside the lock and waits for
\* nobody, or is a writer that waits for nobody but readers inside the lock.  And a call
\* that waits for nobody is not kept from going on.
NoVainWait ==
  \A c \in Calls :
    /\ \A d \in WaitsFor(c) :
         \/ pc[d] \in Writing \cup Reading /\ WaitsFor(d) = {}
         \/ /\ pc[d] = "drain"
            /\ \A e \in WaitsFor(d) : pc[e] \in Reading /\ WaitsFor(e) = {}
    /\ pc[c] = "rwait" => WaitsFor(c) # {}
    /\ pc[c] = "lock" /\ WaitsFor(c) = {} => Free
    /\ pc[c] = "drain" /\ WaitsFor(c) = {} => readers = {}

\* Chains of waiting calls, also those of a reader behind a writer behind readers, are
\* finite and end in a call that can go on: the RWMutex of MyApi never deadlocks.
THEOREM NeverWaitsInVain == Spec => []NoVainWait
<1>1. Inv => NoVainWait
  <2> SUFFICES ASSUME Inv, NEW c \in Calls
               PROVE  /\ \A d \in WaitsFor(c) :
                           \/ pc[d] \in Writing \cup Reading /\ WaitsFor(d) = {}
                           \/ /\ pc[d] = "drain"
                              /\ \A e \in WaitsFor(d) : pc[e] \in Reading /\ WaitsFor(e) = {}
                      /\ pc[c] = "rwait" => WaitsFor(c) # {}
                      /\ pc[c] = "lock" /\ WaitsFor(c) = {} => Free
                      /\ pc[c] = "drain" /\ WaitsFor(c) = {} => readers = {}
    BY DEF NoVainWait
  <2>1. LockInv /\ mu \in Calls \cup {None} /\ readers \subseteq Calls
    BY DEF Inv, TypeOK
  <2>2. ASSUME NEW d \in Calls, pc[d] \in Writing \cup Reading PROVE WaitsFor(d) = {}
    <3>1. pc[d] \notin {"rwait", "lock", "drain"}
      BY <2>2 DEF Writing, Reading
    <3> QED
      BY <3>1 DEF WaitsFor
  <2>3. ASSUME NEW d \in readers PROVE pc[d] \in Reading /\ WaitsFor(d) = {}
    BY <2>1, <2>2 DEF LockInv
  <2>4. ASSUME NEW d \in WaitsFor(c)
        PROVE  \/ pc[d] \in Writing \cup Reading /\ WaitsFor(d) = {}
               \/ /\ pc[d] = "drain"
                  /\ \A e \in WaitsFor(d) : pc[e] \in Reading /\ WaitsFor(e) = {}
    <3>1. d \in readers \/ (d \in Calls /\ mu = d)
      BY DEF WaitsFor
    <3>2. CASE d \in readers
      BY <2>3, <3>2
    <3>3. CASE d \in Calls /\ mu = d
      <4>1. pc[d] \in Writing \/ pc[d] = "drain"
        BY <2>1, <3>3 DEF LockInv
      <4>2. pc[d] = "drain" => WaitsFor(d) = readers
        BY DEF WaitsFor
      <4> QED
        BY <2>2, <2>3, <3>3, <4>1, <4>2
    <3> QED
      BY <3>1, <3>2, <3>3
  <2>5. ASSUME pc[c] \in {"rwait", "lock"} PROVE WaitsFor(c) = {} <=> mu = None
    <3>1. WaitsFor(c) = {d \in Calls : mu = d}
      BY <2>5 DEF WaitsFor
    <3> QED
      BY <2>1, <3>1, CallAssumption
  <2>6. pc[c] = "rwait" => WaitsFor(c) # {}
    BY <2>1, <2>5 DEF LockInv
  <2>7. pc[c] = "lock" /\ WaitsFor(c) = {} => Free
    BY <2>5 DEF Free
  <2>8. pc[c] = "drain" => WaitsFor(c) = readers
    BY DEF WaitsFor
  <2> QED
    BY <2>4, <2>6, <2>7, <2>8
<1> QED
  BY <1>1, Invariance, PTL
=============================================================================
