------------------------------ MODULE UserApi ------------------------------
(***************************************************************************)
(* The HTTP user API of hw5_codegen: the handlers of api_handlers.go, each *)
(* request in a goroutine of its own, and the methods of api.go that they  *)
(* call.  MyApi keeps users in a map and the next id in a counter, both    *)
(* guarded by an RWMutex; OtherApi keeps nothing.                          *)
(***************************************************************************)
EXTENDS ParamRules

CONSTANTS Calls,     \* HTTP requests, each served once
          Requests,  \* what the client of each call may send
          BadUser, BadUsername,  \* the logins Profile and Create fail on
          Rvasily,   \* the login NewMyApi starts with
          None       \* no writer

ASSUME CallAssumption == None \notin Calls

\* A text has a length, and strconv.Atoi reads at most one number in it.
ASSUME TextAssumption ==
  \A c \in Calls : \A r \in Requests[c] : \A name \in DOMAIN UrlVal(r) :
    LET text == UrlVal(r)[name]
    IN  text.len \in Nat /\ text.ints \subseteq Int /\ \A m, n \in text.ints : m = n

VARIABLES users,    \* MyApi.users: login -> user
          nextID,   \* MyApi.nextID
          mu,       \* the writer that holds MyApi.mu or waits for its readers, or None
          readers,  \* the readers that hold it
          pc,       \* where the goroutine of each call is
          req,      \* the request of each call
          in,       \* the params struct that Unmarshall filled for it
          id,       \* Create: the local id
          res,      \* what the method has come to: its res, err
          answer    \* the status and body of the response

apiVars == <<users, nextID, mu, readers>>
vars == <<users, nextID, mu, readers, pc, req, in, id, res, answer>>
-----------------------------------------------------------------------------
(***************************************************************************)
(* The annotations and the struct tags of api.go.                          *)
(***************************************************************************)

Part(l, v) == [label |-> l, value |-> v]
Field(n, t, s, tag) == [name |-> n, type |-> t, snake |-> s, tag |-> tag]
Word(w, n) == [len |-> n, ints |-> {}, words |-> <<w>>]

Required == Part("required", <<>>)
Statuses == <<"user", "moderator", "admin">>

ProfileParams == << Field("Login", "string", "login", <<Required>>) >>

CreateParams ==
  << Field("Login", "string", "login", <<Required, Part("min", 10)>>),
     Field("Name", "string", "name", <<Part("paramname", "full_name")>>),
     Field("Status", "string", "status",
           <<Part("enum", Statuses), Part("default", Word("user", 4))>>),
     Field("Age", "int", "age", <<Part("min", 0), Part("max", 128)>>) >>

OtherCreateParams ==
  << Field("Username", "string", "username", <<Required, Part("min", 3)>>),
     Field("Name", "string", "name", <<Part("paramname", "account_name")>>),
     Field("Class", "string", "class",
           <<Part("enum", <<"warrior", "sorcerer", "rouge">>),
             Part("default", Word("warrior", 7))>>),
     Field("Level", "int", "level", <<Part("min", 1), Part("max", 50)>>) >>

Handler(m, a, f) == [method |-> m, auth |-> a, fields |-> f]
ProfileHandler == Handler("", FALSE, ProfileParams)
CreateHandler == Handler("POST", TRUE, CreateParams)
OtherCreateHandler == Handler("POST", TRUE, OtherCreateParams)

\* srv.statuses[in.Status]; a key the map lacks reads as 0.
StatusOf(text) ==
  IF text.words = <<"moderator">> THEN 10 ELSE IF text.words = <<"admin">> THEN 20 ELSE 0

Account(n, s) == [FullName |-> n, Status |-> s]
NewAccount(params) == Account(params.Name, StatusOf(params.Status))
Login(c) == in[c].Login

First == [l \in {Rvasily} |-> [ID |-> 42, user |-> Account("Vasily Romanov", 20)]]

Init ==
  /\ users = First
  /\ nextID = 43
  /\ mu = None /\ readers = {}
  /\ pc = [c \in Calls |-> "idle"]
  /\ req = [c \in Calls |-> <<>>]
  /\ in = [c \in Calls |-> <<>>]
  /\ id = [c \in Calls |-> 0]
  /\ res = [c \in Calls |-> <<>>]
  /\ answer = [c \in Calls |-> <<>>]

Goto(c, from, to) == pc[c] = from /\ pc' = [pc EXCEPT ![c] = to]
-----------------------------------------------------------------------------
(***************************************************************************)
(* ServeHTTP and the checks of the handler.                                *)
(***************************************************************************)

\* What comes before the method locks mu: the status of the answer, or 0.
Refusal(r) ==
  IF r.srv = "OtherApi"
  THEN IF r.path = "/user/create" THEN Rejection(OtherCreateHandler, r) ELSE 404
  ELSE CASE r.path = "/user/profile" ->
              LET s == Rejection(ProfileHandler, r)
              IN  IF s = 0 /\ Get(UrlVal(r), "login") = BadUser THEN 500 ELSE s
         [] r.path = "/user/create" ->
              LET s == Rejection(CreateHandler, r)
              IN  IF s = 0 /\ Get(UrlVal(r), "login") = BadUsername THEN 500 ELSE s
         [] OTHER -> 404

\* A request arrives; it is answered at once, or goes on to its method.
\* OtherApi.Create answers with the id 12.
Receive(c, r) ==
  /\ IF Refusal(r) # 0 \/ r.srv = "OtherApi"
     THEN /\ Goto(c, "idle", "answered")
          /\ answer' = [answer EXCEPT ![c] =
                          IF Refusal(r) # 0 THEN <<Refusal(r), <<>>>> ELSE <<200, 12>>]
          /\ UNCHANGED in
     ELSE /\ LET profile == r.path = "/user/profile"
             IN  /\ Goto(c, "idle", IF profile THEN "rlock" ELSE "lock")
                 /\ in' = [in EXCEPT ![c] = Unmarshalled(
                             IF profile THEN ProfileParams ELSE CreateParams, UrlVal(r))]
          /\ UNCHANGED answer
  /\ req' = [req EXCEPT ![c] = r]
  /\ UNCHANGED <<apiVars, id, res>>
-----------------------------------------------------------------------------
(***************************************************************************)
(* MyApi.Profile.  The operators named ...Slip are the code with one       *)
(* plausible mistake each; no specification uses them.                     *)
(***************************************************************************)

\* srv.mu.RLock(): a reader waits for the writer that holds mu, and also for one
\* that still waits for the readers before it.
RLock(c) ==
  /\ \/ /\ mu = None
        /\ Goto(c, "rlock", "lookup")
        /\ readers' = readers \cup {c}
     \/ /\ mu # None
        /\ Goto(c, "rlock", "rwait")
        /\ UNCHANGED readers
  /\ UNCHANGED <<users, nextID, mu, req, in, id, res, answer>>

Lookup(c) ==
  /\ Goto(c, "lookup", "runlock")
  /\ res' = [res EXCEPT ![c] = IF Login(c) \in DOMAIN users THEN <<"found">> ELSE <<"missing">>]
  /\ UNCHANGED <<apiVars, req, in, id, answer>>

RUnlock(c) ==
  /\ Goto(c, "runlock", "write")
  /\ readers' = readers \ {c}
  /\ UNCHANGED <<users, nextID, mu, req, in, id, res, answer>>
-----------------------------------------------------------------------------
(***************************************************************************)
(* MyApi.Create.                                                           *)
(***************************************************************************)

FreeSlip == TRUE

Free == mu = None

\* srv.mu.Lock(): writers come one after the other, and the one whose turn it is
\* keeps new readers out.
Lock(c) ==
  /\ Free
  /\ Goto(c, "lock", "drain")
  /\ mu' = c
  /\ UNCHANGED <<users, nextID, readers, req, in, id, res, answer>>

\* Lock returns when the readers that were there before it have left.
Drain(c) ==
  /\ readers = {}
  /\ Goto(c, "drain", "exists")
  /\ UNCHANGED <<apiVars, req, in, id, res, answer>>

ExistSlip(c) == FALSE

Exist(c) == Login(c) \in DOMAIN users

\* _, exist := srv.users[in.Login]: the conflict, or on to the registration.
CheckLogin(c) ==
  /\ pc[c] = "exists"
  /\ IF Exist(c)
     THEN /\ Goto(c, "exists", "unlock")
          /\ res' = [res EXCEPT ![c] = <<"conflict">>]
     ELSE /\ Goto(c, "exists", "take_id")
          /\ UNCHANGED res
  /\ UNCHANGED <<apiVars, req, in, id, answer>>

FreshIDSlip == nextID + 1

FreshID == nextID

\* id := srv.nextID; srv.nextID++
TakeId(c) ==
  /\ Goto(c, "take_id", "store")
  /\ id' = [id EXCEPT ![c] = FreshID]
  /\ nextID' = nextID + 1
  /\ UNCHANGED <<users, mu, readers, req, in, res, answer>>

Store(c) ==
  /\ Goto(c, "store", "unlock")
  /\ users' = [l \in DOMAIN users \cup {Login(c)} |->
                 IF l = Login(c) THEN [ID |-> id[c], user |-> NewAccount(in[c])] ELSE users[l]]
  /\ res' = [res EXCEPT ![c] = <<"created", id[c]>>]
  /\ UNCHANGED <<nextID, mu, readers, req, in, id, answer>>

ReleasedSlip(c) == IF res[c] = <<"conflict">> THEN mu ELSE None

Released(c) == None

Waiting == {d \in Calls : pc[d] = "rwait"}

\* The deferred srv.mu.Unlock(), which runs on every return: the readers that wait
\* hold mu before the next writer does.
Unlock(c) ==
  /\ pc[c] = "unlock"
  /\ pc' = [d \in Calls |-> IF d = c THEN "write" ELSE IF d \in Waiting THEN "lookup" ELSE pc[d]]
  /\ mu' = Released(c)
  /\ readers' = readers \cup Waiting
  /\ UNCHANGED <<users, nextID, req, in, id, res, answer>>
-----------------------------------------------------------------------------
\* The response.  A profile is read through the pointer that Profile
\* returned, now that mu is free again.
Response(c) ==
  CASE res[c][1] = "found"    -> <<200, users[Login(c)]>>
    [] res[c][1] = "missing"  -> <<404, <<>>>>
    [] res[c][1] = "created"  -> <<200, res[c][2]>>
    [] res[c][1] = "conflict" -> <<409, <<>>>>

Write(c) ==
  /\ Goto(c, "write", "answered")
  /\ answer' = [answer EXCEPT ![c] = Response(c)]
  /\ UNCHANGED <<apiVars, req, in, id, res>>

Profile(c) == RLock(c) \/ Lookup(c) \/ RUnlock(c)
Create(c) == Lock(c) \/ Drain(c) \/ CheckLogin(c) \/ TakeId(c) \/ Store(c) \/ Unlock(c)
Serve(c) == Profile(c) \/ Create(c) \/ Write(c)

Next == \E c \in Calls : Serve(c) \/ \E r \in Requests[c] : Receive(c, r)

Spec == Init /\ [][Next]_vars

\* The goroutine of a request runs on; an RWMutex starves nobody.
FairSpec == Spec /\ \A c \in Calls : WF_vars(Serve(c))
-----------------------------------------------------------------------------
TypeOK ==
  /\ DOMAIN First \subseteq DOMAIN users
  /\ \A l \in DOMAIN users : users[l].ID \in 0 .. nextID - 1
  /\ nextID \in Nat
  /\ mu \in Calls \cup {None}
  /\ readers \subseteq Calls
  /\ pc \in [Calls -> {"idle", "rlock", "rwait", "lookup", "runlock", "lock", "drain", "exists",
                       "take_id", "store", "unlock", "write", "answered"}]
  /\ \A c \in Calls : req[c] \in Requests[c] \cup {<<>>}
  /\ id \in [Calls -> Nat]

\* Handlers that run side by side leave the users, and give the answers, of
\* some order of calls that run alone: a login is registered once, ids are
\* given out without gap or repetition, no registration is lost.
Asked(c) ==
  IF in[c] = <<>> THEN <<>>
  ELSE IF req[c].path = "/user/profile" THEN [op |-> "profile", login |-> Login(c)]
  ELSE [op |-> "create", login |-> Login(c), user |-> NewAccount(in[c])]

Asks ==
  LET sent == UNION {Requests[c] : c \in Calls} IN
  {[op |-> "profile", login |-> Unmarshalled(ProfileParams, UrlVal(r)).Login] : r \in sent}
  \cup {LET params == Unmarshalled(CreateParams, UrlVal(r))
        IN  [op |-> "create", login |-> params.Login, user |-> NewAccount(params)] :
          r \in sent}

Registry == INSTANCE UserRegistry WITH
              accounts <- users, asked <- [c \in Calls |-> Asked(c)], outcome <- res,
              FirstId <- 43
ImplementsRegistry == Registry!RegistrySpec

\* An answer stays true: the profile that was sent is the user there is, now
\* and ever after, and so is the id that was sent.
AnswersStayTrue ==
  \A c \in Calls : pc[c] = "answered" /\ answer[c][1] = 200 /\ res[c] # <<>> =>
    IF res[c] = <<"found">> THEN answer[c][2] = users[Login(c)]
    ELSE answer[c][2] = users[Login(c)].ID

\* Only what the tags of CreateParams and its annotation admit is registered:
\* an authorized POST with a login of 10 letters or more and an age from 0 to
\* 128, whatever else the request holds, in its body or its URL.
OnlyValidRegistered ==
  \A c \in Calls : res[c] # <<>> /\ res[c][1] = "created" =>
    /\ req[c].method = "POST" /\ req[c].auth
    /\ Login(c).len >= 10 /\ Login(c) # BadUsername
    /\ \E a \in 0 .. 128 : in[c].Age.ints = {a}

\* Every request is answered: neither readers nor writers wait for ever, though
\* readers wait behind a writer that waits for readers.
EveryCallAnswered == \A c \in Calls : req[c] # <<>> ~> pc[c] = "answered"

\* hw5.md: a parameter with an enum is one of its values.  Refuted: the check
\* looks for the text in the list of values, where "user|moderator" occurs too.
StatusIsOneOf ==
  \A c \in Calls : res[c] # <<>> /\ res[c][1] = "created" =>
    \E i \in DOMAIN Statuses : in[c].Status.words = <<Statuses[i]>>
=============================================================================
