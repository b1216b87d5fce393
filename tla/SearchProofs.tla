---------------------------- MODULE SearchProofs ----------------------------
(***************************************************************************)
(* Proofs about the two programs that search for users: SearchClient, for  *)
(* any requests, users found and largest page, and FastSearch, for any     *)
(* files, browsers and texts.                                              *)
(***************************************************************************)
EXTENDS SearchClient, FastSearch, TLAPS, SequenceTheorems

-----------------------------------------------------------------------------
(***************************************************************************)
(* SearchClient.  The invariant says where the caller is in Found: what it *)
(* has collected ends where its next request begins.                       *)
(***************************************************************************)

Request == [token : STRING, query : Queries, field : STRING, by : Int,
            limit : Int, offset : Int]

Answers ==
  [status : {"OK", "BadRequest", "Unauthorized", "InternalServerError", "Timeout", "Broken"},
   json : {"users", "error", "none"}, users : Seq(User),
   error : {"", "order_by should be 1,0 or -1", "ErrorBadOrderField"}]
Results ==
  [error : {"", "limit must be > 0", "offset must be > 0", "timeout", "unknown error",
            "Bad AccessToken", "SearchServer fatal error", "cant unpack error json",
            "OrderFeld invalid", "unknown bad request error", "cant unpack result json"},
   users : Seq(User), next : BOOLEAN]

\* The users for the query of the caller.
Have == Found[want.query]

Types ==
  /\ pc \in {"idle", "call", "sent", "answered", "returned"}
  /\ want \in Request
  /\ sent \in Request
  /\ answer \in Answers
  /\ result \in Results
  /\ from \in Int
  /\ collected \in Seq(User)

\* What is sent is what the caller wants, with a user more.
SentInv ==
  pc \in {"sent", "answered"} =>
    /\ want.limit >= 0 /\ want.offset >= 0
    /\ sent = Asked(want)

\* What an answer says of the request: the token and the order field are blamed
\* for a cause, and users are a window of what is found.
TrueAnswer(r, a) ==
  /\ a.status = "Unauthorized" => r.token = ""
  /\ a.json = "error" /\ a.error = "ErrorBadOrderField" => r.field \notin Fields
  /\ a.json = "users" =>
       /\ a.status = "OK"
       /\ r.token # "" /\ r.field \in Fields /\ r.by \in {-1, 0, 1}
       /\ r.offset <= Len(Found[r.query])
       /\ a.users = Window(Found[r.query], r.limit, r.offset)

AnswerInv == pc = "answered" => TrueAnswer(sent, answer)

\* What a page p says of what is found for the request r.
PageOf(r, p) ==
  LET found == Found[r.query]
  IN  /\ r.offset + Len(p.users) <= Len(found)
      /\ p.users = SubSeq(found, r.offset + 1, r.offset + Len(p.users))
      /\ \A i \in 1..Len(p.users) : p.users[i] = found[r.offset + i]
      /\ Len(p.users) <= Capped(r.limit)
      /\ p.next <=> r.offset + Len(p.users) < Len(found)
      /\ p.next => Len(p.users) = Capped(r.limit)

\* What is blamed when FindUsers comes to the outcome o for the request r.
Blamed(r, o) ==
  /\ o.error = "Bad AccessToken" => r.token = ""
  /\ o.error = "OrderFeld invalid" => r.field \notin Fields
  /\ o.error = "limit must be > 0" => r.limit < 0
  /\ o.error = "offset must be > 0" => r.limit >= 0 /\ r.offset < 0
  /\ o.error = "" => /\ r.token # "" /\ r.field \in Fields
                     /\ r.by \in {-1, 0, 1}
                     /\ r.limit >= 0 /\ r.offset >= 0

\* The page that was returned, when one was.
ResultInv ==
  /\ result.error # "" => result.users = <<>> /\ ~result.next
  /\ pc = "returned" => Blamed(want, result)
  /\ Returned => PageOf(want, result)

\* How many users the caller has beyond want.offset.
Ahead == IF pc = "returned" THEN Len(result.users) ELSE 0

CollectedInv ==
  /\ from + Len(collected) = want.offset + Ahead
  /\ \A i \in 1..Len(collected) : collected[i] = Have[from + i]

SearchInv == Types /\ SentInv /\ AnswerInv /\ ResultInv /\ CollectedInv
-----------------------------------------------------------------------------
\* What is found is a sequence of users.
LEMMA FoundType ==
  ASSUME NEW q \in Queries
  PROVE  Found[q] \in Seq(User) /\ Len(Found[q]) \in Nat
<1>1. Found[q] \in Seq(User)
  BY RequestAssumption
<1> QED
  BY <1>1, LenProperties

\* A window is the users from behind offset on, limit of them or all there are.
LEMMA WindowProperties ==
  ASSUME NEW found \in Seq(User), NEW limit \in Nat, NEW offset \in Nat,
         offset <= Len(found)
  PROVE  /\ Window(found, limit, offset) \in Seq(User)
         /\ Len(Window(found, limit, offset)) =
              IF offset + limit < Len(found) THEN limit ELSE Len(found) - offset
         /\ \A i \in 1..Len(Window(found, limit, offset)) :
              Window(found, limit, offset)[i] = found[offset + i]
<1> DEFINE n == IF offset + limit < Len(found) THEN offset + limit ELSE Len(found)
<1>1. Len(found) \in Nat
  BY LenProperties
<1>2. /\ n \in Nat /\ offset <= n /\ n <= Len(found)
  BY <1>1
<1>3. Window(found, limit, offset) = SubSeq(found, offset + 1, n)
  BY DEF Window
<1>4. \A i \in offset + 1 .. n : found[i] \in User
  BY <1>1, <1>2, ElementOfSeq
<1> HIDE DEF n
<1>5. /\ SubSeq(found, offset + 1, n) \in Seq(User)
      /\ Len(SubSeq(found, offset + 1, n)) =
           IF offset + 1 <= n THEN n - (offset + 1) + 1 ELSE 0
      /\ \A i \in 1 .. n - (offset + 1) + 1 :
           SubSeq(found, offset + 1, n)[i] = found[offset + 1 + i - 1]
  BY <1>2, <1>4, SubSeqProperties
<1>6. Len(SubSeq(found, offset + 1, n)) = n - offset
  BY <1>2, <1>5
<1>7. n - offset = IF offset + limit < Len(found) THEN limit ELSE Len(found) - offset
  BY <1>1 DEF n
<1>8. \A i \in 1..n - offset : SubSeq(found, offset + 1, n)[i] = found[offset + i]
  BY <1>2, <1>5
<1> QED
  BY <1>3, <1>5, <1>6, <1>7, <1>8

\* A sequence with the users from behind offset on is that part of found.
LEMMA PartOfFound ==
  ASSUME NEW found \in Seq(User), NEW part \in Seq(User), NEW offset \in Nat,
         offset + Len(part) <= Len(found),
         \A i \in 1..Len(part) : part[i] = found[offset + i]
  PROVE  part = SubSeq(found, offset + 1, offset + Len(part))
<1> DEFINE n == offset + Len(part)
           t == SubSeq(found, offset + 1, n)
<1>1. Len(found) \in Nat /\ Len(part) \in Nat
  BY LenProperties
<1>2. \A i \in offset + 1 .. n : found[i] \in User
  BY <1>1, ElementOfSeq
<1>3. n \in Nat /\ n - offset = Len(part) /\ offset <= n
  BY <1>1
<1> HIDE DEF n
<1>4. /\ t \in Seq(User)
      /\ Len(t) = IF offset + 1 <= n THEN n - (offset + 1) + 1 ELSE 0
      /\ \A i \in 1 .. n - (offset + 1) + 1 : t[i] = found[offset + 1 + i - 1]
  BY <1>2, <1>3, SubSeqProperties
<1>5. Len(t) = Len(part)
  BY <1>1, <1>3, <1>4
<1>6. \A i \in 1..Len(part) : part[i] = t[i]
  BY <1>1, <1>3, <1>4
<1>7. part = t
  <2> HIDE DEF t
  <2> QED
    BY <1>4, <1>5, <1>6, SeqEqual
<1> QED
  BY <1>7 DEF n

\* The users from behind the offset make a page, when next says if there are more.
LEMMA UsersPage ==
  ASSUME NEW r \in Request, r.limit >= 0, r.offset >= 0,
         NEW users \in Seq(User), NEW p, p.users = users,
         Len(users) <= Capped(r.limit),
         r.offset + Len(users) <= Len(Found[r.query]),
         \A i \in 1..Len(users) : users[i] = Found[r.query][r.offset + i],
         p.next <=> r.offset + Len(users) < Len(Found[r.query]),
         p.next => Len(users) = Capped(r.limit)
  PROVE  PageOf(r, p)
<1>1. r.offset \in Nat
  BY DEF Request
<1>2. Found[r.query] \in Seq(User)
  BY FoundType DEF Request
<1>3. users = SubSeq(Found[r.query], r.offset + 1, r.offset + Len(users))
  BY <1>1, <1>2, PartOfFound
<1> QED
  BY <1>3 DEF PageOf

\* The page that FindUsers makes of a window one user longer than the page.
LEMMA UnpackPage ==
  ASSUME NEW r \in Request, NEW a \in Answers,
         r.limit >= 0, r.offset >= 0, a.json = "users",
         r.offset <= Len(Found[r.query]),
         a.users = Window(Found[r.query], Asked(r).limit, r.offset)
  PROVE  /\ Unpack(Asked(r), a) \in Results
         /\ Unpack(Asked(r), a).error = ""
         /\ PageOf(r, Unpack(Asked(r), a))
<1> DEFINE found == Found[r.query]
           cap == Capped(r.limit)
           w == a.users
           p == Unpack(Asked(r), a)
<1>1. /\ cap \in Nat /\ r.offset \in Nat /\ Asked(r).limit = cap + 1
  BY RequestAssumption DEF Request, Capped, Asked
<1>2. found \in Seq(User) /\ Len(found) \in Nat
  BY FoundType DEF Request
<1>3. /\ w \in Seq(User)
      /\ Len(w) = IF r.offset + (cap + 1) < Len(found) THEN cap + 1 ELSE Len(found) - r.offset
      /\ \A i \in 1..Len(w) : w[i] = found[r.offset + i]
  <2> HIDE DEF cap, found
  <2>1. w = Window(found, cap + 1, r.offset)
    BY <1>1 DEF found
  <2>2. r.offset <= Len(found)
    BY DEF found
  <2>3. cap + 1 \in Nat
    BY <1>1
  <2> HIDE DEF w
  <2>4. /\ Window(found, cap + 1, r.offset) \in Seq(User)
        /\ Len(Window(found, cap + 1, r.offset)) =
             IF r.offset + (cap + 1) < Len(found) THEN cap + 1 ELSE Len(found) - r.offset
        /\ \A i \in 1..Len(Window(found, cap + 1, r.offset)) :
             Window(found, cap + 1, r.offset)[i] = found[r.offset + i]
    BY <1>1, <1>2, <2>2, <2>3, WindowProperties
  <2> QED
    BY <2>1, <2>4
<1>4. Len(w) \in Nat
  BY <1>3, LenProperties
<1>5. CASE Len(w) = cap + 1
  <2> DEFINE users == SubSeq(w, 1, Len(w) - 1)
  <2>1. p = Page(users, TRUE)
    BY <1>1, <1>5 DEF Unpack
  <2>2. \A i \in 1..Len(w) - 1 : w[i] \in User
    BY <1>3, <1>4, ElementOfSeq
  <2>3. 1 \in Int /\ Len(w) - 1 \in Int
    BY <1>4
  <2>4. /\ users \in Seq(User)
        /\ Len(users) = IF 1 <= Len(w) - 1 THEN (Len(w) - 1) - 1 + 1 ELSE 0
        /\ \A i \in 1 .. (Len(w) - 1) - 1 + 1 : users[i] = w[1 + i - 1]
    <3> HIDE DEF w
    <3> QED
      BY <2>2, <2>3, SubSeqProperties
  <2> HIDE DEF users, p
  <2>5. Len(users) = cap
    BY <1>1, <1>4, <1>5, <2>4
  <2>6. \A i \in 1..Len(users) : users[i] = found[r.offset + i]
    BY <1>1, <1>3, <1>4, <1>5, <2>4, <2>5
  <2>7. Len(users) <= cap /\ r.offset + Len(users) < Len(found) /\ Len(users) \in Nat
    BY <1>1, <1>2, <1>3, <1>5, <2>5
  <2>8. p \in Results /\ p.error = "" /\ p.users = users /\ p.next = TRUE
    BY <2>1, <2>4 DEF Page, Results
  <2>9. /\ r.offset + Len(users) <= Len(found)
        /\ p.next <=> r.offset + Len(users) < Len(found)
        /\ p.next => Len(users) = cap
    <3> HIDE DEF cap, found
    <3>1. r.offset + Len(users) <= Len(found)
      BY <1>1, <1>2, <2>7
    <3> QED
      BY <2>5, <2>7, <2>8, <3>1
  <2>10. PageOf(r, p)
    BY <2>4, <2>6, <2>7, <2>8, <2>9, UsersPage
  <2> QED
    BY <2>8, <2>10 DEF p
<1>6. CASE Len(w) # cap + 1
  <2>1. p = Page(w, FALSE)
    BY <1>1, <1>6 DEF Unpack
  <2>2. /\ Len(w) = Len(found) - r.offset /\ Len(w) <= cap
    BY <1>1, <1>2, <1>3, <1>6
  <2> HIDE DEF p, w
  <2>3. r.offset + Len(w) = Len(found)
    BY <1>1, <1>2, <2>2
  <2>4. p \in Results /\ p.error = "" /\ p.users = w /\ p.next = FALSE
    BY <1>3, <2>1 DEF Page, Results
  <2>5. /\ r.offset + Len(w) <= Len(found)
        /\ p.next <=> r.offset + Len(w) < Len(found)
        /\ p.next => Len(w) = cap
    <3> HIDE DEF cap, found
    <3>1. r.offset + Len(w) <= Len(found) /\ ~(r.offset + Len(w) < Len(found))
      BY <1>1, <1>2, <1>4, <2>3
    <3> QED
      BY <2>4, <3>1
  <2>6. PageOf(r, p)
    BY <1>3, <2>2, <2>4, <2>5, UsersPage
  <2> QED
    BY <2>4, <2>6 DEF p
<1> QED
  BY <1>5, <1>6

\* What the service answers is true of the request.
LEMMA ServiceTrue ==
  ASSUME NEW r \in Request, r.limit >= 0, r.offset >= 0
  PROVE  SearchService(r) \in Answers /\ TrueAnswer(r, SearchService(r))
<1> DEFINE found == Found[r.query]
<1>1. <<>> \in Seq(User)
  OBVIOUS
<1>2. ASSUME NEW status \in {"OK", "BadRequest", "InternalServerError", "Broken"}
      PROVE  Junk(status) \in Answers /\ TrueAnswer(r, Junk(status))
  BY <1>1 DEF Junk, Answer, Answers, TrueAnswer
<1>3. ASSUME r.token = ""
      PROVE  Junk("Unauthorized") \in Answers /\ TrueAnswer(r, Junk("Unauthorized"))
  BY <1>1, <1>3 DEF Junk, Answer, Answers, TrueAnswer
<1>4. ASSUME r.field \notin Fields
      PROVE  /\ ErrorBody("ErrorBadOrderField") \in Answers
             /\ TrueAnswer(r, ErrorBody("ErrorBadOrderField"))
  BY <1>1, <1>4 DEF ErrorBody, Answer, Answers, TrueAnswer
<1>5. /\ ErrorBody("order_by should be 1,0 or -1") \in Answers
      /\ TrueAnswer(r, ErrorBody("order_by should be 1,0 or -1"))
  BY <1>1 DEF ErrorBody, Answer, Answers, TrueAnswer
<1>6. ASSUME r.token # "", r.by \in {-1, 0, 1}, r.field \in Fields, r.offset <= Len(found)
      PROVE  /\ UsersBody(Window(found, r.limit, r.offset)) \in Answers
             /\ TrueAnswer(r, UsersBody(Window(found, r.limit, r.offset)))
  <2>1. found \in Seq(User) /\ r.limit \in Nat /\ r.offset \in Nat
    BY FoundType DEF Request
  <2>2. Window(found, r.limit, r.offset) \in Seq(User)
    <3> HIDE DEF found
    <3> QED
      BY <1>6, <2>1, WindowProperties
  <2> QED
    BY <1>6, <2>2 DEF UsersBody, Answer, Answers, TrueAnswer
<1>7. r.offset \in Nat /\ Len(found) \in Nat
  BY FoundType DEF Request
<1>8. CASE \/ r.token = "" \/ r.query \in {"wrong_json", "internal", "bad_user"}
           \/ r.by \notin {-1, 0, 1} \/ r.field \notin Fields
  BY <1>2, <1>3, <1>4, <1>5, <1>8 DEF SearchService
<1>9. CASE /\ r.token # "" /\ r.query \notin {"wrong_json", "internal", "bad_user"}
           /\ r.by \in {-1, 0, 1} /\ r.field \in Fields
  <2>1. CASE r.offset > Len(found)
    BY <1>2, <1>9, <2>1 DEF SearchService
  <2>2. CASE ~(r.offset > Len(found))
    <3>1. r.offset <= Len(found)
      <4> HIDE DEF found
      <4> QED
        BY <1>7, <2>2
    <3>2. SearchService(r) = UsersBody(Window(found, r.limit, r.offset))
      BY <1>9, <2>2 DEF SearchService
    <3> QED
      BY <1>6, <1>9, <3>1, <3>2
  <2> QED
    BY <2>1, <2>2
<1> QED
  BY <1>8, <1>9

\* Asking for a user more leaves the rest of a request alone.
LEMMA AskedProperties ==
  ASSUME NEW r \in Request
  PROVE  /\ Asked(r) \in Request
         /\ Asked(r).token = r.token /\ Asked(r).query = r.query
         /\ Asked(r).field = r.field /\ Asked(r).by = r.by
         /\ Asked(r).offset = r.offset
         /\ Asked(r).limit = Capped(r.limit) + 1
         /\ r.limit >= 0 => Asked(r).limit >= 0
BY RequestAssumption DEF Request, Asked, Capped

\* A true answer to what was sent gives a page of what was asked for, or an error
\* with a cause.
LEMMA OutcomeTrue ==
  ASSUME NEW r \in Request, r.limit >= 0, r.offset >= 0,
         NEW a \in Answers, TrueAnswer(Asked(r), a)
  PROVE  LET o == Outcome(Asked(r), a)
         IN  /\ o \in Results
             /\ Blamed(r, o)
             /\ o.error # "" => o.users = <<>> /\ ~o.next
             /\ o.error = "" => PageOf(r, o)
<1> DEFINE o == Outcome(Asked(r), a)
           Good(x) == /\ x \in Results
                      /\ Blamed(r, x)
                      /\ x.error # "" => x.users = <<>> /\ ~x.next
                      /\ x.error = "" => PageOf(r, x)
<1>1. <<>> \in Seq(User)
  OBVIOUS
<1>2. ASSUME NEW cause \in {"timeout", "unknown error", "SearchServer fatal error",
                            "cant unpack error json", "unknown bad request error",
                            "cant unpack result json"}
      PROVE  Good(Failed(cause))
  BY <1>1 DEF Failed, Results, Blamed
<1>3. ASSUME r.token = ""
      PROVE  Good(Failed("Bad AccessToken"))
  BY <1>1, <1>3 DEF Failed, Results, Blamed
<1>4. ASSUME r.field \notin Fields
      PROVE  Good(Failed("OrderFeld invalid"))
  BY <1>1, <1>4 DEF Failed, Results, Blamed
<1>5. CASE a.status \in {"Timeout", "Broken", "InternalServerError"}
  <2>1. \/ o = Failed("timeout") \/ o = Failed("unknown error")
        \/ o = Failed("SearchServer fatal error")
    BY <1>5 DEF Outcome
  <2> QED
    BY <1>2, <2>1
<1>6. CASE a.status = "Unauthorized"
  <2>1. o = Failed("Bad AccessToken")
    BY <1>6 DEF Outcome
  <2>2. r.token = ""
    BY <1>6, AskedProperties DEF TrueAnswer
  <2> QED
    BY <1>3, <2>1, <2>2
<1>7. CASE a.status = "BadRequest"
  <2>1. o = BadRequest(a)
    BY <1>7 DEF Outcome
  <2>2. CASE a.json = "error" /\ a.error = "ErrorBadOrderField"
    <3>1. o = Failed("OrderFeld invalid")
      BY <2>1, <2>2 DEF BadRequest
    <3>2. r.field \notin Fields
      BY <2>2, AskedProperties DEF TrueAnswer
    <3> QED
      BY <1>4, <3>1, <3>2
  <2>3. CASE ~(a.json = "error" /\ a.error = "ErrorBadOrderField")
    <3>1. o = Failed("cant unpack error json") \/ o = Failed("unknown bad request error")
      BY <2>1, <2>3 DEF BadRequest
    <3> QED
      BY <1>2, <3>1
  <2> QED
    BY <2>2, <2>3
<1>8. CASE a.status = "OK"
  <2>1. o = Unpack(Asked(r), a)
    BY <1>8 DEF Outcome
  <2>2. CASE a.json # "users"
    <3>1. o = Failed("cant unpack result json")
      BY <2>1, <2>2 DEF Unpack
    <3> QED
      BY <1>2, <3>1
  <2>3. CASE a.json = "users"
    <3>1. /\ Asked(r).token # "" /\ Asked(r).field \in Fields /\ Asked(r).by \in {-1, 0, 1}
          /\ Asked(r).offset <= Len(Found[Asked(r).query])
          /\ a.users = Window(Found[Asked(r).query], Asked(r).limit, Asked(r).offset)
      BY <2>3 DEF TrueAnswer
    <3>2. /\ r.token # "" /\ r.field \in Fields /\ r.by \in {-1, 0, 1}
          /\ r.offset <= Len(Found[r.query])
          /\ a.users = Window(Found[r.query], Asked(r).limit, r.offset)
      BY <3>1, AskedProperties
    <3>3. o \in Results /\ o.error = "" /\ PageOf(r, o)
      <4> HIDE DEF o
      <4> QED
        BY <2>1, <2>3, <3>2, UnpackPage
    <3>4. Blamed(r, o)
      <4> HIDE DEF o
      <4> QED
        BY <3>2, <3>3 DEF Blamed
    <3>5. Good(o)
      <4> HIDE DEF o
      <4> QED
        BY <3>3, <3>4
    <3> QED
      BY <3>5
  <2> QED
    BY <2>2, <2>3
<1>9. Good(o)
  BY <1>5, <1>6, <1>7, <1>8 DEF Answers
<1> QED
  BY <1>9
-----------------------------------------------------------------------------
(***************************************************************************)
(* The invariant.                                                          *)
(***************************************************************************)

\* A caller begins with nothing collected.
LEMMA SearchInvInit == SearchInit => SearchInv
<1> SUFFICES ASSUME SearchInit PROVE SearchInv
  OBVIOUS
<1>1. /\ pc = "idle" /\ want \in Request /\ sent = want
      /\ from = want.offset /\ collected = <<>>
      /\ answer = Junk("Broken") /\ result = Failed("")
  BY RequestAssumption DEF SearchInit, Request
<1>2. <<>> \in Seq(User) /\ Len(<<>>) = 0
  OBVIOUS
<1>3. answer \in Answers /\ result \in Results
  BY <1>1, <1>2 DEF Junk, Answer, Answers, Failed, Results
<1>4. want.offset \in Int
  BY <1>1 DEF Request
<1>5. Types
  BY <1>1, <1>2, <1>3, <1>4 DEF Types
<1>6. SentInv /\ AnswerInv
  BY <1>1 DEF SentInv, AnswerInv
<1>7. ResultInv
  BY <1>1 DEF ResultInv, Failed, Returned
<1>8. CollectedInv
  <2>1. Len(collected) = 0 /\ Ahead = 0
    BY <1>1, EmptySeq DEF Ahead
  <2>2. 1..Len(collected) = {}
    BY <2>1
  <2>3. from + 0 = want.offset + 0
    BY <1>1, <1>4
  <2> QED
    BY <2>1, <2>2, <2>3 DEF CollectedInv
<1> QED
  BY <1>5, <1>6, <1>7, <1>8 DEF SearchInv

\* A step keeps the types.
LEMMA TypesNext == SearchInv /\ [SearchNext]_searchVars => Types'
<1> SUFFICES ASSUME SearchInv, [SearchNext]_searchVars PROVE Types'
  OBVIOUS
<1> USE DEF SearchInv
<1>1. Types
  OBVIOUS
<1>2. CASE Begin
  BY <1>1, <1>2 DEF Types, Begin
<1>3. CASE FindUsers
  <2>1. <<>> \in Seq(User)
    OBVIOUS
  <2>2. Asked(want) \in Request
    BY <1>1, AskedProperties DEF Types
  <2>3. /\ Failed("limit must be > 0") \in Results
        /\ Failed("offset must be > 0") \in Results
    BY <2>1 DEF Failed, Results
  <2> QED
    BY <1>1, <1>3, <2>2, <2>3 DEF Types, FindUsers
<1>4. CASE Serve
  <2>1. sent = Asked(want) /\ want.limit >= 0 /\ want.offset >= 0
    BY <1>4 DEF SentInv, Serve
  <2>2. sent \in Request /\ sent.limit >= 0 /\ sent.offset >= 0
    BY <1>1, <2>1, AskedProperties DEF Types
  <2>3. SearchService(sent) \in Answers
    BY <2>2, ServiceTrue
  <2> QED
    BY <1>1, <1>4, <2>3 DEF Types, Serve
<1>5. CASE Lose
  <2>1. sent = Asked(want) /\ want.limit >= 0 /\ want.offset >= 0
    BY <1>5 DEF SentInv, Lose
  <2>2. sent \in Request /\ sent.limit >= 0 /\ sent.offset >= 0
    BY <1>1, <2>1, AskedProperties DEF Types
  <2>3. SearchService(sent) \in Answers
    BY <2>2, ServiceTrue
  <2>4. SearchService(sent).status \in {"OK", "BadRequest", "Unauthorized",
                                        "InternalServerError", "Timeout", "Broken"}
    BY <2>3 DEF Answers
  <2>5. <<>> \in Seq(User)
    OBVIOUS
  <2>6. \A status \in {"OK", "BadRequest", "Unauthorized", "InternalServerError",
                       "Timeout", "Broken"} : Junk(status) \in Answers
    BY <2>5 DEF Junk, Answer, Answers
  <2>7. answer' \in Answers
    BY <1>5, <2>4, <2>6 DEF Lose
  <2> QED
    BY <1>1, <1>5, <2>7 DEF Types, Lose
<1>6. CASE Return
  <2>1. /\ sent = Asked(want) /\ want.limit >= 0 /\ want.offset >= 0
        /\ TrueAnswer(sent, answer)
    BY <1>6 DEF SentInv, AnswerInv, Return
  <2>2. want \in Request /\ answer \in Answers
    BY <1>1 DEF Types
  <2>3. result' \in Results
    BY <1>6, <2>1, <2>2, OutcomeTrue DEF Return
  <2>4. collected' \in Seq(User)
    BY <1>1, <1>6, <2>3, ConcatProperties DEF Types, Return, Results
  <2> QED
    BY <1>1, <1>6, <2>3, <2>4 DEF Types, Return
<1>7. CASE Continue
  <2>1. Len(result.users) \in Nat
    BY <1>1, LenProperties DEF Types, Results
  <2>2. want' \in Request
    BY <1>1, <1>7, <2>1 DEF Types, Continue, Request
  <2> QED
    BY <1>1, <1>7, <2>2 DEF Types, Continue
<1>8. CASE Retry
  BY <1>1, <1>8 DEF Types, Retry
<1>9. CASE UNCHANGED searchVars
  BY <1>1, <1>9 DEF Types, searchVars
<1> QED
  BY <1>2, <1>3, <1>4, <1>5, <1>6, <1>7, <1>8, <1>9 DEF SearchNext

\* Only FindUsers sends, and what it sends it has checked.
LEMMA SentNext == SearchInv /\ [SearchNext]_searchVars => SentInv'
<1> SUFFICES ASSUME SearchInv, [SearchNext]_searchVars PROVE SentInv'
  OBVIOUS
<1>1. SentInv
  BY DEF SearchInv
<1>2. CASE FindUsers
  BY <1>2 DEF FindUsers, SentInv
<1>3. CASE Serve \/ Lose
  BY <1>1, <1>3 DEF Serve, Lose, SentInv
<1>4. CASE Begin \/ Return \/ Continue \/ Retry
  BY <1>4 DEF Begin, Return, Continue, Retry, SentInv
<1>5. CASE UNCHANGED searchVars
  BY <1>1, <1>5 DEF searchVars, SentInv
<1> QED
  BY <1>2, <1>3, <1>4, <1>5 DEF SearchNext

\* Every answer is true of what was sent, a lost one too.
LEMMA AnswerNext == SearchInv /\ [SearchNext]_searchVars => AnswerInv'
<1> SUFFICES ASSUME SearchInv, [SearchNext]_searchVars PROVE AnswerInv'
  OBVIOUS
<1>1. SentInv /\ AnswerInv /\ Types
  BY DEF SearchInv
<1>2. ASSUME pc = "sent"
      PROVE  TrueAnswer(sent, SearchService(sent))
  <2>1. sent = Asked(want) /\ want.limit >= 0 /\ want.offset >= 0 /\ want \in Request
    BY <1>1, <1>2 DEF SentInv, Types
  <2>2. sent \in Request /\ sent.limit >= 0 /\ sent.offset >= 0
    BY <2>1, AskedProperties
  <2> QED
    BY <2>2, ServiceTrue
<1>3. CASE Serve
  BY <1>2, <1>3 DEF Serve, AnswerInv
<1>4. CASE Lose
  <2>1. TrueAnswer(sent, Junk("Timeout")) /\ TrueAnswer(sent, Junk("Broken"))
    BY DEF TrueAnswer, Junk, Answer
  <2>2. TrueAnswer(sent, Junk(SearchService(sent).status))
    BY <1>2, <1>4 DEF Lose, TrueAnswer, Junk, Answer
  <2> QED
    BY <1>4, <2>1, <2>2 DEF Lose, AnswerInv
<1>5. CASE Begin \/ FindUsers \/ Return \/ Continue \/ Retry
  BY <1>5 DEF Begin, FindUsers, Return, Continue, Retry, AnswerInv
<1>6. CASE UNCHANGED searchVars
  BY <1>1, <1>6 DEF searchVars, AnswerInv
<1> QED
  BY <1>3, <1>4, <1>5, <1>6 DEF SearchNext

\* What FindUsers returns is true of what was asked for.
LEMMA ResultNext == SearchInv /\ [SearchNext]_searchVars => ResultInv'
<1> SUFFICES ASSUME SearchInv, [SearchNext]_searchVars PROVE ResultInv'
  OBVIOUS
<1>1. SentInv /\ AnswerInv /\ Types /\ ResultInv
  BY DEF SearchInv
<1>2. CASE FindUsers
  <2>1. CASE UNCHANGED result /\ pc' = "sent"
    BY <1>1, <2>1 DEF ResultInv, Returned
  <2>2. CASE result' = Failed("limit must be > 0") /\ want.limit < 0 /\ want' = want
    BY <2>2 DEF ResultInv, Returned, Failed, Blamed
  <2>3. CASE /\ result' = Failed("offset must be > 0") /\ want.limit >= 0
             /\ want.offset < 0 /\ want' = want
    BY <2>3 DEF ResultInv, Returned, Failed, Blamed
  <2> QED
    BY <1>2, <2>1, <2>2, <2>3 DEF FindUsers
<1>3. CASE Return
  <2>1. /\ sent = Asked(want) /\ want.limit >= 0 /\ want.offset >= 0
        /\ TrueAnswer(Asked(want), answer)
    BY <1>1, <1>3 DEF SentInv, AnswerInv, Return
  <2>2. want \in Request /\ answer \in Answers
    BY <1>1 DEF Types
  <2>3. result' = Outcome(Asked(want), answer) /\ want' = want
    BY <1>3, <2>1 DEF Return
  <2>4. /\ Blamed(want, result')
        /\ result'.error # "" => result'.users = <<>> /\ ~result'.next
        /\ result'.error = "" => PageOf(want, result')
    BY <2>1, <2>2, <2>3, OutcomeTrue
  <2> QED
    BY <2>3, <2>4 DEF ResultInv, Returned
<1>4. CASE Begin \/ Serve \/ Lose \/ Continue \/ Retry
  BY <1>1, <1>4 DEF Begin, Serve, Lose, Continue, Retry, ResultInv, Returned
<1>5. CASE UNCHANGED searchVars
  BY <1>1, <1>5 DEF searchVars, ResultInv, Returned
<1> QED
  BY <1>2, <1>3, <1>4, <1>5 DEF SearchNext

\* What the caller collects are the users from where it began.
LEMMA CollectedNext == SearchInv /\ [SearchNext]_searchVars => CollectedInv'
<1> SUFFICES ASSUME SearchInv, [SearchNext]_searchVars PROVE CollectedInv'
  OBVIOUS
<1>1. SentInv /\ Types /\ ResultInv /\ CollectedInv
  BY DEF SearchInv
<1>2. /\ Len(result.users) \in Nat /\ Len(collected) \in Nat
      /\ want.offset \in Int /\ from \in Int
  BY <1>1, LenProperties DEF Types, Results, Request
<1>3. CASE FindUsers \/ Begin \/ Serve \/ Lose
  <2>1. /\ UNCHANGED <<want, from, collected>>
        /\ pc # "returned"
    BY <1>3 DEF FindUsers, Begin, Serve, Lose
  <2>2. Ahead = 0
    BY <2>1 DEF Ahead
  <2>3. Ahead' = 0
    <3>1. CASE pc' # "returned"
      BY <3>1 DEF Ahead
    <3>2. CASE pc' = "returned"
      <4>1. result'.users = <<>>
        <5>1. ~Begin /\ ~Serve /\ ~Lose
          BY <3>2 DEF Begin, Serve, Lose
        <5>2. \/ result' = Failed("limit must be > 0")
              \/ result' = Failed("offset must be > 0")
          BY <1>3, <3>2, <5>1 DEF FindUsers
        <5>3. /\ Failed("limit must be > 0").users = <<>>
              /\ Failed("offset must be > 0").users = <<>>
          BY DEF Failed
        <5> QED
          BY <5>2, <5>3
      <4> QED
        BY <4>1, EmptySeq DEF Ahead
    <3> QED
      BY <3>1, <3>2
  <2> QED
    BY <1>1, <2>1, <2>2, <2>3 DEF CollectedInv, Have
<1>4. CASE Return
  <2> DEFINE users == result'.users
  <2>1. /\ pc = "answered" /\ pc' = "returned"
        /\ UNCHANGED <<want, from>> /\ collected' = collected \o users
    BY <1>4 DEF Return
  <2>2. users \in Seq(User) /\ collected \in Seq(User)
    BY <1>1, TypesNext DEF Types, Results
  <2>3. /\ Len(users) \in Nat
        /\ Len(collected') = Len(collected) + Len(users)
        /\ \A i \in 1..Len(collected) + Len(users) :
             collected'[i] = IF i <= Len(collected) THEN collected[i]
                             ELSE users[i - Len(collected)]
    <3> HIDE DEF users
    <3> QED
      BY <2>1, <2>2, ConcatProperties, LenProperties
  <2>4. from + Len(collected) = want.offset
    BY <1>1, <1>2, <2>1 DEF CollectedInv, Ahead
  <2>5. from' + Len(collected') = want'.offset + Ahead'
    <3>1. Ahead' = Len(users)
      BY <2>1 DEF Ahead
    <3>2. Len(users) \in Nat /\ Len(collected') = Len(collected) + Len(users)
      BY <2>3
    <3>3. from' = from /\ want'.offset = want.offset
      BY <2>1
    <3>4. from + (Len(collected) + Len(users)) = want.offset + Len(users)
      <4> HIDE DEF users
      <4> QED
        BY <1>2, <2>4, <3>2
    <3> QED
      BY <3>1, <3>2, <3>3, <3>4
  <2>6. \A i \in 1..Len(users) : users[i] = Have[want.offset + i]
    <3>1. ResultInv'
      BY ResultNext
    <3>2. CASE result'.error # ""
      <4>1. users = <<>>
        BY <3>1, <3>2 DEF ResultInv
      <4>2. Len(users) = 0
        <5> HIDE DEF users
        <5> QED
          BY <4>1, EmptySeq
      <4> QED
        <5> HIDE DEF users
        <5> QED
          BY <4>2
    <3>3. CASE result'.error = ""
      <4>1. PageOf(want, result')
        BY <2>1, <3>1, <3>3 DEF ResultInv, Returned
      <4> QED
        BY <4>1 DEF PageOf, Have
    <3> QED
      BY <3>2, <3>3
  <2>7. \A i \in 1..Len(collected') : collected'[i] = Have'[from' + i]
    <3> SUFFICES ASSUME NEW i \in 1..Len(collected')
                 PROVE  collected'[i] = Have[from + i]
      BY <2>1 DEF Have
    <3> HIDE DEF users
    <3>1. CASE i <= Len(collected)
      <4>1. i \in 1..Len(collected) /\ collected'[i] = collected[i]
        BY <1>2, <2>3, <3>1
      <4> QED
        BY <1>1, <4>1 DEF CollectedInv
    <3>2. CASE ~(i <= Len(collected))
      <4>1. /\ i - Len(collected) \in 1..Len(users)
            /\ collected'[i] = users[i - Len(collected)]
        BY <1>2, <2>3, <3>2
      <4>2. users[i - Len(collected)] = Have[want.offset + (i - Len(collected))]
        BY <2>6, <4>1
      <4>3. want.offset + (i - Len(collected)) = from + i
        BY <1>2, <2>3, <2>4
      <4> QED
        BY <4>1, <4>2, <4>3
    <3> QED
      BY <3>1, <3>2
  <2> QED
    BY <2>5, <2>7 DEF CollectedInv
<1>5. CASE Continue
  <2>1. /\ pc = "returned" /\ pc' = "call" /\ UNCHANGED <<from, collected>>
        /\ want' = [want EXCEPT !.offset = @ + Len(result.users)]
    BY <1>5 DEF Continue
  <2>2. want'.offset = want.offset + Len(result.users) /\ want'.query = want.query
    BY <1>1, <2>1 DEF Types, Request
  <2>3. Ahead = Len(result.users) /\ Ahead' = 0
    BY <2>1 DEF Ahead
  <2>4. from' + Len(collected') = want'.offset + Ahead'
    BY <1>1, <1>2, <2>1, <2>2, <2>3 DEF CollectedInv
  <2> QED
    BY <1>1, <2>1, <2>2, <2>4 DEF CollectedInv, Have
<1>6. CASE Retry
  <2>1. /\ pc = "returned" /\ pc' = "call" /\ UNCHANGED <<want, from, collected>>
        /\ result.error # ""
    BY <1>6 DEF Retry
  <2>2. Ahead = 0 /\ Ahead' = 0
    <3>1. result.users = <<>>
      BY <1>1, <2>1 DEF ResultInv
    <3> QED
      BY <2>1, <3>1, EmptySeq DEF Ahead
  <2> QED
    BY <1>1, <2>1, <2>2 DEF CollectedInv, Have
<1>7. CASE UNCHANGED searchVars
  BY <1>1, <1>7 DEF searchVars, CollectedInv, Have, Ahead
<1> QED
  BY <1>3, <1>4, <1>5, <1>6, <1>7 DEF SearchNext

\* The invariant holds in every state.
LEMMA SearchInvariance == SearchSpec => []SearchInv
<1>1. SearchInv /\ [SearchNext]_searchVars => SearchInv'
  BY TypesNext, SentNext, AnswerNext, ResultNext, CollectedNext DEF SearchInv
<1> QED
  BY <1>1, SearchInvInit, PTL DEF SearchSpec

\* Every page that FindUsers returns is the one that was asked for, whatever the
\* cap, what is found and what was lost on the way.
THEOREM PagesTrue == SearchSpec => []PageIsTrue
<1>1. SearchInv => PageIsTrue
  BY DEF SearchInv, ResultInv, PageOf, Returned, PageIsTrue
<1> QED
  BY <1>1, SearchInvariance, PTL

\* A caller that pages gets every user from where it began once and in order, and
\* has all of them at the last page.
THEOREM CollectedOnce == SearchSpec => []EveryUserOnce
<1> SUFFICES SearchInv => EveryUserOnce
  BY SearchInvariance, PTL
<1> SUFFICES ASSUME SearchInv PROVE EveryUserOnce
  OBVIOUS
<1>1. Types /\ ResultInv /\ CollectedInv
  BY DEF SearchInv
<1>2. DOMAIN collected = 1..Len(collected)
  BY <1>1, LenProperties DEF Types
<1>3. \A i \in DOMAIN collected : collected[i] = Found[want.query][from + i]
  BY <1>1, <1>2 DEF CollectedInv, Have
<1>4. ASSUME Returned, ~result.next
      PROVE  from + Len(collected) = Len(Found[want.query])
  <2>1. PageOf(want, result) /\ Ahead = Len(result.users)
    BY <1>1, <1>4 DEF ResultInv, Returned, Ahead
  <2>2. /\ Len(Found[want.query]) \in Nat /\ want.offset \in Int
        /\ Len(result.users) \in Nat
    BY <1>1, FoundType, LenProperties DEF Types, Request, Results
  <2>3. /\ want.offset + Len(result.users) <= Len(Found[want.query])
        /\ ~(want.offset + Len(result.users) < Len(Found[want.query]))
    BY <1>4, <2>1 DEF PageOf
  <2>4. want.offset + Len(result.users) = Len(Found[want.query])
    BY <2>2, <2>3
  <2> QED
    BY <1>1, <2>1, <2>4 DEF CollectedInv
<1> QED
  BY <1>3, <1>4 DEF EveryUserOnce

\* FindUsers blames the token, the field or the limits only when they are wrong,
\* for any request, and whatever happens to the answer.
THEOREM BlamesRight == SearchSpec => []BlameIsRight
<1>1. SearchInv => BlameIsRight
  BY DEF SearchInv, ResultInv, Blamed, BlameIsRight
<1> QED
  BY <1>1, SearchInvariance, PTL
-----------------------------------------------------------------------------
(***************************************************************************)
(* FastSearch.  Each of the two programs is described by what it has done  *)
(* with the lines before the one it is at; the properties compare the two  *)
(* descriptions.                                                           *)
(***************************************************************************)

Names == {"browsers", "name", "email"}

\* The state of either program as a record with its fields.
SlowForm == slow = [pc |-> slow.pc, at |-> slow.at, found |-> slow.found, seen |-> slow.seen]
FastForm == fast = [pc |-> fast.pc, at |-> fast.at, found |-> fast.found,
                    seen |-> fast.seen, user |-> fast.user]

SlowFound(n) == {Entry(k, lines[k].name, lines[k].email) :
                   k \in {j \in 1..n : Matches(Used(lines[j]))}}
SlowSeen(n) == UNION {Known(Used(lines[k])) : k \in 1..n}

\* SlowSearch searches a file that parses, and has done so up to slow.at.
SlowInv ==
  /\ slow.pc \in {"parse", "search", "printed", "panic"}
  /\ slow.at \in 1..Len(lines) + 1
  /\ slow.pc \in {"search", "printed"} =>
       \A k \in 1..Len(lines) : lines[k].kind \in {"object", "null"}
  /\ slow.pc # "panic" => slow.found = SlowFound(slow.at - 1) /\ slow.seen = SlowSeen(slow.at - 1)
  /\ slow.pc = "printed" => slow.at = Len(lines) + 1

\* What fills a field is the empty value, or comes from a line that has it.
FilledWell(k, f) ==
  \/ Filled(k, f) = EmptyUser[f]
  \/ \E j \in 1..k : lines[j][f].is # "missing" /\ Filled(k, f) = lines[j][f]

\* FastSearch has decoded the lines before fast.at, and user is what they filled.
FastInv ==
  /\ fast.pc \in {"idle", "search", "printed", "panic"}
  /\ fast.at \in 1..Readable + 1
  /\ \A k \in 1..fast.at - 1 : Decodes(lines[k])
  /\ fast.user = [f \in Names |-> Filled(fast.at - 1, f)]
  /\ \A k \in 0..fast.at - 1 : \A f \in Names : FilledWell(k, f)
  /\ fast.pc = "printed" => fast.at = Readable + 1
  /\ fast.pc = "panic" => fast.at \in 1..Len(lines) /\ ~Decodes(lines[fast.at])

CleanInv == Clean => slow.pc # "panic"

SlowPart == SlowForm /\ SlowInv /\ CleanInv
FastPart == FastForm /\ FastInv /\ FastReadsFilled
\* FastSearch begins when SlowSearch is over.
Turn == fast.pc # "idle" => slow.pc \in {"printed", "panic"}
BothInv == lines \in Files /\ SlowPart /\ FastPart /\ Turn

\* A file is a nonempty sequence of lines with their fields.
LEMMA FileTypes ==
  ASSUME lines \in Files
  PROVE  /\ Len(lines) \in Nat \ {0} /\ lines \in Seq(Line)
         /\ \A k \in 1..Len(lines) : lines[k] \in Line
         /\ DOMAIN lines = 1..Len(lines)
         /\ Readable \in Nat /\ Readable <= Len(lines)
<1>1. lines \in Seq(Line) /\ lines # <<>>
  BY FileAssumption
<1>2. Len(lines) \in Nat \ {0} /\ DOMAIN lines = 1..Len(lines)
  BY <1>1
<1>3. \A k \in 1..Len(lines) : lines[k] \in Line
  BY <1>1
<1> QED
  BY <1>1, <1>2, <1>3 DEF Readable

\* One line more fills what it has, and leaves what it lacks.
LEMMA FilledStep ==
  ASSUME NEW n \in Nat, NEW f
  PROVE  Filled(n + 1, f) = IF lines[n + 1][f].is = "missing" THEN Filled(n, f)
                            ELSE lines[n + 1][f]
<1>1. CASE lines[n + 1][f].is = "missing"
  <2>1. Having(n + 1, f) = Having(n, f)
    BY <1>1 DEF Having
  <2> QED
    BY <1>1, <2>1 DEF Filled
<1>2. CASE lines[n + 1][f].is # "missing"
  <2>1. n + 1 \in Having(n + 1, f) /\ \A i \in Having(n + 1, f) : i <= n + 1 /\ i \in Int
    BY <1>2 DEF Having
  <2>2. Latest(Having(n + 1, f)) = n + 1
    <3>1. /\ Latest(Having(n + 1, f)) \in Having(n + 1, f)
          /\ \A i \in Having(n + 1, f) : i <= Latest(Having(n + 1, f))
      BY <2>1 DEF Latest
    <3> QED
      BY <2>1, <3>1
  <2> QED
    BY <1>2, <2>1, <2>2 DEF Filled
<1> QED
  BY <1>1, <1>2

\* A user nothing was decoded into yet is the empty one.
LEMMA FilledZero == \A f : Filled(0, f) = EmptyUser[f]
  BY DEF Filled, Having

\* A field that a line has is filled with it.
LEMMA FilledOwn ==
  ASSUME NEW k \in Nat \ {0}, NEW f, lines[k][f].is # "missing"
  PROVE  Filled(k, f) = lines[k][f]
<1>1. k - 1 \in Nat /\ k = (k - 1) + 1
  OBVIOUS
<1>2. Filled((k - 1) + 1, f) = IF lines[(k - 1) + 1][f].is = "missing" THEN Filled(k - 1, f)
                              ELSE lines[(k - 1) + 1][f]
  BY <1>1, FilledStep
<1> QED
  BY <1>1, <1>2

-----------------------------------------------------------------------------
\* What depends on one program and the file stays when these stay.
LEMMA SlowFrame == SlowPart /\ UNCHANGED <<lines, slow>> => SlowPart'
  BY DEF SlowPart, SlowForm, SlowInv, CleanInv, Clean, SlowFound, SlowSeen

\* What is said of the lines only stands while the lines do (the file is not
\* written by either search).
LEMMA LinesFrame ==
  ASSUME lines' = lines
  PROVE  /\ \A k, f : Filled(k, f)' = Filled(k, f)
         /\ \A k, f : FilledWell(k, f)' = FilledWell(k, f)
         /\ \A n : FilledUsers(n)' = FilledUsers(n)
         /\ Readable' = Readable /\ Clean' = Clean
         /\ \A n : SlowFound(n)' = SlowFound(n) /\ SlowSeen(n)' = SlowSeen(n)
<1>1. \A k, f : Filled(k, f)' = Filled(k, f)
  BY DEF Filled, Having
<1>2. \A k, f : FilledWell(k, f)' = FilledWell(k, f)
  BY <1>1 DEF FilledWell
<1>3. \A n : FilledUsers(n)' = FilledUsers(n)
  BY <1>1 DEF FilledUsers
<1>4. Readable' = Readable /\ Clean' = Clean
  BY DEF Readable, Clean
<1>5. \A n : SlowFound(n)' = SlowFound(n) /\ SlowSeen(n)' = SlowSeen(n)
  BY DEF SlowFound, SlowSeen
<1> QED
  BY <1>1, <1>2, <1>3, <1>4, <1>5

\* The fast search's part of the invariant is about lines and fast alone, so a step
\* of the slow search leaves it.
LEMMA FastFrame == FastPart /\ UNCHANGED <<lines, fast>> => FastPart'
<1> SUFFICES ASSUME FastPart, lines' = lines, fast' = fast
             PROVE  FastPart'
  OBVIOUS
<1>1. FastForm'
  BY DEF FastPart, FastForm
<1>2. FastInv'
  BY LinesFrame DEF FastPart, FastInv
<1>3. FastReadsFilled'
  BY LinesFrame DEF FastPart, FastReadsFilled
<1> QED
  BY <1>1, <1>2, <1>3 DEF FastPart

\* One more user: what SlowSearch makes of n + 1 lines.
LEMMA SlowStep ==
  ASSUME NEW n \in Nat
  PROVE  /\ SlowSeen(n + 1) = SlowSeen(n) \cup Known(Used(lines[n + 1]))
         /\ ~Matches(Used(lines[n + 1])) => SlowFound(n + 1) = SlowFound(n)
         /\ Matches(Used(lines[n + 1])) =>
              SlowFound(n + 1) = SlowFound(n) \cup {Entry(n + 1, lines[n + 1].name, lines[n + 1].email)}
<1>1. 1..n + 1 = (1..n) \cup {n + 1}
  OBVIOUS
<1>2. SlowSeen(n + 1) = SlowSeen(n) \cup Known(Used(lines[n + 1]))
  BY <1>1, Zenon DEF SlowSeen
<1>3. ASSUME ~Matches(Used(lines[n + 1]))
      PROVE  SlowFound(n + 1) = SlowFound(n)
  BY <1>1, <1>3, Zenon DEF SlowFound
<1>4. ASSUME Matches(Used(lines[n + 1]))
      PROVE  SlowFound(n + 1) = SlowFound(n)
                                  \cup {Entry(n + 1, lines[n + 1].name, lines[n + 1].email)}
  BY <1>1, <1>4, Zenon DEF SlowFound
<1> QED
  BY <1>2, <1>3, <1>4

\* The same for FastSearch and the filled lines.
FilledEntries(n) == {Entry(k, Filled(k, "name"), Filled(k, "email")) : k \in FilledUsers(n)}
FilledSeen(n) == UNION {Known(Filled(k, "browsers").val) : k \in 1..n}

\* One more user read adds what he brings, and nothing else, to what was seen and
\* found (fast.go:51-85).
LEMMA FastStep ==
  ASSUME NEW n \in Nat
  PROVE  /\ FilledSeen(n + 1) = FilledSeen(n) \cup Known(Filled(n + 1, "browsers").val)
         /\ FilledEntries(n + 1) = FilledEntries(n) \cup
              (IF Matches(Filled(n + 1, "browsers").val)
               THEN {Entry(n + 1, Filled(n + 1, "name"), Filled(n + 1, "email"))} ELSE {})
<1>1. 1..n + 1 = (1..n) \cup {n + 1}
  OBVIOUS
<1>2. FilledSeen(n + 1) = FilledSeen(n) \cup Known(Filled(n + 1, "browsers").val)
  BY <1>1, Zenon DEF FilledSeen
<1>3. CASE Matches(Filled(n + 1, "browsers").val)
  <2>1. FilledUsers(n + 1) = FilledUsers(n) \cup {n + 1}
    BY <1>1, <1>3 DEF FilledUsers
  <2> QED
    BY <1>2, <1>3, <2>1, Zenon DEF FilledEntries
<1>4. CASE ~Matches(Filled(n + 1, "browsers").val)
  <2>1. FilledUsers(n + 1) = FilledUsers(n)
    BY <1>1, <1>4 DEF FilledUsers
  <2> QED
    BY <1>2, <1>4, <2>1, Zenon DEF FilledEntries
<1> QED
  BY <1>3, <1>4

-----------------------------------------------------------------------------

\* Both searches start within the invariant.
LEMMA InvInit == BothInit => BothInv
<1> SUFFICES ASSUME BothInit PROVE BothInv
  OBVIOUS
<1>1. lines \in Files /\ slow.pc = "parse" /\ fast.pc = "idle" /\ slow.at = 1 /\ fast.at = 1
  BY DEF BothInit
<1>2. SlowPart
  <2>1. SlowFound(0) = {} /\ SlowSeen(0) = {}
    BY DEF SlowFound, SlowSeen
  <2>2. SlowForm /\ slow.found = {} /\ slow.seen = {}
    BY DEF BothInit, SlowForm
  <2> QED
    BY <1>1, <2>1, <2>2, FileTypes DEF SlowPart, SlowInv, CleanInv
<1>3. FastPart
  <2>1. FastForm /\ fast.found = {} /\ fast.seen = {} /\ fast.user = EmptyUser
    BY DEF BothInit, FastForm
  <2>2. EmptyUser = [f \in Names |-> Filled(0, f)]
    BY FilledZero DEF EmptyUser, Names
  <2>3. \A k \in 0..0 : \A f \in Names : FilledWell(k, f)
    BY FilledZero DEF FilledWell
  <2>4. FastInv
    BY <1>1, <2>1, <2>2, <2>3, FileTypes DEF FastInv
  <2>5. FastReadsFilled
    BY <1>1, <2>1 DEF FastReadsFilled, FilledUsers
  <2> QED
    BY <2>1, <2>4, <2>5 DEF FastPart
<1> QED
  BY <1>1, <1>2, <1>3 DEF BothInv, Turn

\* Every step of SlowSearch keeps its part (common.go:16-111).
LEMMA SlowActions ==
  ASSUME lines \in Files, SlowPart, SlowParse \/ SlowUser \/ SlowPrint
  PROVE  SlowPart'
<1>0. /\ lines' = lines /\ SlowForm /\ SlowInv /\ CleanInv
  BY DEF SlowPart, SlowParse, SlowUser, SlowPrint
<1>1. /\ Len(lines) \in Nat \ {0}
      /\ \A n : SlowFound(n)' = SlowFound(n) /\ SlowSeen(n)' = SlowSeen(n)
      /\ Clean' = Clean /\ DOMAIN lines = 1..Len(lines)
  BY <1>0, FileTypes, LinesFrame
<1>2. CASE SlowParse
  <2>1. /\ slow.pc = "parse" /\ slow' = [slow EXCEPT !.pc = slow'.pc]
        /\ slow'.pc = IF \A k \in DOMAIN lines : lines[k].kind \in {"object", "null"}
                       THEN "search" ELSE "panic"
    BY <1>0, <1>2 DEF SlowParse, SlowForm
  <2>2. /\ SlowForm' /\ slow'.at = slow.at /\ slow'.found = slow.found
        /\ slow'.seen = slow.seen
    BY <1>0, <2>1 DEF SlowForm
  <2>3. SlowInv'
    BY <1>0, <1>1, <2>1, <2>2 DEF SlowInv
  <2>4. CleanInv'
    BY <1>1, <2>1 DEF CleanInv, Clean
  <2> QED
    BY <2>2, <2>3, <2>4 DEF SlowPart
<1>3. CASE SlowUser
  <2> DEFINE n == slow.at - 1
             line == lines[slow.at]
             seen == slow.seen \cup Known(Used(line))
  <2>0. /\ slow.pc = "search" /\ slow.at <= Len(lines) /\ n \in Nat /\ slow.at = n + 1
        /\ slow.found = SlowFound(n) /\ slow.seen = SlowSeen(n)
        /\ slow.at \in 1..Len(lines)
    BY <1>0, <1>1, <1>3 DEF SlowUser, SlowInv
  <2>1. SlowSeen(slow.at) = seen
    BY <2>0, SlowStep
  <2>2. CASE ~Matches(Used(line)) /\ slow' = [slow EXCEPT !.at = @ + 1, !.seen = seen]
    <3>1. /\ SlowForm' /\ slow'.at = slow.at + 1 /\ slow'.pc = "search"
          /\ slow'.found = slow.found /\ slow'.seen = seen
      BY <1>0, <2>0, <2>2 DEF SlowForm
    <3>2. SlowFound(slow.at) = slow.found
      BY <2>0, <2>2, SlowStep
    <3>3. slow'.at - 1 = slow.at
      BY <2>0, <3>1
    <3>4. SlowInv'
      BY <1>0, <1>1, <2>0, <2>1, <3>1, <3>2, <3>3 DEF SlowInv
    <3> QED
      BY <3>1, <3>4 DEF SlowPart, CleanInv
  <2>3. CASE /\ Matches(Used(line)) /\ line.email.is = "text"
             /\ slow' = [slow EXCEPT !.at = @ + 1, !.seen = seen,
                           !.found = @ \cup {Entry(slow.at, line.name, line.email)}]
    <3>1. /\ SlowForm' /\ slow'.at = slow.at + 1 /\ slow'.pc = "search"
          /\ slow'.found = slow.found \cup {Entry(slow.at, line.name, line.email)}
          /\ slow'.seen = seen
      BY <1>0, <2>0, <2>3 DEF SlowForm
    <3>2. SlowFound(slow.at) = slow'.found
      BY <2>0, <2>3, <3>1, SlowStep
    <3>3. slow'.at - 1 = slow.at
      BY <2>0, <3>1
    <3>4. SlowInv'
      BY <1>0, <1>1, <2>0, <2>1, <3>1, <3>2, <3>3 DEF SlowInv
    <3> QED
      BY <3>1, <3>4 DEF SlowPart, CleanInv
  <2>4. CASE /\ Matches(Used(line)) /\ line.email.is # "text"
             /\ slow' = [slow EXCEPT !.pc = "panic", !.seen = seen]
    <3>1. SlowForm' /\ slow'.at = slow.at /\ slow'.pc = "panic"
      BY <1>0, <2>0, <2>4 DEF SlowForm
    <3>2. SlowInv'
      BY <1>0, <1>1, <3>1 DEF SlowInv
    <3>3. ~Clean
      <4>1. Matches(line.browsers.val) \/ line.browsers.is # "list"
        BY <2>4 DEF Matches, Used
      <4> QED
        BY <1>1, <2>0, <2>4, <4>1 DEF Clean
    <3> QED
      BY <1>1, <3>1, <3>2, <3>3 DEF SlowPart, CleanInv
  <2> QED
    BY <1>3, <2>2, <2>3, <2>4 DEF SlowUser
<1>4. CASE SlowPrint
  <2>1. /\ SlowForm' /\ slow.pc = "search" /\ slow'.pc = "printed" /\ slow'.at = slow.at
        /\ slow.at > Len(lines) /\ slow'.found = slow.found /\ slow'.seen = slow.seen
    BY <1>0, <1>4 DEF SlowPrint, SlowForm
  <2>2. SlowInv'
    BY <1>0, <1>1, <2>1 DEF SlowInv
  <2> QED
    BY <2>1, <2>2 DEF SlowPart, CleanInv
<1> QED
  BY <1>2, <1>3, <1>4

\* Every step of FastSearch keeps its part (fast.go:35-83).
LEMMA FastActions ==
  ASSUME lines \in Files, FastPart, FastStart \/ FastUser \/ FastPrint
  PROVE  FastPart'
<1>0. /\ lines' = lines /\ FastForm /\ FastInv /\ FastReadsFilled
  BY DEF FastPart, FastStart, FastUser, FastPrint
<1>1. /\ Len(lines) \in Nat \ {0} /\ Readable \in Nat /\ Readable <= Len(lines)
      /\ \A k, f : Filled(k, f)' = Filled(k, f) /\ FilledWell(k, f)' = FilledWell(k, f)
      /\ \A k : FilledUsers(k)' = FilledUsers(k)
      /\ Readable' = Readable
  BY <1>0, FileTypes, LinesFrame
<1>2. ASSUME fast'.at = fast.at, fast'.found = fast.found, fast'.seen = fast.seen
      PROVE  FastReadsFilled'
  BY <1>0, <1>1, <1>2 DEF FastReadsFilled
<1>3. CASE FastStart
  <2>1. /\ FastForm' /\ fast'.pc = "search" /\ fast'.at = fast.at /\ fast'.user = fast.user
        /\ fast'.found = fast.found /\ fast'.seen = fast.seen
    BY <1>0, <1>3 DEF FastStart, FastForm
  <2>2. FastInv'
    BY <1>0, <1>1, <2>1 DEF FastInv
  <2> QED
    BY <1>2, <2>1, <2>2 DEF FastPart
<1>4. CASE FastPrint
  <2>1. /\ FastForm' /\ fast'.pc = "printed" /\ fast'.at = fast.at /\ fast'.user = fast.user
        /\ fast'.found = fast.found /\ fast'.seen = fast.seen /\ fast.at > Readable
    BY <1>0, <1>4 DEF FastPrint, FastForm
  <2>2. FastInv'
    BY <1>0, <1>1, <2>1 DEF FastInv
  <2> QED
    BY <1>2, <2>1, <2>2 DEF FastPart
<1>5. CASE FastUser
  <2> DEFINE n == fast.at - 1
             line == lines[fast.at]
             user == Decode(fast.user, line)
  <2>0. /\ fast.pc = "search" /\ fast.at <= Readable /\ n \in Nat /\ fast.at = n + 1
        /\ fast.user = [f \in Names |-> Filled(n, f)]
        /\ fast.at \in 1..Len(lines)
    BY <1>0, <1>1, <1>5 DEF FastUser, FastInv
  <2>1. CASE ~Decodes(line) /\ fast' = [fast EXCEPT !.pc = "panic"]
    <3>1. /\ FastForm' /\ fast'.pc = "panic" /\ fast'.at = fast.at /\ fast'.user = fast.user
          /\ fast'.found = fast.found /\ fast'.seen = fast.seen
      BY <1>0, <2>1 DEF FastForm
    <3>2. FastInv'
      BY <1>0, <1>1, <2>0, <2>1, <3>1 DEF FastInv
    <3> QED
      BY <1>2, <3>1, <3>2 DEF FastPart
  <2>2. CASE /\ Decodes(line)
             /\ fast' = [fast EXCEPT
                  !.at = @ + 1, !.user = user,
                  !.seen = @ \cup Known(user.browsers.val),
                  !.found = @ \cup (IF Matches(user.browsers.val)
                                    THEN {Entry(fast.at, user.name, user.email)} ELSE {})]
    <3>1. /\ FastForm' /\ fast'.pc = "search" /\ fast'.at = fast.at + 1 /\ fast'.user = user
          /\ fast'.seen = fast.seen \cup Known(user.browsers.val)
          /\ fast'.found = fast.found \cup (IF Matches(user.browsers.val)
                              THEN {Entry(fast.at, user.name, user.email)} ELSE {})
      BY <1>0, <2>0, <2>2 DEF FastForm
    <3>2. user = [f \in Names |-> Filled(n + 1, f)]
      <4>1. \A f \in Names : Filled(n + 1, f) = IF line[f].is = "missing" THEN Filled(n, f)
                                                ELSE line[f]
        BY <2>0, FilledStep
      <4>2. user = [f \in Names |-> IF line[f].is = "missing" THEN Filled(n, f) ELSE line[f]]
        BY <2>0 DEF Decode, Names
      <4> QED
        BY <4>1, <4>2
    <3>3. \A f \in Names : FilledWell(n + 1, f)
      <4> SUFFICES ASSUME NEW f \in Names PROVE FilledWell(n + 1, f)
        OBVIOUS
      <4>1. CASE line[f].is = "missing"
        <5>1. Filled(n + 1, f) = Filled(n, f)
          BY <2>0, <4>1, FilledStep
        <5>2. FilledWell(n, f)
          BY <1>0, <2>0 DEF FastInv
        <5> QED
          BY <2>0, <5>1, <5>2 DEF FilledWell
      <4>2. CASE line[f].is # "missing"
        <5>1. Filled(n + 1, f) = line[f]
          BY <2>0, <4>2, FilledStep
        <5> QED
          BY <2>0, <4>2, <5>1 DEF FilledWell
      <4> QED
        BY <4>1, <4>2
    <3>4. FastInv'
      <4>1. fast'.at - 1 = n + 1 /\ fast'.at \in 1..Readable + 1
        BY <1>1, <2>0, <3>1
      <4>2. \A k \in 1..n + 1 : Decodes(lines[k])
        BY <1>0, <2>0, <2>2 DEF FastInv
      <4>3. \A k \in 0..n + 1 : \A f \in Names : FilledWell(k, f)
        <5>1. \A k \in 0..n : \A f \in Names : FilledWell(k, f)
          BY <1>0 DEF FastInv
        <5> QED
          BY <2>0, <3>3, <5>1
      <4> QED
        BY <1>0, <1>1, <3>1, <3>2, <4>1, <4>2, <4>3 DEF FastInv
    <3>5. FastReadsFilled'
      <4>1. /\ user.browsers = Filled(n + 1, "browsers") /\ user.name = Filled(n + 1, "name")
            /\ user.email = Filled(n + 1, "email")
        BY <3>2 DEF Names
      <4>2. fast.found = FilledEntries(n) /\ fast.seen = FilledSeen(n)
        BY <1>0 DEF FastReadsFilled, FilledEntries, FilledSeen
      <4>3. fast'.found = FilledEntries(n + 1) /\ fast'.seen = FilledSeen(n + 1)
        BY <2>0, <3>1, <4>1, <4>2, FastStep
      <4>4. fast'.at - 1 = n + 1
        BY <2>0, <3>1
      <4> QED
        BY <1>1, <4>3, <4>4 DEF FastReadsFilled, FilledEntries, FilledSeen
    <3> QED
      BY <3>1, <3>4, <3>5 DEF FastPart
  <2> QED
    BY <1>5, <2>1, <2>2 DEF FastUser
<1> QED
  BY <1>3, <1>4, <1>5

\* Every step of either search, and the hand-over between them, keeps the invariant.
LEMMA InvNext == BothInv /\ [BothNext]_bothVars => BothInv'
<1> SUFFICES ASSUME BothInv, [BothNext]_bothVars PROVE BothInv'
  OBVIOUS
<1>0. lines \in Files /\ SlowPart /\ FastPart /\ Turn
  BY DEF BothInv
<1>1. CASE SlowParse \/ SlowUser \/ SlowPrint
  <2>1. lines' = lines /\ fast' = fast /\ slow.pc \in {"parse", "search"}
    BY <1>1 DEF SlowParse, SlowUser, SlowPrint
  <2>2. Turn'
    BY <1>0, <2>1 DEF Turn
  <2> QED
    BY <1>0, <1>1, <2>1, <2>2, SlowActions, FastFrame DEF BothInv
<1>2. CASE FastStart \/ FastUser \/ FastPrint
  <2>1. lines' = lines /\ slow' = slow
    BY <1>2 DEF FastStart, FastUser, FastPrint
  <2>2. Turn'
    BY <1>0, <1>2, <2>1 DEF Turn, FastStart, FastUser, FastPrint
  <2> QED
    BY <1>0, <1>2, <2>1, <2>2, FastActions, SlowFrame DEF BothInv
<1>3. CASE UNCHANGED bothVars
  BY <1>0, <1>3, SlowFrame, FastFrame DEF BothInv, bothVars, Turn
<1> QED
  BY <1>1, <1>2, <1>3 DEF BothNext

\* The two searches over one file never leave the invariant.
THEOREM Invariance == BothSpec => []BothInv
  BY InvInit, InvNext, PTL DEF BothSpec
-----------------------------------------------------------------------------
\* FastSearch prints what a search over the filled lines finds (fast.go:51-85).
THEOREM FilledRead == BothSpec => []FastReadsFilled
<1>1. BothInv => FastReadsFilled
  BY DEF BothInv, FastPart
<1> QED
  BY <1>1, Invariance, PTL

\* What a line on which FastSearch does not panic says of its browsers.
LEMMA DecodedBrowsers ==
  ASSUME lines \in Files, NEW k \in 1..Len(lines), Decodes(lines[k])
  PROVE  /\ lines[k].browsers.is \in {"list", "missing"}
         /\ lines[k].browsers.is = "list" => Used(lines[k]) = lines[k].browsers.val
         /\ lines[k].browsers.is = "missing" => Used(lines[k]) = {}
<1>1. lines[k] \in Line
  BY FileTypes
<1>2. lines[k].browsers.is \in {"list", "missing", "other"}
  BY <1>1 DEF Line, Lists
<1> QED
  BY <1>2 DEF Decodes, Used

\* What the two have found and seen when they have come to the end.
LEMMA AtTheEnd ==
  ASSUME BothInv, slow.pc = "printed", fast.pc = "printed"
  PROVE  /\ slow.found = SlowFound(Len(lines)) /\ slow.seen = SlowSeen(Len(lines))
         /\ fast.found = FilledEntries(Len(lines)) /\ fast.seen = FilledSeen(Len(lines))
         /\ \A k \in 1..Len(lines) : Decodes(lines[k])
         /\ \A k \in 0..Len(lines) : \A f \in Names : FilledWell(k, f)
<1>0. lines \in Files /\ SlowInv /\ FastInv /\ FastReadsFilled
  BY DEF BothInv, SlowPart, FastPart
<1>1. Len(lines) \in Nat \ {0}
  BY <1>0, FileTypes
<1>2. Readable = Len(lines)
  BY <1>0, <1>1 DEF SlowInv, Readable
<1>3. slow.at - 1 = Len(lines) /\ fast.at - 1 = Len(lines)
  BY <1>0, <1>1, <1>2 DEF SlowInv, FastInv
<1>4. slow.found = SlowFound(Len(lines)) /\ slow.seen = SlowSeen(Len(lines))
  BY <1>0, <1>3 DEF SlowInv
<1>5. fast.found = FilledEntries(Len(lines)) /\ fast.seen = FilledSeen(Len(lines))
  BY <1>0, <1>3 DEF FastReadsFilled, FilledEntries, FilledSeen
<1> QED
  BY <1>0, <1>3, <1>4, <1>5 DEF FastInv

\* On a clean file neither function panics and both print the same
\* (main_test.go:TestSearch).
THEOREM CleanAgree == BothSpec => []SameOnCleanFiles
<1>1. BothInv => SameOnCleanFiles
  <2> SUFFICES ASSUME BothInv, Clean
               PROVE  /\ slow.pc # "panic" /\ fast.pc # "panic"
                      /\ fast.pc = "printed" => slow.found = fast.found /\ slow.seen = fast.seen
    BY DEF SameOnCleanFiles
  <2>0. lines \in Files /\ CleanInv /\ FastInv /\ Turn
    BY DEF BothInv, SlowPart, FastPart
  <2>1. Len(lines) \in Nat \ {0} /\ DOMAIN lines = 1..Len(lines)
    BY <2>0, FileTypes
  <2>2. slow.pc # "panic" /\ fast.pc # "panic"
    BY <2>0, <2>1 DEF CleanInv, FastInv, Clean
  <2>3. ASSUME fast.pc = "printed"
        PROVE  slow.found = fast.found /\ slow.seen = fast.seen
    <3>1. slow.pc = "printed"
      BY <2>0, <2>2, <2>3 DEF Turn
    <3>2. \A k \in 1..Len(lines) :
            /\ Used(lines[k]) = lines[k].browsers.val
            /\ Filled(k, "browsers") = lines[k].browsers
      <4> TAKE k \in 1..Len(lines)
      <4>1. lines[k].browsers.is = "list" /\ Decodes(lines[k])
        BY <2>1 DEF Clean
      <4>2. lines[k]["browsers"].is # "missing" /\ k \in Nat \ {0}
        BY <2>1, <4>1
      <4>3. Filled(k, "browsers") = lines[k].browsers
        BY <4>2, FilledOwn
      <4> QED
        BY <2>0, <4>1, <4>3, DecodedBrowsers
    <3>3. SlowSeen(Len(lines)) = FilledSeen(Len(lines))
      BY <3>2 DEF SlowSeen, FilledSeen
    <3>4. FilledUsers(Len(lines)) = {j \in 1..Len(lines) : Matches(Used(lines[j]))}
      BY <3>2 DEF FilledUsers
    <3>5. \A k \in FilledUsers(Len(lines)) :
            /\ Filled(k, "name") = lines[k].name
            /\ Filled(k, "email") = lines[k].email
      <4> TAKE k \in FilledUsers(Len(lines))
      <4>1. k \in 1..Len(lines) /\ Matches(lines[k].browsers.val)
        BY <3>2 DEF FilledUsers
      <4>2. k \in Nat \ {0} /\ lines[k]["name"].is # "missing" /\ lines[k]["email"].is # "missing"
        BY <2>1, <4>1 DEF Clean
      <4> QED
        BY <4>2, FilledOwn
    <3>6. SlowFound(Len(lines)) = FilledEntries(Len(lines))
      BY <3>4, <3>5 DEF SlowFound, FilledEntries
    <3> QED
      BY <2>3, <3>1, <3>3, <3>6, AtTheEnd
  <2> QED
    BY <2>2, <2>3
<1> QED
  BY <1>1, Invariance, PTL

\* FastSearch misses no browser and no user that SlowSearch has, and prints a line
\* differently only where it lacks a field (fast.go:57-83).
THEOREM NobodyMissed == BothSpec => []FastMissesNobody
<1>1. BothInv => FastMissesNobody
  <2> SUFFICES ASSUME BothInv, slow.pc = "printed", fast.pc = "printed"
               PROVE  /\ slow.seen = fast.seen
                      /\ {e.number : e \in slow.found} \subseteq {e.number : e \in fast.found}
                      /\ \A e \in fast.found :
                           e \in slow.found \/ \E f \in Names : lines[e.number + 1][f].is = "missing"
    BY DEF FastMissesNobody, Names
  <2> DEFINE n == Len(lines)
  <2>0. /\ lines \in Files /\ n \in Nat /\ \A k \in 1..n : Decodes(lines[k])
        /\ \A k \in 0..n : \A f \in Names : FilledWell(k, f)
        /\ slow.found = SlowFound(n) /\ slow.seen = SlowSeen(n)
        /\ fast.found = FilledEntries(n) /\ fast.seen = FilledSeen(n)
    BY AtTheEnd, FileTypes DEF BothInv
  <2>1. \A k \in 1..n : lines[k].browsers.is # "missing" =>
          /\ Used(lines[k]) = lines[k].browsers.val
          /\ Filled(k, "browsers") = lines[k].browsers
    <3> SUFFICES ASSUME NEW k \in 1..n, lines[k].browsers.is # "missing"
                 PROVE  /\ Used(lines[k]) = lines[k].browsers.val
                        /\ Filled(k, "browsers") = lines[k].browsers
      OBVIOUS
    <3>1. k \in Nat \ {0} /\ lines[k]["browsers"].is # "missing"
      BY <2>0
    <3> QED
      BY <2>0, <3>1, FilledOwn, DecodedBrowsers
  <2>2. \A k \in 1..n : lines[k].browsers.is = "missing" => Used(lines[k]) = {}
    BY <2>0, DecodedBrowsers
  <2>3. SlowSeen(n) \subseteq FilledSeen(n)
    <3>1. \A k \in 1..n : Known(Used(lines[k])) \subseteq Known(Filled(k, "browsers").val)
      BY <2>1, <2>2 DEF Known
    <3> QED
      BY <3>1 DEF SlowSeen, FilledSeen
  <2>4. FilledSeen(n) \subseteq SlowSeen(n)
    <3>1. \A k \in 1..n : \/ Filled(k, "browsers").val = {}
                         \/ \E j \in 1..n : Filled(k, "browsers").val = Used(lines[j])
      <4> TAKE k \in 1..n
      <4>1. FilledWell(k, "browsers")
        BY <2>0 DEF Names
      <4>2. CASE Filled(k, "browsers") = EmptyUser["browsers"]
        BY <4>2 DEF EmptyUser, Field
      <4>3. CASE \E j \in 1..k : /\ lines[j]["browsers"].is # "missing"
                                 /\ Filled(k, "browsers") = lines[j]["browsers"]
        BY <2>0, <2>1, <4>3
      <4> QED
        BY <4>1, <4>2, <4>3 DEF FilledWell
    <3> QED
      BY <3>1 DEF SlowSeen, FilledSeen, Known
  <2>5. \A k \in 1..n : Matches(Used(lines[k])) => k \in FilledUsers(n)
    BY <2>1, <2>2 DEF FilledUsers, Matches
  <2>6. {e.number : e \in slow.found} \subseteq {e.number : e \in fast.found}
    <3> SUFFICES ASSUME NEW e \in SlowFound(n)
                 PROVE  \E d \in FilledEntries(n) : d.number = e.number
      BY <2>0
    <3>1. PICK k \in 1..n : Matches(Used(lines[k])) /\ e = Entry(k, lines[k].name, lines[k].email)
      BY DEF SlowFound
    <3>2. Entry(k, Filled(k, "name"), Filled(k, "email")) \in FilledEntries(n)
      BY <2>5, <3>1 DEF FilledEntries
    <3>3. Entry(k, Filled(k, "name"), Filled(k, "email")).number = e.number
      BY <3>1 DEF Entry
    <3> QED
      BY <3>2, <3>3
  <2>7. ASSUME NEW e \in fast.found
        PROVE  e \in slow.found \/ \E f \in Names : lines[e.number + 1][f].is = "missing"
    <3>1. PICK k \in 1..n : /\ Matches(Filled(k, "browsers").val)
                            /\ e = Entry(k, Filled(k, "name"), Filled(k, "email"))
      BY <2>0 DEF FilledEntries, FilledUsers
    <3>2. e.number + 1 = k
      BY <2>0, <3>1 DEF Entry
    <3>3. CASE \A f \in Names : lines[k][f].is # "missing"
      <4>1. \A f \in Names : Filled(k, f) = lines[k][f]
        BY <2>0, <3>3, FilledOwn
      <4>2. /\ Filled(k, "name") = lines[k].name /\ Filled(k, "email") = lines[k].email
            /\ lines[k].browsers.is # "missing"
        BY <3>3, <4>1 DEF Names
      <4>3. Matches(Used(lines[k]))
        BY <2>1, <3>1, <4>2
      <4> QED
        BY <2>0, <3>1, <4>2, <4>3 DEF SlowFound
    <3> QED
      BY <3>2, <3>3
  <2>8. slow.seen = fast.seen
    <3>1. SlowSeen(n) = FilledSeen(n)
      BY <2>3, <2>4
    <3> QED
      BY <2>0, <3>1
  <2> QED
    BY <2>6, <2>7, <2>8, Zenon
<1> QED
  BY <1>1, Invariance, PTL
=============================================================================
