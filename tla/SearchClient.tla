---------------------------- MODULE SearchClient ----------------------------
(***************************************************************************)
(* hw4: SearchClient.FindUsers of client.go, the SearchService that        *)
(* client_test.go runs it against, and a caller that pages: it asks again  *)
(* from behind the users it got while NextPage is set, and may retry after *)
(* an error.  Between the two, an answer may be late, lost or cut short.   *)
(*                                                                         *)
(* Found is what the service finds for a query, filtered and sorted: the   *)
(* same users in the same order every time, for it reads the same file,    *)
(* and sort.Slice, if not stable, always leaves ties alike.                *)
(***************************************************************************)
EXTENDS Integers, Sequences

CONSTANTS Requests,   \* the SearchRequests and tokens a caller starts with
          Queries,    \* the texts to search for
          Found,      \* query -> the users found, in order
          User,       \* what a user is
          MaxLimit    \* 25: the largest page

ASSUME RequestAssumption ==
  /\ Requests \subseteq [token : STRING, query : Queries, field : STRING, by : Int,
                         limit : Int, offset : Int]
  /\ Found \in [Queries -> Seq(User)]
  /\ MaxLimit \in Nat

VARIABLES
  pc,         \* idle -> call -> sent -> answered -> returned (-> call)
  want,       \* the request of the caller
  sent,       \* the request that FindUsers sends
  answer,     \* the answer of the service
  result,     \* what FindUsers returned
  \* history
  from,       \* the offset the caller began with
  collected   \* the users it has got since

searchVars == <<pc, want, sent, answer, result, from, collected>>

\* What FindUsers returns: a page, or an error.
Page(users, next) == [error |-> "", users |-> users, next |-> next]
Failed(cause) == [error |-> cause, users |-> <<>>, next |-> FALSE]

\* What comes back: a status with a body that parses as users, as an error, or
\* as neither.
Answer(status, json, users, error) ==
  [status |-> status, json |-> json, users |-> users, error |-> error]
UsersBody(users) == Answer("OK", "users", users, "")
ErrorBody(text) == Answer("BadRequest", "error", <<>>, text)
Junk(status) == Answer(status, "none", <<>>, "")
-----------------------------------------------------------------------------
(***************************************************************************)
(* FindUsers.                                                              *)
(***************************************************************************)

Capped(limit) == IF limit > MaxLimit THEN MaxLimit ELSE limit

\* Limit++: one user more than the page tells whether there is a next one.
AskedSlip(r) == [r EXCEPT !.limit = Capped(r.limit + 1)]
Asked(r) == [r EXCEPT !.limit = Capped(r.limit) + 1]

\* The checks of the request come first; what passes is sent.
FindUsers ==
  /\ pc = "call"
  /\ \/ /\ want.limit < 0
        /\ result' = Failed("limit must be > 0")
        /\ pc' = "returned"
        /\ UNCHANGED sent
     \/ /\ want.limit >= 0 /\ want.offset < 0
        /\ result' = Failed("offset must be > 0")
        /\ pc' = "returned"
        /\ UNCHANGED sent
     \/ /\ want.limit >= 0 /\ want.offset >= 0
        /\ sent' = Asked(want)
        /\ pc' = "sent"
        /\ UNCHANGED result
  /\ UNCHANGED <<want, answer, from, collected>>

BadRequestSlip(a) ==
  IF a.json # "error" THEN Failed("cant unpack error json")
  ELSE Failed("OrderFeld invalid")

\* A 400 is the service's error about the request.
BadRequest(a) ==
  IF a.json # "error" THEN Failed("cant unpack error json")
  ELSE IF a.error = "ErrorBadOrderField" THEN Failed("OrderFeld invalid")
  ELSE Failed("unknown bad request error")

\* len(data) == req.Limit: the last user only announces the next page.
Unpack(r, a) ==
  IF a.json # "users" THEN Failed("cant unpack result json")
  ELSE IF Len(a.users) = r.limit
       THEN Page(SubSeq(a.users, 1, Len(a.users) - 1), TRUE)
       ELSE Page(a.users, FALSE)

\* The error of client.Do, the switch over the status, and the page; an error
\* while the body is read is not looked at, what came of it must parse.
Outcome(r, a) ==
  IF a.status = "Timeout" THEN Failed("timeout")
  ELSE IF a.status = "Broken" THEN Failed("unknown error")
  ELSE IF a.status = "Unauthorized" THEN Failed("Bad AccessToken")
  ELSE IF a.status = "InternalServerError" THEN Failed("SearchServer fatal error")
  ELSE IF a.status = "BadRequest" THEN BadRequest(a)
  ELSE Unpack(r, a)

Return ==
  /\ pc = "answered"
  /\ pc' = "returned"
  /\ result' = Outcome(sent, answer)
  /\ collected' = collected \o result'.users
  /\ UNCHANGED <<want, sent, answer, from>>
-----------------------------------------------------------------------------
(***************************************************************************)
(* SearchService and the network.                                          *)
(***************************************************************************)

Fields == {"", "Name", "Id", "Age"}

WindowSlip(found, limit, offset) ==
  SubSeq(found, offset + 1, IF limit < Len(found) THEN limit ELSE Len(found))

\* res[offset:], and of that res[:limit] when there is more.
Window(found, limit, offset) ==
  SubSeq(found, offset + 1, IF offset + limit < Len(found) THEN offset + limit ELSE Len(found))

\* What the service answers.  A slice from behind the end panics, and net/http
\* closes the connection.
SearchService(r) ==
  IF r.token = "" THEN Junk("Unauthorized")
  ELSE IF r.query = "wrong_json" THEN Junk("BadRequest")
  ELSE IF r.query = "internal" THEN Junk("InternalServerError")
  ELSE IF r.query = "bad_user" THEN Junk("OK")
  ELSE IF r.by \notin {-1, 0, 1} THEN ErrorBody("order_by should be 1,0 or -1")
  ELSE IF r.field \notin Fields THEN ErrorBody("ErrorBadOrderField")
  ELSE IF r.offset > Len(Found[r.query]) THEN Junk("Broken")
  ELSE UsersBody(Window(Found[r.query], r.limit, r.offset))

\* The answer arrives within the second that client allows, and whole; the query
\* "timeout" makes the service sleep for two.
Serve ==
  /\ pc = "sent"
  /\ sent.query # "timeout"
  /\ answer' = SearchService(sent)
  /\ pc' = "answered"
  /\ UNCHANGED <<want, sent, result, from, collected>>

LoseSlip ==
  /\ pc = "sent" /\ sent.query # "timeout"
  /\ answer' \in {Junk("Broken"), Junk(SearchService(sent).status)}
  /\ pc' = "answered"
  /\ UNCHANGED <<want, sent, result, from, collected>>

\* It arrives too late or not at all, or breaks off in its body.
Lose ==
  /\ pc = "sent"
  /\ \/ answer' \in {Junk("Timeout"), Junk("Broken")}
     \/ sent.query # "timeout" /\ answer' = Junk(SearchService(sent).status)
  /\ pc' = "answered"
  /\ UNCHANGED <<want, sent, result, from, collected>>
-----------------------------------------------------------------------------
(***************************************************************************)
(* The caller, and the specification.                                      *)
(***************************************************************************)

SearchInit ==
  /\ pc = "idle"
  /\ want \in Requests
  /\ sent = want
  /\ answer = Junk("Broken")
  /\ result = Failed("")
  /\ from = want.offset
  /\ collected = <<>>

Begin ==
  /\ pc = "idle"
  /\ pc' = "call"
  /\ UNCHANGED <<want, sent, answer, result, from, collected>>

\* NextPage: ask for what follows the users of this page.
Continue ==
  /\ pc = "returned"
  /\ result.next
  /\ want' = [want EXCEPT !.offset = @ + Len(result.users)]
  /\ pc' = "call"
  /\ UNCHANGED <<sent, answer, result, from, collected>>

\* An error: ask again for the same page.
Retry ==
  /\ pc = "returned"
  /\ result.error # ""
  /\ pc' = "call"
  /\ UNCHANGED <<want, sent, answer, result, from, collected>>

SearchNext == Begin \/ FindUsers \/ Serve \/ Lose \/ Return \/ Continue \/ Retry

SearchSpec == SearchInit /\ [][SearchNext]_searchVars

\* FindUsers goes on by itself, client.Timeout ends every wait, and the caller
\* asks for page after page; nothing makes it retry.
SearchFairness == WF_searchVars(Begin \/ FindUsers \/ Serve \/ Lose \/ Return \/ Continue)
-----------------------------------------------------------------------------
(***************************************************************************)
(* Properties.                                                             *)
(***************************************************************************)

Returned == pc = "returned" /\ result.error = ""

\* The page FindUsers returns is the one that was asked for, as long as the cap
\* allows, and NextPage says whether the service has more behind it.
PageIsTrue ==
  Returned =>
    LET found == Found[want.query]
    IN  /\ result.users = SubSeq(found, want.offset + 1, want.offset + Len(result.users))
        /\ Len(result.users) <= Capped(want.limit)
        /\ result.next <=> want.offset + Len(result.users) < Len(found)
        /\ result.next => Len(result.users) = Capped(want.limit)

\* Whatever is lost and retried on the way, a caller that pages has got the users
\* from where it began, each once and in order, and when a page says it is the
\* last, all of them.
EveryUserOnce ==
  /\ \A i \in DOMAIN collected : collected[i] = Found[want.query][from + i]
  /\ Returned /\ ~result.next => from + Len(collected) = Len(Found[want.query])

\* FindUsers blames the token, the order field or the limits only when they are
\* wrong, and returns no page when any of them is.
BlameIsRight ==
  pc = "returned" =>
    /\ result.error = "Bad AccessToken" => want.token = ""
    /\ result.error = "OrderFeld invalid" => want.field \notin Fields
    /\ result.error = "limit must be > 0" => want.limit < 0
    /\ result.error = "offset must be > 0" => want.limit >= 0 /\ want.offset < 0
    /\ result.error = "" => /\ want.token # "" /\ want.field \in Fields
                            /\ want.by \in {-1, 0, 1}
                            /\ want.limit >= 0 /\ want.offset >= 0

\* Paging ends, with the last page or an error, unless the caller asks for pages
\* of no user: then NextPage stays set for ever.
PagingEnds ==
  (pc = "call" /\ want.limit # 0 /\ MaxLimit > 0) ~> (pc = "returned" /\ ~result.next)
=============================================================================
