------------------------------ MODULE MCUserApi ------------------------------
(***************************************************************************)
(* Requests like those of main_test.go: good ones, two for the same login, *)
(* and one for each way of being refused.                                  *)
(***************************************************************************)
EXTENDS UserApi

MCRvasily == Word("rvasily", 7)
MCBadUser == Word("bad_user", 8)
MCBadUsername == Word("bad_username", 12)
Anna == Word("anna_smith", 10)
Short == Word("new_m", 5)
Number(n) == [len |-> 2, ints |-> {n}, words |-> <<ToString(n)>>]

Profile_(q) ==
  [srv |-> "MyApi", path |-> "/user/profile", method |-> "GET", auth |-> FALSE,
   query |-> q, body |-> <<>>]
Create_(q) ==
  [srv |-> "MyApi", path |-> "/user/create", method |-> "POST", auth |-> TRUE,
   query |-> <<>>, body |-> q]
P(login) == [login |-> login]
C(login, name, status, age) ==
  [login |-> login, full_name |-> Word(name, 4), status |-> status, age |-> age]

Admin == Word("admin", 5)
Both == [len |-> 14, ints |-> {}, words |-> <<"user", "moderator">>]
Good == C(Anna, "Anna", Admin, Number(32))

\* Calls that reach the store.
MCRacing ==
  {Create_(Good),
   Create_([login |-> Anna, full_name |-> Word("Else", 4), age |-> Number(0)]),
   Create_(C(Word("bertha_smith", 12), "Bert", Word("moderator", 9), Number(128))),
   Profile_(P(Anna)), Profile_(P(MCRvasily))}

\* Calls that are refused, one for each reason.
MCRefused ==
  {Create_(C(Short, "Anna", Admin, Number(32))),
   Create_(C(Empty, "Anna", Admin, Number(32))),
   Create_(C(Anna, "Anna", Word("adm", 3), Number(32))),
   Create_(C(Anna, "Anna", Admin, Number(-1))),
   Create_(C(Anna, "Anna", Admin, Number(129))),
   Create_(C(Anna, "Anna", Admin, Word("ten", 3))),
   Create_(C(MCBadUsername, "Anna", Admin, Number(32))),
   Profile_(P(MCBadUser)),
   [Create_(Good) EXCEPT !.method = "GET"],
   [Create_(Good) EXCEPT !.auth = FALSE],
   [Create_(Good) EXCEPT !.path = "/user/unknown"],
   [Create_(C(Anna, "Anna", Admin, Number(129))) EXCEPT !.query = [age |-> Number(32)]],
   [Profile_(P(MCRvasily)) EXCEPT !.method = "PUT"],
   [srv |-> "OtherApi", path |-> "/user/create", method |-> "POST", auth |-> TRUE,
    query |-> <<>>, body |-> [username |-> Anna, level |-> Number(3)]]}

\* Two calls that reach the store, and one that may also be refused.
CONSTANTS c1, c2, c3
MCCalls == {c1, c2, c3}
MCRequests == [c \in MCCalls |-> IF c = c3 THEN MCRacing \cup MCRefused ELSE MCRacing]
MCEnum == [c \in {c1} |-> {Create_(C(Anna, "Anna", Both, Number(32)))}]
=============================================================================
