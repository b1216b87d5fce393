----------------------------- MODULE FastSearch -----------------------------
(***************************************************************************)
(* hw3: SlowSearch of common.go and FastSearch of fast.go over the same    *)
(* file, one after the other as main_test.go runs them.                    *)
(*                                                                         *)
(* Both print the users who have used an Android browser and an MSIE one,  *)
(* and how many such browsers there are.  SlowSearch parses the whole file *)
(* into generic maps before it looks at the first user; FastSearch decodes *)
(* line by line into one User that it never clears.                        *)
(***************************************************************************)
EXTENDS Integers, Sequences

CONSTANTS Files,           \* what users.txt may hold: the texts between its newlines
          Browsers, Texts, \* the strings in a "browsers" list, and those elsewhere
          Android, MSIE,   \* the browsers whose name says so
          NotString        \* an element of "browsers" that is no string

\* The value of a field: a list of browsers, of which only the set matters, or a
\* text; missing when it is absent or null; other when its type is another.
Field(is, val) == [is |-> is, val |-> val]
Lists == [is : {"list", "missing", "other"}, val : SUBSET (Browsers \cup {NotString})]
Strings == [is : {"text", "missing", "other"}, val : Texts]

\* A line is an object or null, or it does not parse; it may be longer than the
\* buffer of bufio.Reader.
Line == [kind : {"object", "null", "bad", "empty"}, long : BOOLEAN,
         browsers : Lists, name : Strings, email : Strings]

ASSUME FileAssumption ==
  /\ Files \subseteq Seq(Line) \ {<<>>}
  /\ NotString \notin Browsers
  /\ \A file \in Files : \A k \in DOMAIN file :
       file[k].kind = "null" => \A f \in {"browsers", "name", "email"} :
                                   file[k][f].is = "missing"
  /\ "" \in Texts

VARIABLES
  lines,  \* the file, split at its newlines: a newline at its end leaves an empty line
  slow,   \* SlowSearch: pc, the user it is at, the users found, the browsers seen
  fast    \* FastSearch: the same, and the User it decodes into

bothVars == <<lines, slow, fast>>

\* Counted once each; and a user with one of both.
Known(browsers) == browsers \cap (Android \cup MSIE)
Matches(browsers) == browsers \cap Android # {} /\ browsers \cap MSIE # {}

\* "[i] name <email>", with the "@" of the email replaced.  The number puts the
\* lines that are printed in order.
Entry(i, name, email) ==
  [number |-> i - 1, name |-> name, email |-> [email EXCEPT !.is = "masked"]]
-----------------------------------------------------------------------------
(***************************************************************************)
(* SlowSearch.                                                             *)
(***************************************************************************)

\* One line that is no object and not null is a panic before anything is printed.
SlowParse ==
  /\ slow.pc = "parse"
  /\ slow' = [slow EXCEPT !.pc =
       IF \A k \in DOMAIN lines : lines[k].kind \in {"object", "null"}
       THEN "search" ELSE "panic"]
  /\ UNCHANGED <<lines, fast>>

\* A "browsers" that is no list skips the user, an element that is no string is
\* skipped alone.
Used(line) == IF line.browsers.is = "list" THEN line.browsers.val \cap Browsers ELSE {}

\* The next user: the email must be a string, but only of a user who is printed;
\* the name is printed whatever it is.
SlowUser ==
  /\ slow.pc = "search"
  /\ slow.at <= Len(lines)
  /\ LET line == lines[slow.at]
         seen == slow.seen \cup Known(Used(line))
     IN  \/ /\ ~Matches(Used(line))
            /\ slow' = [slow EXCEPT !.at = @ + 1, !.seen = seen]
         \/ /\ Matches(Used(line)) /\ line.email.is = "text"
            /\ slow' = [slow EXCEPT !.at = @ + 1, !.seen = seen,
                          !.found = @ \cup {Entry(slow.at, line.name, line.email)}]
         \/ /\ Matches(Used(line)) /\ line.email.is # "text"
            /\ slow' = [slow EXCEPT !.pc = "panic", !.seen = seen]
  /\ UNCHANGED <<lines, fast>>

SlowPrint ==
  /\ slow.pc = "search"
  /\ slow.at > Len(lines)
  /\ slow' = [slow EXCEPT !.pc = "printed"]
  /\ UNCHANGED <<lines, fast>>
-----------------------------------------------------------------------------
(***************************************************************************)
(* FastSearch.                                                             *)
(***************************************************************************)

EmptyUser ==
  [browsers |-> Field("list", {}), name |-> Field("text", ""), email |-> Field("text", "")]

ReadableSlip == Len(lines) - 1

\* ReadLine gives no line behind the last newline.
Readable == IF lines[Len(lines)].kind = "empty" THEN Len(lines) - 1 ELSE Len(lines)

\* UnmarshalJSON succeeds.  Of a long line ReadLine gives the beginning, which is
\* no object.
Decodes(line) ==
  /\ line.kind \in {"object", "null"}
  /\ ~line.long
  /\ line.browsers.is # "other" /\ line.name.is # "other" /\ line.email.is # "other"
  /\ line.browsers.is = "list" => line.browsers.val \subseteq Browsers

DecodeSlip(user, line) ==
  [f \in {"browsers", "name", "email"} |->
     IF line[f].is = "missing" /\ f # "browsers" THEN EmptyUser[f]
     ELSE IF line[f].is = "missing" THEN user[f] ELSE line[f]]

\* The decoder skips a null and never sees a key that is absent: the field keeps
\* the value of an earlier line.
Decode(user, line) ==
  [f \in {"browsers", "name", "email"} |->
     IF line[f].is = "missing" THEN user[f] ELSE line[f]]

FastUser ==
  /\ fast.pc = "search"
  /\ fast.at <= Readable
  /\ LET line == lines[fast.at]
         user == Decode(fast.user, line)
     IN  \/ /\ ~Decodes(line)
            /\ fast' = [fast EXCEPT !.pc = "panic"]
         \/ /\ Decodes(line)
            /\ fast' = [fast EXCEPT
                 !.at = @ + 1, !.user = user,
                 !.seen = @ \cup Known(user.browsers.val),
                 !.found = @ \cup (IF Matches(user.browsers.val)
                                   THEN {Entry(fast.at, user.name, user.email)} ELSE {})]
  /\ UNCHANGED <<lines, slow>>

FastPrint ==
  /\ fast.pc = "search"
  /\ fast.at > Readable
  /\ fast' = [fast EXCEPT !.pc = "printed"]
  /\ UNCHANGED <<lines, slow>>

\* The second function is called when the first is over.
FastStart ==
  /\ slow.pc \in {"printed", "panic"}
  /\ fast.pc = "idle"
  /\ fast' = [fast EXCEPT !.pc = "search"]
  /\ UNCHANGED <<lines, slow>>
-----------------------------------------------------------------------------
BothInit ==
  /\ lines \in Files
  /\ slow = [pc |-> "parse", at |-> 1, found |-> {}, seen |-> {}]
  /\ fast = [pc |-> "idle", at |-> 1, found |-> {}, seen |-> {}, user |-> EmptyUser]

BothNext == SlowParse \/ SlowUser \/ SlowPrint \/ FastStart \/ FastUser \/ FastPrint

BothSpec == BothInit /\ [][BothNext]_bothVars
-----------------------------------------------------------------------------
(***************************************************************************)
(* Properties.                                                             *)
(***************************************************************************)

\* What line k comes to when each field it lacks is filled from the closest line
\* before it that has the field.
Having(k, f) == {j \in 1..k : lines[j][f].is # "missing"}
Latest(numbers) == CHOOSE j \in numbers : \A i \in numbers : i <= j
Filled(k, f) == IF Having(k, f) = {} THEN EmptyUser[f] ELSE lines[Latest(Having(k, f))][f]

FilledUsers(n) == {k \in 1..n : Matches(Filled(k, "browsers").val)}

\* FastSearch prints what a search over the filled lines finds, no more and no
\* less, up to the line at which it panics.
FastReadsFilled ==
  LET n == fast.at - 1
  IN  /\ fast.found = {Entry(k, Filled(k, "name"), Filled(k, "email")) : k \in FilledUsers(n)}
      /\ fast.seen = UNION {Known(Filled(k, "browsers").val) : k \in 1..n}

\* A file with objects only, of the types of User and none too long, that all have
\* "browsers", those of the users to print with name and email; and no newline at
\* the end.
Clean ==
  \A k \in DOMAIN lines :
    /\ lines[k].kind = "object" /\ Decodes(lines[k])
    /\ lines[k].browsers.is = "list"
    /\ Matches(lines[k].browsers.val) => lines[k].name.is = "text" /\ lines[k].email.is = "text"

\* TestSearch: on a clean file neither function panics, and they print the same.
SameOnCleanFiles ==
  Clean => /\ slow.pc # "panic" /\ fast.pc # "panic"
           /\ fast.pc = "printed" => slow.found = fast.found /\ slow.seen = fast.seen

\* On any file that both come to the end of, FastSearch has seen every browser and
\* found every user that SlowSearch has; where the two print a line differently, or
\* only FastSearch prints one, that line lacks a field.
FastMissesNobody ==
  slow.pc = "printed" /\ fast.pc = "printed" =>
    /\ slow.seen = fast.seen
    /\ {e.number : e \in slow.found} \subseteq {e.number : e \in fast.found}
    /\ \A e \in fast.found : e \in slow.found \/ \E f \in {"browsers", "name", "email"} :
                                                   lines[e.number + 1][f].is = "missing"
=============================================================================
