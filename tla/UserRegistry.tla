---------------------------- MODULE UserRegistry ----------------------------
(***************************************************************************)
(* What the user API of hw5_codegen promises its clients, whatever the     *)
(* interleaving of its handlers: every call takes effect at one instant    *)
(* between its arrival and its answer.  A login is registered once, under  *)
(* the next free id, and stays as it was registered.                       *)
(***************************************************************************)
EXTENDS Naturals

CONSTANTS Calls,
          First,      \* the users there are at the start: login -> user
          FirstId,    \* the id of the first registration
          Asks        \* what calls may ask for: [op, login, user]

NotAsked == <<>>  \* a call that has not arrived
Open == <<>>      \* a call that has not taken effect

VARIABLES accounts,   \* login -> [ID, and what was registered]
          asked,      \* what each call asks for
          outcome     \* what each call came to

registryVars == <<accounts, asked, outcome>>

RegistryInit ==
  /\ accounts = First
  /\ asked = [c \in Calls |-> NotAsked]
  /\ outcome = [c \in Calls |-> Open]

Arrive(c) ==
  /\ asked[c] = NotAsked
  /\ \E a \in Asks : asked' = [asked EXCEPT ![c] = a]
  /\ UNCHANGED <<accounts, outcome>>

Asking(c, op) == asked[c] # NotAsked /\ asked[c].op = op /\ outcome[c] = Open
Known(c) == asked[c].login \in DOMAIN accounts
Comes(c, result) == outcome' = [outcome EXCEPT ![c] = result] /\ UNCHANGED asked

\* The ids that were given out, and those that may come next.
Given == {accounts[l].ID : l \in DOMAIN accounts \ DOMAIN First}
Fresh == ({FirstId} \cup {n + 1 : n \in Given}) \ Given

Register(c) ==
  /\ Asking(c, "create")
  /\ ~Known(c)
  /\ \E n \in Fresh :
       /\ accounts' = [l \in DOMAIN accounts \cup {asked[c].login} |->
                         IF l = asked[c].login THEN [ID |-> n, user |-> asked[c].user]
                         ELSE accounts[l]]
       /\ Comes(c, <<"created", n>>)

Refuse(c) ==
  Asking(c, "create") /\ Known(c) /\ Comes(c, <<"conflict">>) /\ UNCHANGED accounts

Show(c) ==
  Asking(c, "profile") /\ Known(c) /\ Comes(c, <<"found">>) /\ UNCHANGED accounts

Miss(c) ==
  Asking(c, "profile") /\ ~Known(c) /\ Comes(c, <<"missing">>) /\ UNCHANGED accounts

RegistryNext ==
  \E c \in Calls : Arrive(c) \/ Register(c) \/ Refuse(c) \/ Show(c) \/ Miss(c)

RegistrySpec == RegistryInit /\ [][RegistryNext]_registryVars
=============================================================================
