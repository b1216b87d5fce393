----------------------------- MODULE Signature -----------------------------
(***************************************************************************)
(* What the pipeline of hw2_signer promises (hw2.md, TestSigner): it takes *)
(* its inputs one after the other and, once it has them all, delivers one  *)
(* value: the hashes of all inputs, sorted and joined.  Which goroutine    *)
(* hashes what, and when, does not show.                                   *)
(***************************************************************************)
EXTENDS HashTerms

CONSTANTS Input,    \* the sequence of input numbers
          Less(_, _)  \* the order sort.Strings sorts by

VARIABLES taken,   \* how many inputs were taken
          output   \* the values delivered

Hashes == [i \in DOMAIN Input |-> HashOf(Input[i])]
Joined == Sorted(Hashes, Less)

SignatureInit == taken = 0 /\ output = <<>>

Take ==
  /\ taken < Len(Input)
  /\ taken' = taken + 1
  /\ UNCHANGED output

Deliver ==
  /\ taken = Len(Input)
  /\ output = <<>>
  /\ output' = <<Joined>>
  /\ UNCHANGED taken

SignatureSpec ==
  SignatureInit /\ [][Take \/ Deliver]_<<taken, output>>
=============================================================================
