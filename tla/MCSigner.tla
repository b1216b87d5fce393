------------------------------ MODULE MCSigner ------------------------------
(***************************************************************************)
(* A small instance of Signer: two inputs that come out of order.  The     *)
(* strings are ordered like the numbers they stem from.                    *)
(***************************************************************************)
EXTENDS Signer

MCInput == <<2, 1>>

\* The input number at the core of a MultiHash result.
Number(val) == val[0][2][3][0][2][2]
MCLess(a, b) == Number(a) < Number(b)
=============================================================================
