----------------------------- MODULE MCLifecycle -----------------------------
(***************************************************************************)
(* Two services on the same address, and one whose ACL is no JSON.         *)
(***************************************************************************)
EXTENDS Lifecycle

CONSTANTS s1, s2, sBad, a1, a2

MCServers == {s1, s2, sBad}
MCAddrs == {a1, a2}
MCAddr == [s \in MCServers |-> IF s = sBad THEN a2 ELSE a1]
MCBadAcl == {sBad}
MCPatient == {s1}
=============================================================================
