--------------------------- MODULE AccessControl ---------------------------
(***************************************************************************)
(* The access check of the gRPC service (hw7_microservice, checkACL).  A   *)
(* method is the pair <<service, name>> that the path "/service/name"      *)
(* splits into; the name of an ACL entry may be the wildcard "*".          *)
(***************************************************************************)
EXTENDS Naturals, Sequences

\* strings.Split(method, "/"): the last segment of an ACL entry.
LastSegment(method) == method[2]

\* An entry of the ACL admits a call when it is a wildcard or the very method.
EntryAdmits(method, fullmethod) ==
  \/ LastSegment(method) = "*"
  \/ method = fullmethod

\* checkACL returns nil: the request names a consumer (only the first value of
\* the metadata key counts), the ACL knows it and one of its entries admits
\* the method.  Every other outcome is codes.Unauthenticated.
checkACL(acl, consumers, fullmethod) ==
  /\ consumers # <<>>
  /\ consumers[1] \in DOMAIN acl
  /\ \E i \in DOMAIN acl[consumers[1]] :
        EntryAdmits(acl[consumers[1]][i], fullmethod)
=============================================================================
