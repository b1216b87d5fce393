--------------------------- MODULE MCMicroservice ---------------------------
(***************************************************************************)
(* Small instances of Microservice.  The ACL has the shape of the one in   *)
(* service_test.go; the calls in Strangers carry no consumer metadata.     *)
(***************************************************************************)
EXTENDS Microservice

CONSTANT Strangers

MCAcl ==
  [k \in {"logger", "stat", "biz_user", "biz_admin"} |->
     CASE k = "logger"    -> << <<"main.Admin", "Logging">> >>
       [] k = "stat"      -> << <<"main.Admin", "Statistics">> >>
       [] k = "biz_user"  -> << <<"main.Biz", "Check">>, <<"main.Biz", "Add">> >>
       [] k = "biz_admin" -> << <<"main.Biz", "*">> >>]

MCMetadata ==
  [c \in Calls |-> IF c \in Strangers THEN <<>>
                   ELSE IF c \in LogCalls THEN <<"logger">>
                   ELSE IF c \in StatCalls THEN <<"stat">>
                   ELSE <<"biz_user">>]

MCFullMethod ==
  [c \in Calls |-> IF c \in LogCalls THEN <<"main.Admin", "Logging">>
                   ELSE IF c \in StatCalls THEN <<"main.Admin", "Statistics">>
                   ELSE <<"main.Biz", "Add">>]
=============================================================================
