----------------------------- MODULE ParamRules -----------------------------
(***************************************************************************)
(* What handlers_gen/codegen.go makes of an annotated method and of the    *)
(* struct tags of its parameters, read as the checks the generated code of *)
(* api_handlers.go performs on a request.                                  *)
(*                                                                         *)
(* A text that a client sends is a record of what the checks can see: its  *)
(* length, the number strconv.Atoi reads in it, if any, and the words that *)
(* the character | splits it into.  A tag is the sequence of its           *)
(* comma-separated parts, each a label and what follows the = sign.  The   *)
(* code searches a part for the label; no part of api.go holds two.        *)
(***************************************************************************)
EXTENDS Integers, Sequences, TLC

Empty == [len |-> 0, ints |-> {}, words |-> <<>>]

\* q.Get: a parameter that is missing is the empty text.
Get(q, name) == IF name \in DOMAIN q THEN q[name] ELSE Empty
-----------------------------------------------------------------------------
(***************************************************************************)
(* getFieldParams: the labels of a tag.                                    *)
(***************************************************************************)

HasLabel(tag, label) == \E i \in DOMAIN tag : tag[i].label = label

\* The value of the first part with the label, as a set of at most one value.
Labelled(tag, label) ==
  LET parts == {i \in DOMAIN tag : tag[i].label = label}
  IN  {tag[i].value : i \in {j \in parts : \A k \in parts : j <= k}}

\* getParamName: the name of the parameter is the one the tag gives or that of
\* the field, which ToSnakeCase has made of words.
ParamName(field) ==
  IF HasLabel(field.tag, "paramname")
  THEN CHOOSE n \in Labelled(field.tag, "paramname") : TRUE
  ELSE field.snake
-----------------------------------------------------------------------------
(***************************************************************************)
(* generateUnmarshaller: the checks of a field, in the order of            *)
(* validateTmpl.                                                           *)
(***************************************************************************)

\* The enum check asks whether the text, put between two |, occurs in the enum,
\* put between two |.
OccursIn(words, enum) ==
  \E i, j \in DOMAIN enum : i <= j /\ words = SubSeq(enum, i, j)

\* The value of a field after its default: what is stored, if the checks pass.
Filled(field, v) ==
  LET default == Labelled(field.tag, "default")
  IN  IF v = Empty /\ default # {} THEN CHOOSE d \in default : TRUE ELSE v

\* The same without the test of the type: a slip that no specification uses.
MeasureSlip(field, v) == {v.len}

\* What min and max compare: the number of an int, the length of a string.
Measure(field, v) == IF field.type = "int" THEN v.ints ELSE {v.len}

\* What the required check calls empty.
IsZero(field, v) == IF field.type = "int" THEN v.ints = {0} ELSE v = Empty

\* Each check of a field, and whether the text v fails it.
Checks(field, v) ==
  LET f == Filled(field, v)
  IN  << <<"int", field.type = "int" /\ v.ints = {}>>,
         <<"required", HasLabel(field.tag, "required") /\ IsZero(field, v)>>,
         <<"enum", \E e \in Labelled(field.tag, "enum") : ~OccursIn(f.words, e)>>,
         <<"min", \E m \in Labelled(field.tag, "min") : \E n \in Measure(field, f) : n < m>>,
         <<"max", \E m \in Labelled(field.tag, "max") : \E n \in Measure(field, f) : n > m>> >>

\* Unmarshall returns the error of the first check that fails, field by field;
\* an error is the parameter and the check, and <<>> is nil.
UnmarshallError(fields, q) ==
  LET failing(i) == {k \in 1 .. 5 : Checks(fields[i], Get(q, ParamName(fields[i])))[k][2]}
      bad == {i \in DOMAIN fields : failing(i) # {}}
  IN  IF bad = {} THEN <<>>
      ELSE LET i == CHOOSE n \in bad : \A m \in bad : n <= m
               k == CHOOSE n \in failing(i) : \A m \in failing(i) : n <= m
           IN  <<ParamName(fields[i]), Checks(fields[i], Empty)[k][1]>>

\* What Unmarshall leaves in the struct.
Unmarshalled(fields, q) ==
  [name \in {fields[i].name : i \in DOMAIN fields} |->
     LET f == CHOOSE g \in {fields[i] : i \in DOMAIN fields} : g.name = name
     IN  Filled(f, Get(q, ParamName(f)))]
-----------------------------------------------------------------------------
(***************************************************************************)
(* handlerTmpl: the checks of a handler before Unmarshall.  They are made  *)
(* of the method and auth that the annotation gives.                       *)
(***************************************************************************)

\* The values a handler reads: r.Form puts the body's before the URL's.
UrlVal(r) == IF r.method = "GET" THEN r.query ELSE r.body @@ r.query

MethodAllowed(h, r) ==
  IF h.method = "POST" THEN r.method = "POST" ELSE r.method \in {"POST", "GET"}

\* Only a POST handler looks at the X-Auth header.
Authorized(h, r) == h.method = "POST" /\ h.auth => r.auth

\* The answer of the checks, 0 when the method of the struct is to be called.
Rejection(h, r) ==
  IF ~MethodAllowed(h, r) THEN 406
  ELSE IF ~Authorized(h, r) THEN 403
  ELSE IF UnmarshallError(h.fields, UrlVal(r)) # <<>> THEN 400
  ELSE 0
=============================================================================
