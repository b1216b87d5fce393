----------------------------- MODULE Generator -----------------------------
(***************************************************************************)
(* hw5: main of handlers_gen/codegen.go, which reads a Go file and writes  *)
(* the handlers of its annotated methods, the Unmarshall of its parameter  *)
(* structs and a ServeHTTP for each receiver.  What the generated code     *)
(* does is in ParamRules and UserApi; here is which of it is written.      *)
(***************************************************************************)
EXTENDS Integers, Order

\* The source files: the declarations in the order of the text, each function and
\* each type of its own, though types may be grouped or lie in a function: the first
\* loop looks at functions only, and ast.Inspect comes to the types wherever they are.
\* A method has its annotation, if any: the parts of its JSON, which are the zero
\* values when it does not parse.
\* A struct is known by whether its first field has an apivalidator tag, and
\* whether a field has no tag, no name or a type that is no plain name.
CONSTANT SourceFiles

Declarations ==
  [kind : {"func"}, annotated : BOOLEAN, pointer : BOOLEAN, receiver : STRING, name : STRING,
   input : STRING, url : STRING, method : STRING, auth : BOOLEAN]
  \cup [kind : {"struct"}, name : STRING, tagged : BOOLEAN, irregular : BOOLEAN]
  \cup [kind : {"other"}]

ASSUME SourceFilesAssumption == SourceFiles \subseteq Seq(Declarations)

VARIABLES
  decls,    \* the functions of node.Decls, and the types that ast.Inspect finds
  created,  \* os.Create gave a file
  phase,    \* decls -> types -> servers -> ok, or panic, or fatal
  next,     \* the declaration to look at next
  servers,  \* receiver -> its routes
  output    \* what is written after the header

generatorVars == <<decls, created, phase, next, servers, output>>

\* The error of os.Create is dropped; what is then written goes nowhere.
Write(pieces) == IF created THEN output \o pieces ELSE output

HandlerOf(d) ==
  [piece |-> "handler", receiver |-> d.receiver, name |-> d.name, input |-> d.input,
   method |-> d.method, auth |-> d.auth]
RouteOf(d) == [url |-> d.url, name |-> d.name]

RoutedSlip(receiver, route) ==
  [j \in DOMAIN servers \cup {receiver} |-> IF j = receiver THEN <<route>> ELSE servers[j]]

\* append(servers[srvName], info), which begins with an empty list.
Routed(receiver, route) ==
  LET routes == IF receiver \in DOMAIN servers THEN servers[receiver] ELSE <<>>
  IN  [j \in DOMAIN servers \cup {receiver} |->
         IF j = receiver THEN Append(routes, route) ELSE servers[j]]

Annotated(d) == d.kind = "func" /\ d.annotated

\* The handler of an annotated method.  getReceiverName takes a receiver that is
\* a pointer for granted.
GenerateHandler ==
  /\ phase = "decls" /\ next <= Len(decls)
  /\ LET d == decls[next]
     IN  \/ /\ ~Annotated(d)
            /\ next' = next + 1
            /\ UNCHANGED <<phase, servers, output>>
         \/ /\ Annotated(d) /\ d.pointer
            /\ next' = next + 1
            /\ servers' = Routed(d.receiver, RouteOf(d))
            /\ output' = Write(<<HandlerOf(d)>>)
            /\ UNCHANGED phase
         \/ /\ Annotated(d) /\ ~d.pointer
            /\ phase' = "panic"
            /\ UNCHANGED <<next, servers, output>>
  /\ UNCHANGED <<decls, created>>

\* The whole tree is walked through once more, for the structs.
StartInspect ==
  /\ phase = "decls" /\ next > Len(decls)
  /\ phase' = "types" /\ next' = 1
  /\ UNCHANGED <<decls, created, servers, output>>

IsParamStruct(d) == d.kind = "struct" /\ d.tagged

\* The Unmarshall of a parameter struct; this is the one write whose error ends
\* the program.
GenerateUnmarshaller ==
  /\ phase = "types" /\ next <= Len(decls)
  /\ LET d == decls[next]
     IN  \/ /\ ~IsParamStruct(d)
            /\ next' = next + 1
            /\ UNCHANGED <<phase, output>>
         \/ /\ IsParamStruct(d) /\ ~d.irregular /\ created
            /\ next' = next + 1
            /\ output' = Write(<<[piece |-> "unmarshall", name |-> d.name]>>)
            /\ UNCHANGED phase
         \/ /\ IsParamStruct(d) /\ (d.irregular \/ ~created)
            /\ phase' = IF d.irregular THEN "panic" ELSE "fatal"
            /\ UNCHANGED <<next, output>>
  /\ UNCHANGED <<decls, created, servers>>

\* for k, v := range servers, in any order.
GenerateServeHTTP ==
  /\ phase = "servers" \/ (phase = "types" /\ next > Len(decls))
  /\ \/ \E k \in DOMAIN servers :
          /\ output' = Write(<<[piece |-> "serve", receiver |-> k, routes |-> servers[k]]>>)
          /\ servers' = [j \in DOMAIN servers \ {k} |-> servers[j]]
          /\ phase' = "servers"
     \/ /\ servers = <<>>
        /\ phase' = "ok"
        /\ UNCHANGED <<servers, output>>
  /\ UNCHANGED <<decls, created, next>>

GeneratorInit ==
  /\ decls \in SourceFiles
  /\ created \in BOOLEAN
  /\ phase = "decls" /\ next = 1
  /\ servers = <<>> /\ output = <<>>

GeneratorNext == GenerateHandler \/ StartInspect \/ GenerateUnmarshaller \/ GenerateServeHTTP

GeneratorSpec == GeneratorInit /\ [][GeneratorNext]_generatorVars
-----------------------------------------------------------------------------
(***************************************************************************)
(* Properties.                                                             *)
(***************************************************************************)

Pieces(piece) == Entries(output, {i \in DOMAIN output : output[i].piece = piece})
Methods(receiver) ==
  Entries(decls, {i \in DOMAIN decls : Annotated(decls[i]) /\ decls[i].receiver = receiver})

\* When the generator ends well with a file, every annotated method has one handler,
\* in the order of the source, with the method and the authorization of its own
\* annotation, every receiver has one ServeHTTP whose routes are its own methods,
\* and every struct whose first field is tagged has one Unmarshall; before that,
\* the file never holds a ServeHTTP that lacks a route.
GeneratedWhole ==
  LET annotated == Entries(decls, {i \in DOMAIN decls : Annotated(decls[i])})
      structs == Entries(decls, {i \in DOMAIN decls : IsParamStruct(decls[i])})
  IN  /\ \A i \in DOMAIN output : output[i].piece = "serve" =>
           LET methods == Methods(output[i].receiver)
           IN  /\ output[i].routes = [k \in DOMAIN methods |-> RouteOf(methods[k])]
               /\ \A j \in DOMAIN output \ {i} :
                    output[j].piece = "serve" => output[j].receiver # output[i].receiver
      /\ phase = "ok" /\ created =>
           /\ Pieces("handler") = [k \in DOMAIN annotated |-> HandlerOf(annotated[k])]
           /\ Pieces("unmarshall") =
                [k \in DOMAIN structs |-> [piece |-> "unmarshall", name |-> structs[k].name]]
           /\ {output[i].receiver : i \in {j \in DOMAIN output : output[j].piece = "serve"}}
                = {annotated[k].receiver : k \in DOMAIN annotated}
      /\ phase = "ok" => \A k \in DOMAIN annotated : annotated[k].pointer
=============================================================================
