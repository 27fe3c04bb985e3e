---------------------------- MODULE GrpcCommand ------------------------------
(***************************************************************************)
(* The grpc command (cmd/subcmds/grpc.go) and the reflection client it     *)
(* uses (cmd/internal/grpcrefl): list the services, list the methods of    *)
(* one, or look a method up through reflection and call it with a protobuf *)
(* message, or, when the server has no reflection, with a JSON frame.  The *)
(* deadline may pass, and the server may be replaced by another release,   *)
(* between any two of the command's RPCs.                                  *)
(***************************************************************************)
EXTENDS Naturals, Sequences

CONSTANTS
  Releases,   \* what may run at the target: [refl, path, json, method, imports]
  Commands,   \* [op, parts, ctxPath, data]: op is "list", "symbols" or "call"
  MaxDeploys  \* bound: replacements of the server

(* A method is a sequence of path segments: "pkg.Svc" is a service every     *)
(* release has, "Get" its method.  A release knows "Get" or only "Fetch",    *)
(* and its file may import one that is not linked into this binary.          *)
Reflection == <<"reflection", "Info">>

VARIABLES
  srv,      \* the release that runs
  cmd,      \* the command
  pc,       \* "start", "lookup", "reply", "invoke", "done"
  reply,    \* what the reflection stream returned
  desc,     \* the method descriptor, << >> for none
  result,   \* "none", "error" or what is printed
  served,   \* history: the calls the server executed, with their codec
  deploys

vars == <<srv, cmd, pc, reply, desc, result, served, deploys>>

Fields == [refl : BOOLEAN, path : BOOLEAN, json : BOOLEAN, method : {"Get", "Fetch"}, imports : BOOLEAN]

TypeOK ==
  /\ srv \in Releases /\ Releases \subseteq Fields
  /\ cmd \in Commands
  /\ pc \in {"start", "lookup", "reply", "invoke", "done"}
  /\ reply \in {"none", "unimplemented", "error", "names", "file", "badfile"} \X {"Get", "Fetch", "none"}
  /\ desc \in Seq(STRING)
  /\ result \in {"none", "error", "names", "methods", "response"}
  /\ \A i \in DOMAIN served : served[i] \in [rpc : Seq(STRING), codec : {"proto", "json"}]
  /\ deploys \in 0 .. MaxDeploys

Init ==
  /\ srv \in Releases /\ cmd \in Commands
  /\ pc = "start" /\ reply = <<"none", "none">> /\ desc = << >> /\ result = "none"
  /\ served = << >> /\ deploys = 0

-----------------------------------------------------------------------------
(* Names *)

\* ParseFullMethod, after the slashes at both ends are trimmed: two parts, not empty.
ParseFullMethod(parts) == Len(parts) = 2 /\ parts[1] # "" /\ parts[2] # ""

\* prefixMethod.
prefixMethod(rpc) == <<"ctx">> \o rpc

\* The interceptors rewrite the method of every RPC of the call, the reflection stream
\* included; the list commands install none.
OnWire(rpc) == IF cmd.op = "call" /\ cmd.ctxPath THEN prefixMethod(rpc) ELSE rpc

\* external: a server mounted under the context path serves only the methods below it.
Mounted(rpc) == IF srv.path THEN prefixMethod(rpc) ELSE rpc

\* strings.EqualFold on the names of this model: "get" is "Get" in another case.
EqualFold(a, b) == a = b \/ {a, b} = {"get", "Get"}

-----------------------------------------------------------------------------
(* The command *)

Return(r) == pc' = "done" /\ result' = r

\* RunE: the TLS flags may be wrong; a malformed method fails before any RPC.
RunE ==
  /\ pc = "start"
  /\ \/ Return("error")
     \/ IF cmd.op = "call" /\ ~ParseFullMethod(cmd.parts)
        THEN Return("error")
        ELSE pc' = "lookup" /\ UNCHANGED result
  /\ UNCHANGED <<srv, cmd, reply, desc, served, deploys>>

\* external: the reflection service.  FileContainingSymbol is exact on the name.
Reflect ==
  IF ~srv.refl \/ OnWire(Reflection) # Mounted(Reflection) THEN "unimplemented"
  ELSE IF cmd.op = "list" THEN "names"
  ELSE IF cmd.parts[1] # "pkg.Svc" THEN "error"
  ELSE IF srv.imports THEN "badfile" ELSE "file"

\* openStream, Send and Recv; every one of them may fail, or end with the context.
ReflectionCall ==
  /\ pc = "lookup"
  /\ \/ reply' = <<Reflect, srv.method>>
     \/ reply' = <<"error", "none">>
  /\ pc' = "reply"
  /\ UNCHANGED <<srv, cmd, desc, result, served, deploys>>

\* ListServices returns the names or the error.
ListServices ==
  /\ pc = "reply" /\ cmd.op = "list"
  /\ Return(IF reply[1] = "names" THEN "names" ELSE "error")
  /\ UNCHANGED <<srv, cmd, reply, desc, served, deploys>>

\* FileDescriptorsForSymbol: a file whose imports are not among the files linked into
\* this binary cannot be built.
FileDescriptorsForSymbol == reply[1] = "file"

\* listServiceSymbols prints the methods of the files.
listServiceSymbols ==
  /\ pc = "reply" /\ cmd.op = "symbols"
  /\ Return(IF FileDescriptorsForSymbol THEN "methods" ELSE "error")
  /\ UNCHANGED <<srv, cmd, reply, desc, served, deploys>>

\* LoadViaReflection finds the method in any case of letters.
LoadViaReflection ==
  IF FileDescriptorsForSymbol /\ EqualFold(cmd.parts[2], reply[2]) THEN <<cmd.parts[1], reply[2]>>
  ELSE << >>

\* Mutant of FallsBack: every error of the lookup is taken for a server without reflection.
FallsBackAlways == LoadViaReflection = << >>

\* Unimplemented means the server does not register reflection at all.
FallsBack == reply[1] = "unimplemented"

\* invokeByReflection up to the call: the descriptor, the JSON frame, or the error.
invokeByReflection ==
  /\ pc = "reply" /\ cmd.op = "call"
  /\ desc' = LoadViaReflection
  /\ IF desc' = << >> /\ ~FallsBack
     THEN Return("error")
     ELSE pc' = "invoke" /\ UNCHANGED result
  /\ UNCHANGED <<srv, cmd, reply, served, deploys>>

\* external: the server executes the method it has, in a codec it registers.
Executes(rpc, codec) ==
  /\ OnWire(rpc) = Mounted(<<"pkg.Svc", srv.method>>)
  /\ codec = "json" => srv.json

\* One unary RPC: it is executed or refused, and the answer may come too late.
Invoke(rpc, codec) ==
  /\ \/ /\ Executes(rpc, codec)
        /\ served' = Append(served, [rpc |-> rpc, codec |-> codec])
        /\ Return("response") \/ Return("error")
     \/ Return("error") /\ UNCHANGED served
  /\ UNCHANGED <<srv, cmd, reply, desc, deploys>>

\* InvokeJSON: the JSON must fit the message; the method's name is the descriptor's.
InvokeJSON ==
  /\ pc = "invoke" /\ desc # << >>
  /\ \/ cmd.data = "valid" /\ Invoke(desc, "proto")
     \/ /\ cmd.data = "invalid" /\ Return("error")
        /\ UNCHANGED <<srv, cmd, reply, desc, served, deploys>>

\* invokeJSONFrame: the data goes as it is, the method's name is the user's.
invokeJSONFrame ==
  /\ pc = "invoke" /\ desc = << >>
  /\ Invoke(cmd.parts, "json")

\* Another release replaces the server.
Deploy ==
  /\ deploys < MaxDeploys
  /\ deploys' = deploys + 1
  /\ srv' \in Releases
  /\ UNCHANGED <<cmd, pc, reply, desc, result, served>>

Next ==
  \/ RunE \/ ReflectionCall \/ ListServices \/ listServiceSymbols \/ invokeByReflection
  \/ InvokeJSON \/ invokeJSONFrame \/ Deploy

Spec == Init /\ [][Next]_vars

-----------------------------------------------------------------------------
(* Properties *)

\* The server executes at most one call of the command: the method the user named, up
\* to the case of its letters where reflection resolved it.  A JSON frame is sent only
\* when the lookup met a server without reflection, so never for a service name that
\* the server does not know; a response is printed only when the call was executed,
\* and the list commands call nothing, whatever release answers each RPC.
CallsWhatWasNamed ==
  /\ Len(served) <= 1
  /\ \A i \in DOMAIN served :
       /\ cmd.op = "call" /\ ParseFullMethod(cmd.parts)
       /\ served[i].rpc[1] = cmd.parts[1]
       /\ IF served[i].codec = "json"
          THEN reply[1] = "unimplemented" /\ served[i].rpc = cmd.parts
          ELSE EqualFold(served[i].rpc[2], cmd.parts[2]) /\ cmd.data = "valid"
  /\ pc = "invoke" => reply[1] \in {"unimplemented", "file"}
  /\ result = "response" => served # << >>
==============================================================================
