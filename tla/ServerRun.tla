----------------------------- MODULE ServerRun -------------------------------
(***************************************************************************)
(* The life of a server command: cli.RunServer runs a start function in a  *)
(* goroutine and, when its context is cancelled, a stop function.  Three   *)
(* kinds: "http" (fileserver and devtool: srv.Serve and srv.Shutdown),     *)
(* "proxy" (httpproxy: an accept loop and lis.Close) and "grpc"            *)
(* (echoservice: server.Serve, which watches the context itself, and       *)
(* GracefulStop).  net/http and grpc-go are external.                      *)
(***************************************************************************)
EXTENDS Naturals

CONSTANTS
  Kinds,      \* of "http", "proxy", "grpc"
  MaxActive   \* bound: requests or streams in progress

VARIABLES
  kind,
  ctx,      \* the command's context: "live", "done"
  main,     \* RunServer: "listen", "select", "stop", "drain", "await", "returned"
  result,   \* what it returns: "none", "nil", "error", "shutdown"
  start,    \* the start function: "listen", "serve", "graceful", "drain", "exited"
  startErr, \* what it sends to errCh: "none", "nil", "closed", "cancelled", "error"
  serving,  \* the goroutine in server.Serve of "grpc": "off", "begin", "run", "exited"
  lis,      \* the listener: "none", "open", "closed"
  shut,     \* Shutdown or GracefulStop has begun
  active    \* requests in progress

serverVars == <<kind, ctx, main, result, start, startErr, serving, lis, shut, active>>

ServerTypeOK ==
  /\ kind \in Kinds /\ ctx \in {"live", "done"}
  /\ main \in {"listen", "select", "stop", "drain", "await", "returned"}
  /\ result \in {"none", "nil", "error", "shutdown"}
  /\ start \in {"listen", "serve", "graceful", "drain", "exited"}
  /\ startErr \in {"none", "nil", "closed", "cancelled", "error"}
  /\ serving \in {"off", "begin", "run", "exited"}
  /\ lis \in {"none", "open", "closed"}
  /\ shut \in BOOLEAN /\ active \in 0 .. MaxActive

\* runHTTPProxy listens before it calls RunServer, the others in start.
ServerInit ==
  /\ kind \in Kinds
  /\ ctx = "live"
  /\ main = IF kind = "proxy" THEN "listen" ELSE "select"
  /\ start = IF kind = "proxy" THEN "serve" ELSE "listen"
  /\ result = "none" /\ startErr = "none" /\ serving = "off"
  /\ lis = "none" /\ shut = FALSE /\ active = 0

-----------------------------------------------------------------------------
(* The start functions *)

Exit(e) == start' = "exited" /\ startErr' = e

\* runHTTPProxy: net.Listen.
ProxyListen ==
  /\ main = "listen"
  /\ \/ main' = "select" /\ lis' = "open" /\ UNCHANGED result
     \/ main' = "returned" /\ result' = "error" /\ UNCHANGED lis
  /\ UNCHANGED <<kind, ctx, start, startErr, serving, shut, active>>

\* Its accept loop ends when the listener is closed; any other error it logs.
ProxyAccept ==
  /\ kind = "proxy" /\ main # "listen" /\ start = "serve" /\ lis = "closed"
  /\ Exit("nil")
  /\ UNCHANGED <<kind, ctx, main, result, serving, lis, shut, active>>

\* runFileServer and runDevtoolServer: listen, then srv.Serve, which closes the listener
\* at once when Shutdown has been called before.
HttpListen ==
  /\ kind = "http" /\ start = "listen"
  /\ \/ start' = "serve" /\ lis' = "open" /\ UNCHANGED startErr
     \/ Exit("error") /\ UNCHANGED lis
  /\ UNCHANGED <<kind, ctx, main, result, serving, shut, active>>

HttpServe ==
  /\ kind = "http" /\ start = "serve"
  /\ Exit(IF shut THEN "closed" ELSE "error")
  /\ lis' = "closed"
  /\ UNCHANGED <<kind, ctx, main, result, serving, shut, active>>

\* Serve of grpc/server: listen and run server.Serve in a goroutine,
GrpcListen ==
  /\ kind = "grpc" /\ start = "listen"
  /\ \/ start' = "serve" /\ lis' = "open" /\ serving' = "begin" /\ UNCHANGED startErr
     \/ Exit("error") /\ UNCHANGED <<lis, serving>>
  /\ UNCHANGED <<kind, ctx, main, result, shut, active>>

\* wait for it to end or for the context, and then stop the server gracefully.
GrpcServe ==
  /\ kind = "grpc"
  /\ \/ start = "serve" /\ serving = "exited" /\ Exit(startErr) /\ UNCHANGED <<lis, shut>>
     \/ /\ start = "serve" /\ ctx = "done"
        /\ start' = "drain" /\ shut' = TRUE
        /\ lis' = IF serving = "run" THEN "closed" ELSE lis
        /\ UNCHANGED startErr
     \/ start = "drain" /\ active = 0 /\ start' = "graceful" /\ UNCHANGED <<startErr, lis, shut>>
     \/ start = "graceful" /\ serving = "exited" /\ Exit(startErr) /\ UNCHANGED <<lis, shut>>
  /\ UNCHANGED <<kind, ctx, main, result, serving, active>>

\* server.Serve, external: a stopped server refuses to serve; a running one ends when a
\* stop has drained it, or with an error of the listener.
GrpcServing ==
  /\ \/ serving = "begin" /\ ~shut /\ serving' = "run" /\ UNCHANGED <<startErr, lis>>
     \/ serving = "begin" /\ shut /\ serving' = "exited" /\ startErr' = "error" /\ lis' = "closed"
     \/ serving = "run" /\ shut /\ active = 0 /\ serving' = "exited" /\ startErr' = "nil" /\ lis' = "closed"
     \/ serving = "run" /\ ~shut /\ serving' = "exited" /\ startErr' = "error" /\ lis' = "closed"
  /\ UNCHANGED <<kind, ctx, main, result, start, shut, active>>

-----------------------------------------------------------------------------
(* RunServer *)

\* Mutant of normalizeServeError: a closed server is taken for a failure.
normalizeNothing(e) == IF e \in {"nil", "cancelled"} THEN "nil" ELSE "error"

\* The end of a server that was asked to end is no error.
normalizeServeError(e) == IF e \in {"nil", "closed", "cancelled"} THEN "nil" ELSE "error"

Return(r) == main' = "returned" /\ result' = r

\* The select: start has ended, or the context is done.
Select ==
  /\ main = "select"
  /\ \/ start = "exited" /\ Return(normalizeServeError(startErr))
     \/ ctx = "done" /\ main' = "stop" /\ UNCHANGED result
  /\ UNCHANGED <<kind, ctx, start, startErr, serving, lis, shut, active>>

\* Mutant of Stop: the listener is left open.
StopKeepsListening ==
  /\ main = "stop"
  /\ shut' = TRUE
  /\ main' = IF kind = "proxy" THEN "await" ELSE "drain"
  /\ UNCHANGED <<kind, ctx, result, start, startErr, serving, lis, active>>

\* stop: lis.Close, or Shutdown and GracefulStop, which close the listeners and then
\* wait for the requests in progress.
StopServer ==
  /\ main = "stop"
  /\ shut' = TRUE
  /\ main' = IF kind = "proxy" THEN "await" ELSE "drain"
  /\ lis' = IF start = "serve" /\ serving \in {"off", "run"} /\ lis = "open"
            THEN "closed" ELSE lis
  /\ UNCHANGED <<kind, ctx, result, start, startErr, serving, active>>

Drained ==
  /\ main = "drain" /\ active = 0
  /\ main' = "await"
  /\ UNCHANGED <<kind, ctx, result, start, startErr, serving, lis, shut, active>>

\* ShutdownGrace ends: Shutdown gives up with the context's error.  The stop function
\* of echoservice does not look at its context.
GraceEnds ==
  /\ main = "drain" /\ kind = "http" /\ active > 0
  /\ Return("shutdown")
  /\ UNCHANGED <<kind, ctx, start, startErr, serving, lis, shut, active>>

Await ==
  /\ main = "await" /\ start = "exited"
  /\ Return(normalizeServeError(startErr))
  /\ UNCHANGED <<kind, ctx, start, startErr, serving, lis, shut, active>>

-----------------------------------------------------------------------------
(* The environment: a signal, clients *)

Signal ==
  /\ ctx = "live" /\ main # "returned"
  /\ ctx' = "done"
  /\ UNCHANGED <<kind, main, result, start, startErr, serving, lis, shut, active>>

ClientBegins ==
  /\ kind # "proxy" /\ lis = "open" /\ start = "serve" /\ serving \in {"off", "run"}
  /\ ~shut /\ active < MaxActive
  /\ active' = active + 1
  /\ UNCHANGED <<kind, ctx, main, result, start, startErr, serving, lis, shut>>

ClientEnds ==
  /\ active > 0 /\ active' = active - 1
  /\ UNCHANGED <<kind, ctx, main, result, start, startErr, serving, lis, shut>>

Program ==
  \/ ProxyListen \/ ProxyAccept \/ HttpListen \/ HttpServe \/ GrpcListen \/ GrpcServe
  \/ GrpcServing \/ Select \/ StopServer \/ Drained \/ Await

ServerNext == Program \/ GraceEnds \/ Signal \/ ClientBegins \/ ClientEnds

ServerSpec == ServerInit /\ [][ServerNext]_serverVars

\* The program's goroutines keep running and ten seconds pass; clients owe nothing.
\* An error of a listener that works is possible, not due, so it is left to Next.
ServerFairSpec ==
  /\ ServerSpec
  /\ WF_serverVars(ProxyListen) /\ WF_serverVars(ProxyAccept) /\ WF_serverVars(HttpListen) /\ WF_serverVars(shut /\ HttpServe)
  /\ WF_serverVars(GrpcListen) /\ WF_serverVars(GrpcServe) /\ WF_serverVars((shut \/ serving = "begin") /\ GrpcServing)
  /\ WF_serverVars(Select) /\ WF_serverVars(StopServer) /\ WF_serverVars(Drained) /\ WF_serverVars(Await) /\ WF_serverVars(GraceEnds)

-----------------------------------------------------------------------------
(* Properties *)

\* "It returns only after start has exited": with one exception, a Shutdown that ran
\* out of time, RunServer returns after start has, the listener is closed by then
\* whatever the order of signal, Serve and stop, and nil means that the server ended
\* because it was told to.
WellDefinedLifetime ==
  /\ ServerTypeOK
  /\ main = "returned" =>
       /\ lis # "open"
       /\ result # "shutdown" /\ lis # "none" => start = "exited"
       /\ result = "nil" => ctx = "done" /\ startErr \in {"nil", "closed", "cancelled"}
       /\ (result = "error" /\ startErr # "error") => (kind = "proxy" /\ lis = "none")

\* After the signal RunServer returns: fileserver and devtool within the grace period
\* whatever clients do, httpproxy at once, echoservice when its streams have ended.
Told == ctx = "done"
Stopped == main = "returned" \/ (kind = "grpc" /\ active > 0)
StopsOnSignal == Told ~> Stopped

\* "ShutdownGrace bounds how long RunServer waits for stop() to return."
GraceBoundsStop == ctx = "done" ~> main = "returned"
==============================================================================
