------------------------------ MODULE Fetcher --------------------------------
(***************************************************************************)
(* http/client: a Fetcher whose Do is called concurrently for one target.  *)
(* Do chooses between HTTP/1, HTTP/2 with prior knowledge, the h2c upgrade *)
(* and HTTP/2 over TLS, and falls back from one to the next (fetcher.go,   *)
(* http1.go, http2.go); HTTP/2 connections are shared through the          *)
(* connection pool, where singleflight merges concurrent dials             *)
(* (conn_pool.go).  The life of a request inside an HTTP/2 connection is   *)
(* ClientConn's; here do opens or finds its stream and returns.            *)
(***************************************************************************)
EXTENDS Naturals, FiniteSets

CONSTANTS
  Calls,      \* the callers of Do
  Flags,      \* flags of the fetch command: [grpc, http1, http2, upgrade, method]
  Servers     \* what the target may support: [tls, h2, up, h1]

VARIABLES
  srv,      \* the target
  call,     \* the state of each call
  conn,     \* the state of each connection, by the call and the step that dialled it
  pool,     \* connPool.conns[target], or NoConn, or Gone once the map is nil
  flight,   \* the calls in the singleflight of the target, the leader among them
  execs     \* history: how often the server executed the request of each call

vars == <<srv, call, conn, pool, flight, execs>>

None == "none"
NoConn == << >>
Gone == <<"nil">>
Kinds == {"direct", "upgrade", "h1", "tls"}
ConnIds == Calls \X Kinds

\* methodTakesBody, for the default --data '{}'.
MethodTakesBody(method) == method \in {"POST", "PUT", "PATCH"}

\* httpCall takes the first of --http1 and --http2, CallGRPC insists on HTTP/2 and posts
\* a message.
HttpCall(f) ==
  [proto |-> IF f.http1 THEN "h1" ELSE IF f.http2 THEN "h2" ELSE "auto",
   body  |-> MethodTakesBody(f.method)]
CallGRPC == [proto |-> "h2", body |-> TRUE]

\* decorate passes --upgrade on, with either kind of request.
decorate(r, f) == [proto |-> r.proto, body |-> r.body, upgrade |-> f.upgrade]
Request(f) == decorate(IF f.grpc THEN CallGRPC ELSE HttpCall(f), f)

Requests == {Request(f) : f \in Flags}

\* "raw": a connection, "up": a clientConn uses it, "left": dialContext failed and
\* left it open, "closed".  opened: has a stream been opened?  stream1 is the call whose
\* request is stream 1, while clientStreams has it.
Conns == [st : {"none", "raw", "up", "left", "closed"}, opened : BOOLEAN,
          stream1 : Calls \cup {None}]

TypeOK ==
  /\ srv \in Servers
  /\ call \in [Calls -> [req : Requests, pc : {"start", "dial", "preface", "upsend", "upread",
                 "get", "check", "join", "lead", "wait", "store", "do", "resp", "h1", "done", "panic"},
                 kind : Kinds \cup {None}, cc : ConnIds \cup {NoConn}, body : BOOLEAN,
                 refused : BOOLEAN, waited : SUBSET Kinds, asker : Calls \cup {None},
                 got : Calls \cup {None}, via : {"h1", "h2", None}]]
  /\ conn \in [ConnIds -> Conns]
  /\ pool \in ConnIds \cup {NoConn, Gone}
  /\ flight \subseteq Calls
  /\ execs \in [Calls -> 0 .. 3]

Init ==
  /\ srv \in Servers
  /\ \E r \in [Calls -> Requests] :
       call = [c \in Calls |-> [req |-> r[c], pc |-> "start", kind |-> None, cc |-> NoConn,
                body |-> r[c].body, refused |-> FALSE, waited |-> {}, asker |-> None,
                got |-> None, via |-> None]]
  /\ conn = [i \in ConnIds |-> [st |-> "none", opened |-> FALSE, stream1 |-> None]]
  /\ pool = NoConn
  /\ flight = {}
  /\ execs = [c \in Calls |-> 0]

-----------------------------------------------------------------------------
(* Choosing a protocol *)

Own(c) == <<c, call[c].kind>>
Go(c, pc) == call' = [call EXCEPT ![c].pc = pc]
Dial(c, kind) == call' = [call EXCEPT ![c].pc = "dial", ![c].kind = kind]
\* The record of a call that returns without a response.
Failed(r) == [r EXCEPT !.pc = "done"]
Fail(c) == call' = [call EXCEPT ![c] = Failed(@)]
SetConn(c, st) == conn' = [conn EXCEPT ![Own(c)].st = st]

\* conn.Close in the error paths of tryHTTP2Direct and tryHTTP2Upgrade.
Hangup(c) == SetConn(c, "closed")

\* The first connection of a request: doHTTP2 tries prior knowledge unless it is told to
\* upgrade, doHTTP and Do choose the protocol.
doHTTP2(r) == IF r.upgrade THEN "upgrade" ELSE "direct"
doHTTP(r) == IF r.proto = "h1" THEN "h1" ELSE doHTTP2(r)

Do(c) ==
  /\ call[c].pc = "start"
  /\ Dial(c, IF srv.tls THEN "tls" ELSE doHTTP(call[c].req))
  /\ UNCHANGED <<srv, conn, pool, flight, execs>>

\* Mutant of Unsupported: every request falls back.
UnsupportedAlways(r) ==
  IF r.kind = "tls" THEN [r EXCEPT !.pc = "h1"] ELSE [r EXCEPT !.pc = "dial", !.kind = "h1"]

\* ErrHTTP2Unsupported reaches doHTTP or doTLS: an HTTP/1 request follows unless the
\* caller insists on HTTP/2.
Unsupported(r) ==
  IF r.req.proto = "h2" THEN Failed(r)
  ELSE IF r.kind = "tls" THEN [r EXCEPT !.pc = "h1"]
  ELSE [r EXCEPT !.pc = "dial", !.kind = "h1"]

\* What follows the handshake: ALPN decides whether HTTP/2 is tried.
doHTTP2WithTLS(r) == IF srv.h2 THEN [r EXCEPT !.pc = "preface"] ELSE Unsupported(r)
doTLS(r) == IF r.req.proto = "h1" THEN [r EXCEPT !.pc = "h1"] ELSE doHTTP2WithTLS(r)

\* dialConn, and what the caller does next with the connection.
DialConn(c) ==
  /\ call[c].pc = "dial"
  /\ \/ Fail(c) /\ UNCHANGED conn
     \/ /\ SetConn(c, "raw")
        /\ call' = [call EXCEPT ![c] =
             CASE @.kind = "tls"     -> doTLS(@)
               [] @.kind = "upgrade" -> [@ EXCEPT !.pc = "upsend"]
               [] @.kind = "h1"      -> [@ EXCEPT !.pc = "h1"]
               [] OTHER              -> [@ EXCEPT !.pc = "preface"]]
  /\ UNCHANGED <<srv, pool, flight, execs>>

\* tryHTTP2Direct and doHTTP2WithTLS write the preface.
WritePreface(c) ==
  /\ call[c].pc = "preface"
  /\ \/ Go(c, "get") /\ UNCHANGED conn
     \/ call[c].kind = "direct" /\ Hangup(c) /\ Dial(c, "upgrade")
     \/ call[c].kind = "tls" /\ Fail(c) /\ UNCHANGED conn
  /\ UNCHANGED <<srv, pool, flight, execs>>

\* sendUpgradeRequestHTTP1 sends the request with its body, which is then used up.  A
\* network error is returned, and after one of the body HTTP/2 counts as unsupported.
SendUpgrade(c) ==
  /\ call[c].pc = "upsend"
  /\ \/ call' = [call EXCEPT ![c].pc = "upread", ![c].body = FALSE] /\ UNCHANGED conn
     \/ /\ Hangup(c)
        /\ \E r \in {Failed(call[c])} \cup IF call[c].body THEN {Unsupported(call[c])} ELSE {} :
             call' = [call EXCEPT ![c] = [r EXCEPT !.body = FALSE]]
  /\ UNCHANGED <<srv, pool, flight, execs>>

\* The server may have executed a request whose response does not arrive or is dropped.
PerhapsExecuted(c) ==
  \E n \in 0 .. (IF srv.up \/ srv.h1 THEN 1 ELSE 0) : execs' = [execs EXCEPT ![c] = @ + n]

\* readUpgradeResponse: 101, which only a server that supports the upgrade gives; another
\* status or the end of the stream, whatever it supports; or a network error.
ReadUpgrade(c) ==
  /\ call[c].pc = "upread"
  /\ \/ /\ srv.up
        /\ Go(c, "get")
        /\ execs' = [execs EXCEPT ![c] = @ + 1]
        /\ UNCHANGED conn
     \/ /\ Hangup(c)
        /\ call' = [call EXCEPT ![c] = [Unsupported(@) EXCEPT !.refused = TRUE]]
        /\ PerhapsExecuted(c)
     \/ Hangup(c) /\ Fail(c) /\ PerhapsExecuted(c)
  /\ UNCHANGED <<srv, pool, flight>>

-----------------------------------------------------------------------------
(* connPool.getConn *)

\* The pool is read under the read lock.
GetConn(c) ==
  /\ call[c].pc = "get"
  /\ call' = [call EXCEPT ![c].cc = IF pool = Gone THEN NoConn ELSE pool,
                          ![c].pc = IF pool \in {NoConn, Gone} THEN "join" ELSE "check"]
  /\ UNCHANGED <<srv, conn, pool, flight, execs>>

\* isValid pings the pooled connection; one that does not answer is closed.
CheckConn(c) ==
  /\ call[c].pc = "check"
  /\ \/ conn[call[c].cc].st = "up" /\ Go(c, "do") /\ UNCHANGED conn
     \/ /\ conn' = [conn EXCEPT ![call[c].cc].st = "closed"]
        /\ call' = [call EXCEPT ![c].pc = "join", ![c].cc = NoConn]
  /\ UNCHANGED <<srv, pool, flight, execs>>

\* singleflight: the first call dials for all that come before it is done.
Join(c) ==
  /\ call[c].pc = "join"
  /\ flight' = flight \cup {c}
  /\ call' = [call EXCEPT ![c].pc = IF flight = {} THEN "lead" ELSE "wait",
                          ![c].waited = IF flight = {} THEN @ ELSE @ \cup {call[c].kind}]
  /\ UNCHANGED <<srv, conn, pool, execs>>

\* What the caller of getConn does with an error: a network error is returned, after
\* any other one tryHTTP2Direct gives way to the upgrade, and the others give up HTTP/2.
Refused(r, network) ==
  IF network /\ r.kind # "tls" THEN Failed(r)
  ELSE IF r.kind = "direct" THEN [r EXCEPT !.pc = "dial", !.kind = "upgrade"]
  ELSE Unsupported(r)

\* Every call of the flight gets the leader's connection or its error.
Land(c, cc, network) ==
  /\ call' = [d \in Calls |->
       IF d \notin flight THEN call[d]
       ELSE IF cc # NoConn THEN [call[d] EXCEPT !.pc = "store", !.cc = cc]
       ELSE Refused(call[d], network)]
  /\ flight' = {}
  /\ UNCHANGED <<srv, pool, execs>>

\* Whether the peer speaks HTTP/2 on a connection of this kind.
SpeaksH2(kind) == IF kind = "upgrade" THEN srv.up ELSE srv.h2

\* dialContext succeeds: with WithH2CUpgrade, stream 1 waits for the response of the
\* call that sent the upgrade.
DialOk(c) ==
  /\ call[c].pc = "lead"
  /\ SpeaksH2(call[c].kind)
  /\ conn' = [conn EXCEPT ![Own(c)] =
       LET h2c == call[c].kind = "upgrade"
       IN  [st |-> "up", opened |-> h2c, stream1 |-> IF h2c THEN c ELSE None]]
  /\ Land(c, Own(c), FALSE)

\* dialContext fails: writing the settings fails (a network error), no settings come
\* in time, or the context or the read loop ends, which leaves the connection open.
DialError(c) ==
  /\ call[c].pc = "lead"
  /\ \/ SetConn(c, "closed") /\ Land(c, NoConn, TRUE)
     \/ SetConn(c, "closed") /\ Land(c, NoConn, FALSE)
     \/ SetConn(c, "left") /\ Land(c, NoConn, FALSE)

\* The connection is put in the pool; after Close the map is nil and this panics.
Store(c) ==
  /\ call[c].pc = "store"
  /\ IF pool = Gone
     THEN Go(c, "panic") /\ UNCHANGED pool
     ELSE Go(c, "do") /\ pool' = call[c].cc
  /\ UNCHANGED <<srv, conn, flight, execs>>

\* connPool.Close.
Close ==
  /\ pool # Gone
  /\ conn' = IF pool = NoConn THEN conn ELSE [conn EXCEPT ![pool].st = "closed"]
  /\ pool' = Gone
  /\ UNCHANGED <<srv, call, flight, execs>>

-----------------------------------------------------------------------------
(* The request *)

Answer(c, d, via) ==
  call' = [call EXCEPT ![c].pc = "done", ![c].got = d, ![c].via = via]

\* UpgradeFromContext: doHTTP2 sets it after an upgrade, and --upgrade sets it for every
\* request, over TLS too, where nothing is upgraded.
UpgradeFromContext(c) == call[c].kind = "upgrade" \/ call[c].req.upgrade

\* clientConn.do: with the upgrade in its context the call takes stream 1, whosever it
\* is, and writes nothing; without it a new stream is opened.  It fails on a closed
\* connection, when stream 1 is not there, and when the context ends.
DoHTTP2(c) ==
  LET cc == call[c].cc
  IN /\ call[c].pc = "do"
     /\ \/ /\ conn[cc].st = "up"
           /\ IF UpgradeFromContext(c)
              THEN /\ conn[cc].stream1 # None
                   /\ call' = [call EXCEPT ![c].pc = "resp", ![c].asker = conn[cc].stream1]
                   /\ UNCHANGED <<conn, execs>>
              ELSE /\ call' = [call EXCEPT ![c].pc = "resp", ![c].asker = c]
                   /\ conn' = [conn EXCEPT ![cc].opened = TRUE,
                                           ![cc].stream1 = IF conn[cc].opened THEN @ ELSE c]
                   /\ execs' = [execs EXCEPT ![c] = @ + 1]
        \/ Fail(c) /\ UNCHANGED <<conn, execs>>
     /\ UNCHANGED <<srv, pool, flight>>

\* do returns with the response of the stream, or with the context, and deletes the stream.
DoResponse(c) ==
  /\ call[c].pc = "resp"
  /\ Answer(c, call[c].asker, "h2") \/ Fail(c)
  /\ conn' = [conn EXCEPT ![call[c].cc].stream1 = IF @ = call[c].asker THEN None ELSE @]
  /\ UNCHANGED <<srv, pool, flight, execs>>

\* doHTTP1WithConn: a body that the upgrade used up cannot be written again.  The
\* connection is left to the response, and no one closes it after an error.
DoHTTP1(c) ==
  /\ call[c].pc = "h1"
  /\ \/ /\ conn[Own(c)].st = "raw"
        /\ srv.h1
        /\ call[c].req.body => call[c].body
        /\ Answer(c, c, "h1")
        /\ execs' = [execs EXCEPT ![c] = @ + 1]
     \/ Fail(c) /\ UNCHANGED execs
  /\ UNCHANGED <<srv, conn, pool, flight>>

Next ==
  \/ Close
  \/ \E c \in Calls :
       \/ Do(c) \/ DialConn(c) \/ WritePreface(c) \/ SendUpgrade(c) \/ ReadUpgrade(c)
       \/ GetConn(c) \/ CheckConn(c) \/ Join(c) \/ DialOk(c) \/ DialError(c) \/ Store(c)
       \/ DoHTTP2(c) \/ DoResponse(c) \/ DoHTTP1(c)

Spec == Init /\ [][Next]_vars

-----------------------------------------------------------------------------
(* Properties *)

\* A call whose context does not ask for the upgrade gets the response to its own
\* request, and so does one on a connection that it upgraded itself; any other call with
\* the upgrade in its context gets that of the request that is stream 1 of the
\* connection, whosever it is.  The response is in a protocol the caller accepts, of a
\* request the server executed, which was executed once, or twice when the upgrade was
\* refused after it.
OwnAnswer ==
  \A c \in Calls : call[c].got # None =>
    LET r == call[c]
    IN /\ ~ UpgradeFromContext(c) \/ r.cc = <<c, "upgrade">> => r.got = c
       /\ execs[r.got] >= 1
       /\ r.got = c => execs[c] <= IF r.refused THEN 2 ELSE 1
       /\ r.req.proto = "h2" => r.via = "h2"
       /\ r.req.proto = "h1" => r.via = "h1"

\* No connection gets lost: one that is open is worked on by a running call, is in the
\* pool or about to be put there, carried an HTTP/1 request, or was given up in one of
\* the ways the code has: dialContext left it, the call was given another call's
\* connection or waited for another call's dial, or another connection took its place in
\* the pool.
ConnsAccounted ==
  \A i \in ConnIds : conn[i].st \in {"raw", "up", "left"} =>
    LET c == i[1]
        running == call[c].pc \notin {"done", "panic"}
    IN \/ running /\ Own(c) = i
       \/ i[2] \in {"h1", "tls"} /\ conn[i].st = "raw"
       \/ conn[i].st = "left"
       \/ conn[i].st = "raw" /\ (call[c].cc \notin {NoConn, i} \/ i[2] \in call[c].waited)
       \/ conn[i].st = "up" /\ \/ pool \in {i, Gone}
                               \/ \E d \in Calls : call[d].pc = "store" /\ call[d].cc = i
                               \/ pool # NoConn /\ conn[pool].st \in {"up", "closed"}
==============================================================================
