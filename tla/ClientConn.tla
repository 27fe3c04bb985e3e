----------------------------- MODULE ClientConn -----------------------------
(***************************************************************************)
(* An HTTP/2 connection of http/client/client_conn.go: dialContext, the    *)
(* goroutines that call do and isValid, the serializer that writes all     *)
(* frames, the reader goroutine that handles the server's frames, and      *)
(* Close.  The server answers what is on the wire, in any order.           *)
(*                                                                         *)
(* The serializer is the Executor that CallbackSerializer implements: a    *)
(* queue of callbacks of which the first is being executed.  A callback    *)
(* hands its result over on an unbuffered channel, so it ends when its     *)
(* caller takes the result and not before.  Once the connection's context  *)
(* is cancelled a callback is refused or returns at once; in both cases it *)
(* writes nothing and answers nobody.                                      *)
(***************************************************************************)
EXTENDS Integers, Sequences, FiniteSets

CONSTANTS
  Reqs,         \* goroutines that call do, once each
  Pingers,      \* goroutines that call isValid
  Mixes,        \* who calls: some requests and pingers, which requests have a body,
                \* which have a context that asks for the upgrade, whether the
                \* connection was dialled with h2cUpgrade, and maxPingRetryTimes; and
                \* bounds: how many SETTINGS frames the server sends, and whether PINGs
  Limits,       \* values of SETTINGS_MAX_CONCURRENT_STREAMS
  DefaultLimit, \* maxConcurrentStreams before any SETTINGS
  MaxKeys       \* bound: the number of calls of isValid

ASSUME ClientConnAssumption ==
  /\ Cardinality(Reqs) \in Nat \* Reqs is finite: its members can be numbered
  /\ \E f \in [Reqs -> 1 .. Cardinality(Reqs)] : \A r, q \in Reqs : f[r] = f[q] => r = q
  /\ \A m \in Mixes :
       /\ m.bodies \cup m.upgraded \subseteq m.callers \cap Reqs /\ m.h2c \in BOOLEAN
       /\ m.settings \in Nat /\ m.tries \in Nat /\ (m.tries = 0 => m.callers \cap Pingers = {})
  /\ Reqs \cap Pingers = {}
  /\ Limits \subseteq Nat
  /\ DefaultLimit \in Nat
  /\ MaxKeys \in Nat

VARIABLES
  conn,         \* what dialContext, the reader and Close share, see Init
  queue,        \* the serializer's callbacks, the one being executed first
  job,          \* where that callback is, and the result it hands over
  reader,       \* where the reader goroutine is
  streamIdGen,
  clientStreams,  \* the ids of the streams in the map
  doneCh,       \* the ids of the streams whose doneCh is closed
  hpack,        \* has the decoder seen every header block so far?
  ctx,          \* the requests and pingers whose context is done
  pc,           \* where each request is in do
  own,          \* the id of each request's stream, 0 while it has none
  result,       \* what do returned
  wire,         \* history: HEADERS and DATA frames written, in order
  ended,        \* history: the ids of the streams the server has ended
  early,        \* history: those it ended before startNewClientStream stored them
  ping,         \* where each pinger is in isValid, with its key and its tries
  pingRequests, \* the keys that wait for an acknowledgement
  nextRequest,
  answered,     \* the pingers whose channel holds an acknowledgement
  pings         \* how many pings with each key the server has not acknowledged

serVars == <<queue, job>>
streamVars == <<streamIdGen, clientStreams, doneCh, hpack>>
reqVars == <<pc, own, result>>
wireVars == <<wire, ended, early>>
pingVars == <<ping, pingRequests, nextRequest, answered, pings>>
vars == <<conn, serVars, reader, streamVars, ctx, reqVars, wireVars, pingVars>>

Bodies == conn.mix.bodies
Upgraded == conn.mix.upgraded \* UpgradeFromContext, whatever the connection is
H2c == conn.mix.h2c
MaxTries == conn.mix.tries
MaxSettings == conn.mix.settings

Ids == {2 * i - 1 : i \in 1 .. Cardinality(Reqs) + 1}
Keys == 0 .. MaxKeys - 1

\* No callback has started, or the last one has ended.
NoJob == [at |-> "start", id |-> 0, err |-> FALSE]

\* A pinger that is not in isValid.
NoPing == [at |-> "idle", key |-> 0, tries |-> 0]

\* dialContext up to the select: the h2c upgrade has its stream, the reader runs.
Init ==
  /\ \E m \in Mixes :
     conn = [mix |-> m,                \* who calls on this connection, never changed
             dial |-> "wait",          \* dialContext: wait, ok or failed
             acked |-> FALSE,          \* is settingsAcked closed?
             settings |-> 0,           \* how many SETTINGS frames were read
             ackread |-> FALSE,        \* was the server's acknowledgement read?
             limit |-> DefaultLimit,   \* maxConcurrentStreams
             sem |-> 0,                \* the capacity of maxConcurrentSemaphore
             closed |-> FALSE,
             cancelled |-> FALSE,      \* is the connection's context cancelled?
             net |-> "up",             \* the TCP connection: up, eof, reset or closed
             panicked |-> FALSE]       \* a send on the closed settingsAcked: the program has ended
  /\ queue = << >>
  /\ job = NoJob
  /\ reader = "loop"
  /\ streamIdGen = IF H2c THEN 2 ELSE 0
  /\ clientStreams = IF H2c THEN {1} ELSE {}
  /\ doneCh = {}
  /\ hpack = TRUE
  /\ ctx = {}
  /\ pc = [r \in Reqs |-> "idle"]
  /\ own = [r \in Reqs |-> 0]
  /\ result = [r \in Reqs |-> "none"]
  /\ wire = << >>
  /\ ended = {}
  /\ early = {}
  /\ ping = [p \in Pingers |-> NoPing]
  /\ pingRequests = {}
  /\ nextRequest = 0
  /\ answered = {}
  /\ pings = [k \in Keys |-> 0]

\* The requests between the acquisition of the semaphore and its release.
InFlight == {r \in Reqs : pc[r] \in {"sched", "stream", "bodysched", "body", "resp"}}

\* Close: nothing the second time.
Closed == IF conn.closed THEN conn
          ELSE [conn EXCEPT !.closed = TRUE, !.cancelled = TRUE, !.net = "closed"]

\* TrySchedule, the callback named by what it does and whom it answers.
TrySchedule(op, who) ==
  queue' = IF conn.cancelled THEN queue ELSE Append(queue, [op |-> op, who |-> who])

-----------------------------------------------------------------------------
(* dialContext's select, Close, and what happens outside *)

\* settingsAcked is closed, or the reader is sending on it.
DialOk ==
  /\ conn.dial = "wait"
  /\ \/ conn.acked /\ UNCHANGED reader
     \/ reader = "sendacked" /\ reader' = "sendack"
  /\ conn' = [conn EXCEPT !.dial = "ok", !.sem = conn.limit]
  /\ UNCHANGED <<serVars, streamVars, ctx, reqVars, wireVars, pingVars>>

DialTimeout ==
  /\ conn.dial = "wait"
  /\ conn' = [Closed EXCEPT !.dial = "failed"]
  /\ UNCHANGED <<serVars, reader, streamVars, ctx, reqVars, wireVars, pingVars>>

\* The caller's context or the connection's is done; the connection stays open.
DialDone ==
  /\ conn.dial = "wait"
  /\ conn' = [conn EXCEPT !.dial = "failed"]
  /\ UNCHANGED <<serVars, reader, streamVars, ctx, reqVars, wireVars, pingVars>>

Close ==
  /\ conn.dial = "ok"
  /\ conn' = Closed
  /\ UNCHANGED <<serVars, reader, streamVars, ctx, reqVars, wireVars, pingVars>>

\* The peer closes the TCP connection, or it breaks.
Lose ==
  /\ conn.net = "up"
  /\ \E n \in {"eof", "reset"} : conn' = [conn EXCEPT !.net = n]
  /\ UNCHANGED <<serVars, reader, streamVars, ctx, reqVars, wireVars, pingVars>>

\* The context of a call of do or isValid ends.
CtxDone(p) ==
  /\ p \notin ctx
  /\ IF p \in Reqs THEN pc[p] \notin {"idle", "ret"} ELSE ping[p].at # "idle"
  /\ ctx' = ctx \cup {p}
  /\ UNCHANGED <<conn, serVars, reader, streamVars, reqVars, wireVars, pingVars>>

-----------------------------------------------------------------------------
(* do *)

\* do returns; the deferred calls delete the stream and release the semaphore.
Return(r, res) ==
  /\ pc' = [pc EXCEPT ![r] = "ret"]
  /\ result' = [result EXCEPT ![r] = res]
  /\ clientStreams' = clientStreams \ {own[r]}

\* The connection is closed, or the request is not valid.
Refuse(r) ==
  /\ conn.dial = "ok" /\ pc[r] = "idle"
  /\ Return(r, "err")
  /\ UNCHANGED <<conn, serVars, reader, streamIdGen, doneCh, hpack, ctx, own, wireVars, pingVars>>

Do(r) ==
  /\ conn.dial = "ok" /\ pc[r] = "idle"
  /\ ~ conn.closed
  /\ pc' = [pc EXCEPT ![r] = "sem"]
  /\ UNCHANGED <<conn, serVars, reader, streamVars, ctx, own, result, wireVars, pingVars>>

\* The semaphore.  A request whose context asks for the upgrade takes stream 1 out of
\* the map, whosever it is; another one will write.
Acquire(r) ==
  /\ pc[r] = "sem"
  /\ Cardinality(InFlight) < conn.sem
  /\ \/ /\ r \notin Upgraded
        /\ pc' = [pc EXCEPT ![r] = "sched"]
        /\ UNCHANGED <<clientStreams, own, result>>
     \/ /\ r \in Upgraded /\ 1 \in clientStreams
        /\ pc' = [pc EXCEPT ![r] = "resp"]
        /\ own' = [own EXCEPT ![r] = 1]
        /\ UNCHANGED <<clientStreams, result>>
     \/ /\ r \in Upgraded /\ 1 \notin clientStreams
        /\ Return(r, "err")
        /\ UNCHANGED own
  /\ UNCHANGED <<conn, serVars, reader, streamIdGen, doneCh, hpack, ctx, wireVars, pingVars>>

\* createHeaderFields fails, or writeBody cannot read the body it is to send.
BuildFails(r) ==
  /\ pc[r] \in {"sched", "bodysched"}
  /\ Return(r, "err")
  /\ UNCHANGED <<conn, serVars, reader, streamIdGen, doneCh, hpack, ctx, own, wireVars, pingVars>>

\* writeHeaders and writeBody schedule their callback and wait for its answer.
Schedule(r) ==
  /\ \/ pc[r] = "sched" /\ TrySchedule("headers", r) /\ pc' = [pc EXCEPT ![r] = "stream"]
     \/ pc[r] = "bodysched" /\ TrySchedule("body", r) /\ pc' = [pc EXCEPT ![r] = "body"]
  /\ UNCHANGED <<conn, job, reader, streamVars, ctx, own, result, wireVars, pingVars>>

\* Mutants of ReturnCtx: the stream is not deleted; writeHeaders does not look at
\* the context.
ReturnCtxKept(r) ==
  /\ pc[r] \in {"sem", "stream", "resp"}
  /\ r \in ctx
  /\ pc' = [pc EXCEPT ![r] = "ret"]
  /\ result' = [result EXCEPT ![r] = "ctx"]
  /\ UNCHANGED <<conn, serVars, reader, streamVars, ctx, own, wireVars, pingVars>>

ReturnCtxLate(r) ==
  /\ pc[r] \in {"sem", "resp"}
  /\ r \in ctx
  /\ Return(r, "ctx")
  /\ UNCHANGED <<conn, serVars, reader, streamIdGen, doneCh, hpack, ctx, own, wireVars, pingVars>>

\* The selects on the semaphore, on clientStreamCh and on doneCh see the context;
\* writeBody waits for its callback without looking at it.
ReturnCtx(r) ==
  /\ pc[r] \in {"sem", "stream", "resp"}
  /\ r \in ctx
  /\ Return(r, "ctx")
  /\ UNCHANGED <<conn, serVars, reader, streamIdGen, doneCh, hpack, ctx, own, wireVars, pingVars>>

ReturnResponse(r) ==
  /\ pc[r] = "resp"
  /\ own[r] \in doneCh
  /\ Return(r, "resp")
  /\ UNCHANGED <<conn, serVars, reader, streamIdGen, doneCh, hpack, ctx, own, wireVars, pingVars>>

-----------------------------------------------------------------------------
(* The serializer *)

\* A write fails on a connection that was closed, and may fail on a broken one.
Write == IF conn.net = "up" THEN {"ok"} ELSE IF conn.net = "closed" THEN {"fails"} ELSE {"ok", "fails"}

\* A callback starts: the connection's context is not done, and for a body its caller's
\* is not either.  Both may be by the time it writes.
RunCheck ==
  /\ queue # << >> /\ job.at = "start" /\ ~ conn.cancelled
  /\ job' = IF Head(queue).op = "body" /\ Head(queue).who \in ctx
              THEN [at |-> "send", id |-> 0, err |-> TRUE]
              ELSE [job EXCEPT !.at = "run"]
  /\ UNCHANGED <<conn, queue, reader, streamVars, ctx, reqVars, wireVars, pingVars>>

Running(op) == queue # << >> /\ job.at = "run" /\ Head(queue).op = op

\* A callback that starts after the context was cancelled returns, answering nobody.
RunCancelled ==
  /\ queue # << >> /\ job.at = "start" /\ conn.cancelled
  /\ queue' = Tail(queue)
  /\ UNCHANGED <<conn, job, reader, streamVars, ctx, reqVars, wireVars, pingVars>>

\* Mutant of RunHeaders: an id that is used again.
RunHeadersAgain ==
  /\ Running("headers")
  /\ "ok" \in Write
  /\ wire' = Append(wire, [type |-> "HEADERS", id |-> 1, req |-> Head(queue).who,
                          end |-> Head(queue).who \notin Bodies])
  /\ job' = [at |-> "store", id |-> 1, err |-> FALSE]
  /\ UNCHANGED <<conn, queue, reader, streamIdGen, clientStreams, doneCh, hpack, ctx, reqVars, ended, early,
                 pingVars>>

\* startNewClientStream up to its frame: the next id, HEADERS.
RunHeaders ==
  /\ Running("headers")
  /\ streamIdGen' = streamIdGen + 2
  /\ LET id == streamIdGen + 1
         r == Head(queue).who
     IN  \/ /\ "ok" \in Write
            /\ wire' = Append(wire, [type |-> "HEADERS", id |-> id, req |-> r, end |-> r \notin Bodies])
            /\ job' = [at |-> "store", id |-> id, err |-> FALSE]
         \/ /\ "fails" \in Write
            /\ job' = [at |-> "send", id |-> 0, err |-> TRUE]
            /\ UNCHANGED wire
  /\ UNCHANGED <<conn, queue, reader, clientStreams, doneCh, hpack, ctx, reqVars, ended, early, pingVars>>

\* startNewClientStream puts the stream into the map.
RunStore ==
  /\ job.at = "store"
  /\ clientStreams' = clientStreams \cup {job.id}
  /\ job' = [job EXCEPT !.at = "send"]
  /\ UNCHANGED <<conn, queue, reader, streamIdGen, doneCh, hpack, ctx, reqVars, wireVars, pingVars>>

\* WriteData in the callback of writeBody.
RunBody ==
  /\ Running("body")
  /\ LET r == Head(queue).who
     IN  \/ /\ "ok" \in Write
            /\ wire' = Append(wire, [type |-> "DATA", id |-> own[r], req |-> r, end |-> TRUE])
            /\ job' = [at |-> "send", id |-> 0, err |-> FALSE]
         \/ /\ "fails" \in Write
            /\ job' = [at |-> "send", id |-> 0, err |-> TRUE]
            /\ UNCHANGED wire
  /\ UNCHANGED <<conn, queue, reader, streamVars, ctx, reqVars, ended, early, pingVars>>

\* The callbacks of sendPing and of processSettingsFrame.
RunPing ==
  /\ Running("ping")
  /\ \/ /\ "ok" \in Write
        /\ pings' = [pings EXCEPT ![ping[Head(queue).who].key] = @ + 1]
        /\ job' = [at |-> "send", id |-> 0, err |-> FALSE]
     \/ /\ "fails" \in Write
        /\ job' = [at |-> "send", id |-> 0, err |-> TRUE]
        /\ UNCHANGED pings
  /\ UNCHANGED <<conn, queue, reader, streamVars, ctx, reqVars, wireVars, ping, pingRequests,
                 nextRequest, answered>>

RunAck ==
  /\ Running("ack")
  /\ \E w \in Write : job' = [at |-> "send", id |-> 0, err |-> w = "fails"]
  /\ UNCHANGED <<conn, queue, reader, streamVars, ctx, reqVars, wireVars, pingVars>>

\* The callback has handed its result over and the next one may start.
EndJob ==
  /\ queue' = Tail(queue)
  /\ job' = NoJob

Sending(op) == queue # << >> /\ job.at = "send" /\ Head(queue).op = op

\* clientStreamCh: writeHeaders takes the stream, and do goes on to the body.
TakeStream(r) ==
  /\ Sending("headers") /\ Head(queue).who = r
  /\ pc[r] = "stream"
  /\ EndJob
  /\ IF job.err
       THEN Return(r, "err") /\ UNCHANGED own
       ELSE /\ own' = [own EXCEPT ![r] = job.id]
            /\ pc' = [pc EXCEPT ![r] = IF r \in Bodies THEN "bodysched" ELSE "resp"]
            /\ UNCHANGED <<result, clientStreams>>
  /\ UNCHANGED <<conn, reader, streamIdGen, doneCh, hpack, ctx, wireVars, pingVars>>

\* errCh of writeBody.
TakeBody(r) ==
  /\ Sending("body") /\ Head(queue).who = r
  /\ EndJob
  /\ IF job.err
       THEN Return(r, "err")
       ELSE pc' = [pc EXCEPT ![r] = "resp"] /\ UNCHANGED <<result, clientStreams>>
  /\ UNCHANGED <<conn, reader, streamIdGen, doneCh, hpack, ctx, own, wireVars, pingVars>>

\* errCh of the reader's own frames; an error is logged.
TakeAck ==
  /\ Sending("ack")
  /\ EndJob
  /\ reader' = "loop"
  /\ UNCHANGED <<conn, streamVars, ctx, reqVars, wireVars, pingVars>>

-----------------------------------------------------------------------------
(* isValid *)

At(p, label) == ping' = [ping EXCEPT ![p].at = label]

\* The call takes a key; the first one in the map sends pings, others only wait.
IsValid(p) ==
  /\ conn.dial = "ok" /\ ping[p].at = "idle"
  /\ ~ conn.closed
  /\ nextRequest < MaxKeys
  /\ nextRequest' = nextRequest + 1
  /\ pingRequests' = pingRequests \cup {nextRequest}
  /\ ping' = [ping EXCEPT ![p] = [at |-> IF pingRequests = {} THEN "send" ELSE "follow",
                                  key |-> nextRequest, tries |-> 0]]
  /\ UNCHANGED <<conn, serVars, reader, streamVars, ctx, reqVars, wireVars, answered, pings>>

SendPing(p) ==
  /\ ping[p].at = "send"
  /\ TrySchedule("ping", p)
  /\ ping' = [ping EXCEPT ![p].at = "sent", ![p].tries = @ + 1]
  /\ UNCHANGED <<conn, job, reader, streamVars, ctx, reqVars, wireVars, pingRequests, nextRequest,
                 answered, pings>>

\* errCh of sendPing, awaited whatever happens to the context.
TakePing(p) ==
  /\ Sending("ping") /\ Head(queue).who = p
  /\ EndJob
  /\ At(p, IF job.err THEN "delete" ELSE "wait")
  /\ UNCHANGED <<conn, reader, streamVars, ctx, reqVars, wireVars, pingRequests, nextRequest,
                 answered, pings>>

\* The acknowledgement is there: valid.
Valid(p) ==
  /\ ping[p].at \in {"wait", "follow"}
  /\ p \in answered
  /\ ping' = [ping EXCEPT ![p] = NoPing]
  /\ answered' = answered \ {p}
  /\ ctx' = ctx \ {p}
  /\ UNCHANGED <<conn, serVars, reader, streamVars, reqVars, wireVars, pingRequests, nextRequest, pings>>

\* The timer of a leader: it sends again, or gives up after the last try.
PingTimeout(p) ==
  /\ ping[p].at = "wait"
  /\ At(p, IF ping[p].tries < MaxTries THEN "send" ELSE "delete")
  /\ UNCHANGED <<conn, serVars, reader, streamVars, ctx, reqVars, wireVars, pingRequests,
                 nextRequest, answered, pings>>

\* The context ends, which for a follower is at the latest its own timer.
PingCtx(p) ==
  /\ ping[p].at \in {"wait", "follow"}
  /\ p \in ctx
  /\ At(p, "delete")
  /\ UNCHANGED <<conn, serVars, reader, streamVars, ctx, reqVars, wireVars, pingRequests,
                 nextRequest, answered, pings>>

\* Mutant of Invalid: the key stays in the map.
InvalidKept(p) ==
  /\ ping[p].at = "delete"
  /\ ping' = [ping EXCEPT ![p] = NoPing]
  /\ answered' = answered \ {p}
  /\ ctx' = ctx \ {p}
  /\ UNCHANGED <<conn, serVars, reader, streamVars, reqVars, wireVars, pingRequests, nextRequest, pings>>

\* The key is deleted and isValid returns false; its channel is garbage.
Invalid(p) ==
  /\ ping[p].at = "delete"
  /\ pingRequests' = pingRequests \ {ping[p].key}
  /\ ping' = [ping EXCEPT ![p] = NoPing]
  /\ answered' = answered \ {p}
  /\ ctx' = ctx \ {p}
  /\ UNCHANGED <<conn, serVars, reader, streamVars, reqVars, wireVars, nextRequest, pings>>

-----------------------------------------------------------------------------
(* The reader *)

\* The tests at the head of readLoop and readFrame.
ReadLoop ==
  /\ reader = "loop"
  /\ reader' = IF conn.closed \/ conn.cancelled THEN "exit" ELSE "read"
  /\ UNCHANGED <<conn, serVars, streamVars, ctx, reqVars, wireVars, pingVars>>

\* ReadFrame fails: at the end of the input the context is cancelled and the loop
\* left, after any other error it goes on.
ReadError ==
  /\ reader = "read"
  /\ \/ conn.net = "eof" /\ reader' = "exit" /\ conn' = [conn EXCEPT !.cancelled = TRUE]
     \/ conn.net \in {"reset", "closed"} /\ reader' = "loop" /\ UNCHANGED conn
  /\ UNCHANGED <<serVars, streamVars, ctx, reqVars, wireVars, pingVars>>

\* A frame of the server; its SETTINGS come first.
FrameRead == reader = "read" /\ conn.net = "up" /\ conn.settings > 0

\* The server may send frames of a stream from its HEADERS on until it ends it.
Answering(id) ==
  /\ FrameRead
  /\ id \notin ended
  /\ \/ id = 1 /\ H2c
     \/ \E i \in 1 .. Len(wire) : wire[i].id = id

\* The reader has read a frame of stream id; with last it is the stream's end.
Take(id, last) ==
  /\ reader' = "loop"
  /\ ended' = IF last THEN ended \cup {id} ELSE ended
  /\ early' = IF last /\ job.at = "store" /\ job.id = id THEN early \cup {id} ELSE early

\* Mutant of Deliver: END_STREAM is only looked at for a request that waits.
DeliverToWaiting(id, last) ==
  /\ Take(id, last)
  /\ doneCh' = IF last /\ \E r \in Reqs : own[r] = id /\ pc[r] = "resp" THEN doneCh \cup {id} ELSE doneCh

\* It handles the frame: the end of a stream that is in the map closes its doneCh.
Deliver(id, last) ==
  /\ Take(id, last)
  /\ doneCh' = IF last /\ id \in clientStreams THEN doneCh \cup {id} ELSE doneCh

\* processDataFrame and processRSTStreamFrame.
ReadData(id) ==
  /\ Answering(id)
  /\ \E last \in BOOLEAN : Deliver(id, last)
  /\ UNCHANGED <<conn, serVars, streamIdGen, clientStreams, hpack, ctx, reqVars, wire, pingVars>>

ReadReset(id) ==
  /\ Answering(id)
  /\ Deliver(id, TRUE)
  /\ UNCHANGED <<conn, serVars, streamIdGen, clientStreams, hpack, ctx, reqVars, wire, pingVars>>

\* processHeaderFrame: the header block of an unknown stream is not decoded, and a
\* decoder that has missed a block may fail on the next, which drops the frame.
ReadHeaders(id) ==
  /\ Answering(id)
  /\ hpack' = (hpack /\ id \in clientStreams)
  /\ \E last \in BOOLEAN :
       \/ Deliver(id, last)
       \/ /\ ~ hpack
          /\ Take(id, last)
          /\ UNCHANGED doneCh
  /\ UNCHANGED <<conn, serVars, streamIdGen, clientStreams, ctx, reqVars, wire, pingVars>>

\* The server's SETTINGS come first; with a stream limit the reader stores it and
\* sends on settingsAcked, which panics once that channel is closed and blocks the
\* reader for good once dialContext has left its select.
ReadSettings ==
  /\ reader = "read" /\ conn.net = "up"
  /\ conn.settings < MaxSettings
  /\ \/ /\ \E l \in Limits :
             conn' = [conn EXCEPT !.settings = @ + 1, !.limit = l, !.panicked = conn.acked]
        /\ reader' = "sendacked"
     \/ /\ conn' = [conn EXCEPT !.settings = @ + 1]
        /\ reader' = "sendack"
  /\ UNCHANGED <<serVars, streamVars, ctx, reqVars, wireVars, pingVars>>

\* The server acknowledges the client's SETTINGS: settingsAcked is closed.
ReadSettingsAck ==
  /\ FrameRead
  /\ ~ conn.ackread /\ ~ H2c
  /\ conn' = [conn EXCEPT !.ackread = TRUE, !.acked = TRUE, !.panicked = conn.acked]
  /\ reader' = "loop"
  /\ UNCHANGED <<serVars, streamVars, ctx, reqVars, wireVars, pingVars>>

\* A PING of the server.
ReadPing ==
  /\ FrameRead /\ conn.mix.pinged
  /\ reader' = "sendack"
  /\ UNCHANGED <<conn, serVars, streamVars, ctx, reqVars, wireVars, pingVars>>

\* The reader schedules the acknowledgement of SETTINGS or PING and waits for it.
SendAck ==
  /\ reader = "sendack"
  /\ TrySchedule("ack", "reader")
  /\ reader' = "waitack"
  /\ UNCHANGED <<conn, job, streamVars, ctx, reqVars, wireVars, pingVars>>

\* putPingAckLocked: every call with this key or a later one is answered.
ReadPingAck(k) ==
  /\ FrameRead
  /\ pings[k] > 0
  /\ pings' = [pings EXCEPT ![k] = @ - 1]
  /\ IF conn.closed
       THEN UNCHANGED <<pingRequests, answered>>
       ELSE /\ pingRequests' = {q \in pingRequests : q < k}
            /\ answered' = answered \cup {p \in Pingers : ping[p].at # "idle"
                              /\ ping[p].key \in pingRequests /\ ping[p].key >= k}
  /\ reader' = "loop"
  /\ UNCHANGED <<conn, serVars, streamVars, ctx, reqVars, wireVars, ping, nextRequest>>

\* processGoAwayFrame finishes every stream in the map, then closes.
ReadGoAway ==
  /\ FrameRead
  /\ doneCh' = doneCh \cup clientStreams
  /\ clientStreams' = {}
  /\ reader' = "goaway"
  /\ UNCHANGED <<conn, serVars, streamIdGen, hpack, ctx, reqVars, wireVars, pingVars>>

GoAwayClose ==
  /\ reader = "goaway"
  /\ conn' = Closed
  /\ reader' = "loop"
  /\ UNCHANGED <<serVars, streamVars, ctx, reqVars, wireVars, pingVars>>

-----------------------------------------------------------------------------
ReqStep(r) ==
  \/ Acquire(r) \/ BuildFails(r) \/ Schedule(r) \/ ReturnCtx(r) \/ ReturnResponse(r)

SerializerStep ==
  \/ RunCancelled \/ RunCheck \/ RunHeaders \/ RunStore \/ RunBody \/ RunPing \/ RunAck
  \/ \E r \in Reqs : TakeStream(r) \/ TakeBody(r)
  \/ \E p \in Pingers : TakePing(p)
  \/ TakeAck

PingStep(p) == SendPing(p) \/ Valid(p) \/ PingTimeout(p) \/ PingCtx(p) \/ Invalid(p)

ReaderStep == ReadLoop \/ ReadError \/ SendAck \/ GoAwayClose

ServerFrame ==
  \/ \E id \in Ids : ReadData(id) \/ ReadReset(id) \/ ReadHeaders(id)
  \/ ReadSettings \/ ReadSettingsAck \/ ReadPing \/ ReadGoAway
  \/ \E k \in Keys : ReadPingAck(k)

Step ==
  \/ DialOk \/ DialTimeout \/ DialDone \/ Close \/ Lose
  \/ \E p \in Reqs \cup Pingers : CtxDone(p)
  \/ \E r \in Reqs \cap conn.mix.callers : Refuse(r) \/ Do(r)
  \/ \E r \in Reqs : ReqStep(r)
  \/ \E p \in Pingers \cap conn.mix.callers : IsValid(p)
  \/ \E p \in Pingers : PingStep(p)
  \/ SerializerStep
  \/ ReaderStep
  \/ ServerFrame

\* A goroutine that panics ends the program.
Alive(A) == ~ conn.panicked /\ A

Next == Alive(Step)

Spec == Init /\ [][Next]_vars

\* Every goroutine inside a call keeps running and timers fire; nothing is asked
\* of the server, of those who call, or of contexts.
Fairness ==
  /\ \A r \in Reqs : WF_vars(Alive(ReqStep(r)))
  /\ \A p \in Pingers : WF_vars(Alive(PingStep(p)))
  /\ WF_vars(Alive(SerializerStep))
  /\ WF_vars(Alive(ReaderStep))

FairSpec == Spec /\ Fairness

-----------------------------------------------------------------------------
(* Properties *)

Headers == {i \in 1 .. Len(wire) : wire[i].type = "HEADERS"}

\* The request the server takes a stream to be; stream 1 of a connection dialled with
\* h2cUpgrade is the request that went out in HTTP/1.1.
Asker(id) == IF id = 1 /\ H2c THEN Upgraded
             ELSE {wire[i].req : i \in {j \in Headers : wire[j].id = id}}

TypeOK ==
  /\ conn \in [mix : Mixes, dial : {"wait", "ok", "failed"}, acked : BOOLEAN, settings : Nat,
               ackread : BOOLEAN, limit : Limits \cup {DefaultLimit}, sem : Limits \cup {DefaultLimit, 0},
               closed : BOOLEAN, cancelled : BOOLEAN, net : {"up", "eof", "reset", "closed"}, panicked : BOOLEAN]
  /\ queue \in Seq([op : {"headers", "body", "ping", "ack"}, who : Reqs \cup Pingers \cup {"reader"}])
  /\ job \in [at : {"start", "run", "store", "send"}, id : Ids \cup {0}, err : BOOLEAN]
  /\ reader \in {"loop", "read", "sendacked", "sendack", "waitack", "goaway", "exit"}
  /\ streamIdGen \in {2 * i : i \in 0 .. Cardinality(Reqs) + 1}
  /\ clientStreams \subseteq Ids /\ doneCh \subseteq Ids
  /\ hpack \in BOOLEAN
  /\ ctx \subseteq Reqs \cup Pingers
  /\ pc \in [Reqs -> {"idle", "sem", "sched", "stream", "bodysched", "body", "resp", "ret"}]
  /\ own \in [Reqs -> Ids \cup {0}]
  /\ result \in [Reqs -> {"none", "resp", "ctx", "err"}]
  /\ wire \in Seq([type : {"HEADERS", "DATA"}, id : Ids, req : Reqs, end : BOOLEAN])
  /\ early \subseteq ended /\ ended \subseteq Ids
  /\ ping \in [Pingers -> [at : {"idle", "send", "sent", "wait", "follow", "delete"},
                           key : Keys \cup {0}, tries : 0 .. MaxTries]]
  /\ pingRequests \subseteq Keys
  /\ nextRequest \in 0 .. MaxKeys
  /\ answered \subseteq Pingers
  /\ pings \in [Keys -> 0 .. MaxTries]

\* What HTTP/2 asks of the frames a client writes, whatever requests run at the
\* same time: the ids of new streams increase, the body of a stream follows its
\* HEADERS, and nothing follows END_STREAM.
WireProtocol ==
  \A i, j \in 1 .. Len(wire) : i < j =>
    /\ wire[j].type = "HEADERS" => wire[i].id < wire[j].id
    /\ wire[i].id = wire[j].id => ~ wire[i].end
    /\ wire[j].type = "DATA" => \E h \in Headers : h < j /\ wire[h].id = wire[j].id

\* Another call of do has, or has had, the same stream.
SharedStream(r) == own[r] # 0 /\ \E q \in Reqs \ {r} : own[q] = own[r]

\* Whose response do returns.  A response comes only when the server has ended the
\* stream or the connection goes away.  A request whose context does not ask for the
\* upgrade gets the response to what it wrote itself; one that asks gets stream 1's,
\* which is its own when the connection was upgraded and nobody else asks, and may be
\* another request's otherwise.  And do gets the response: once
\* the reader has seen the end of the stream, a request that waits finds doneCh closed,
\* unless the end came between WriteHeaders and the Store of the stream, or to a decoder
\* that has missed a block, or the stream was shared and its other request, on leaving
\* do, deleted it.
OwnResponse ==
  \A r \in Reqs :
    /\ result[r] = "resp" =>
         /\ own[r] \in ended \/ reader = "goaway" \/ conn.closed
         /\ r \notin Upgraded \/ (H2c /\ Upgraded = {r}) => Asker(own[r]) = {r}
         /\ r \in Upgraded => own[r] = 1
    /\ pc[r] = "resp" /\ own[r] \in ended =>
         \/ own[r] \in doneCh \cup early
         \/ ~ hpack
         \/ SharedStream(r)

\* A stream in the map belongs to a request that is still in do, or to the
\* callback that is handing it over: do leaves none behind when it returns.
StreamsOwned ==
  \A id \in clientStreams :
    \/ \E r \in InFlight : own[r] = id
    \/ job.id = id
    \/ id = 1 /\ H2c

\* The table of pings and its users agree: a key in it belongs to exactly one call
\* that still waits, and that call has not been answered; so an acknowledgement
\* never blocks the reader on a full channel and never closes one twice.
PingTable ==
  \A k \in pingRequests :
    \E p \in Pingers :
      /\ ping[p].key = k /\ ping[p].at # "idle" /\ p \notin answered
      /\ \A q \in Pingers : ping[q].key = k /\ ping[q].at # "idle" => q = p

\* A server that sends one SETTINGS frame and acknowledges the client's does not make
\* the reader send on a closed settingsAcked, or close it twice, in whichever order its
\* frames come.  A second SETTINGS frame with a stream limit may.
NoPanic == conn.panicked => conn.settings > 1

\* No stream outlives its request, and no channel is used against its state:
\* settingsAcked is closed once, and a ping's channel gets one acknowledgement.
NothingLeftOver == TypeOK /\ StreamsOwned /\ NoPanic /\ PingTable

\* A call of do whose context ends returns, if it has no body to write and the program
\* has not panicked on settingsAcked.
ReturnsWithContext == \A r \in Reqs : r \in ctx /\ r \notin Bodies ~> pc[r] = "ret" \/ conn.panicked

\* callback_serializer.go: callbacks honour the context when they block and return
\* early when it is cancelled, so a cancelled connection's queue empties.  The
\* callback of writeHeaders hands its stream to a caller that may have left.
CallbacksHonourContext == conn.cancelled ~> queue = << >> \/ conn.panicked
=============================================================================
