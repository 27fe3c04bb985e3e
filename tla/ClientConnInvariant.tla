------------------------- MODULE ClientConnInvariant -------------------------
(***************************************************************************)
(* The inductive invariant of ClientConn, that the steps keep its types,   *)
(* and what each of its conjuncts depends on.  The modules that extend     *)
(* this one go on with the steps one by one.                               *)
(***************************************************************************)
EXTENDS ClientConn, TLAPS

USE SMTT(30), ZenonT(30)

-----------------------------------------------------------------------------
(* The inductive invariant *)

Callback(op, who) == [op |-> op, who |-> who]

\* The callbacks that have not written yet: all, or all but the one being executed.
Unwritten == {"start", "run"}
Pending == {queue[i] : i \in (IF job.at \in Unwritten THEN 1 ELSE 2) .. Len(queue)}

\* Whoever scheduled a callback waits for its answer, or has left do without a stream.
Awaited(c) ==
  /\ c.op = "headers" => c.who \in Reqs \ Upgraded /\ pc[c.who] \in {"stream", "ret"} /\ own[c.who] = 0
  /\ c.op = "body" => c.who \in Bodies /\ pc[c.who] = "body"
  /\ c.op = "ping" => c.who \in Pingers /\ ping[c.who].at = "sent"
  /\ c.op = "ack" => c.who = "reader" /\ reader = "waitack"

QueueInv ==
  /\ \A i \in 1 .. Len(queue) : Awaited(queue[i])
  /\ \A i, j \in 1 .. Len(queue) : queue[i] = queue[j] => i = j

\* Stream id was opened by request r; it has no body yet.
OpenedBy(id, r) == \E i \in 1 .. Len(wire) : wire[i].type = "HEADERS" /\ wire[i].id = id /\ wire[i].req = r
NoBody(id) == \A i \in 1 .. Len(wire) : wire[i].id = id => wire[i].type = "HEADERS"

\* A callback holds a stream only between its HEADERS and the answer to its caller.
JobInv ==
  /\ job.at \in Unwritten => job.id = 0
  /\ job.at # "start" => queue # << >>
  /\ job.at = "store" => job.id # 0
  /\ job.at = "send" /\ Head(queue).op = "headers" /\ ~ job.err => job.id # 0
  /\ job.id # 0 => /\ Head(queue).op = "headers" /\ ~ job.err
                   /\ OpenedBy(job.id, Head(queue).who) /\ NoBody(job.id)

HasStream(r) == pc[r] \in {"bodysched", "body", "resp"}

ReqInv ==
  \A r \in Reqs :
    /\ pc[r] \in {"idle", "sem", "sched", "stream"} => own[r] = 0
    /\ HasStream(r) => own[r] # 0
    /\ pc[r] \in {"bodysched", "body"} => r \in Bodies
    /\ r \in Upgraded => pc[r] \in {"idle", "sem", "resp", "ret"}
    /\ own[r] # 0 => IF r \in Upgraded THEN own[r] = 1 ELSE OpenedBy(own[r], r)
    /\ result[r] = "resp" => own[r] \in doneCh /\ pc[r] = "ret"
    /\ pc[r] = "bodysched" \/ Callback("body", r) \in Pending => NoBody(own[r])

WireInv ==
  /\ H2c => streamIdGen >= 2
  /\ \A i \in 1 .. Len(wire) :
       /\ wire[i].id < streamIdGen /\ (H2c => wire[i].id # 1)
       /\ wire[i].type = "HEADERS" => wire[i].end = (wire[i].req \notin Bodies)
  /\ WireProtocol

\* The requests that may still take an id; there is one of its own for each of them.
Waiting ==
  {r \in Reqs \ Upgraded : pc[r] \in {"idle", "sem", "sched"} \/ Callback("headers", r) \in Pending}
CountInv ==
  \E f \in [Waiting -> Ids] :
    /\ \A r \in Waiting : f[r] > streamIdGen
    /\ \A r, q \in Waiting : f[r] = f[q] => r = q

\* A stream is in the map or its doneCh is closed, from RunStore until its request
\* returns, unless another request has taken it; in the map, the end the server sent is
\* not missed.
Held(r) == own[r] \in clientStreams \cup doneCh \/ SharedStream(r)
StreamInv ==
  /\ \A id \in clientStreams \cup doneCh \cup ended : id < streamIdGen
  /\ \A id \in doneCh : id \in ended \/ reader = "goaway" \/ conn.closed
  /\ \A id \in clientStreams : id \in ended => id \in doneCh \cup early \/ ~ hpack
  /\ job.at = "store" /\ job.id \in ended => job.id \in early
  /\ job.at = "send" /\ job.id # 0 => job.id \in clientStreams \cup doneCh \/ \E q \in Reqs : own[q] = job.id
  /\ \A r \in Reqs : HasStream(r) => Held(r)
  /\ StreamsOwned

\* A key belongs to one call; each try of the call is at most one unanswered ping.
PingOf(p) ==
  /\ ping[p].at # "idle" => ping[p].key \in Keys /\ ping[p].key < nextRequest
                            /\ pings[ping[p].key] <= ping[p].tries
  /\ ping[p].at = "send" => ping[p].tries < MaxTries
  /\ Callback("ping", p) \in Pending => pings[ping[p].key] < ping[p].tries
  /\ p \in answered => ping[p].at # "idle" /\ ping[p].key \notin pingRequests

PingInv ==
  /\ \A p \in Pingers : PingOf(p)
  /\ \A p, q \in Pingers :
       ping[p].at # "idle" /\ ping[q].at # "idle" /\ ping[p].key = ping[q].key => p = q
  /\ \A k \in Keys : k >= nextRequest => pings[k] = 0
  /\ PingTable

IInv == TypeOK /\ QueueInv /\ JobInv /\ ReqInv /\ WireInv /\ CountInv /\ StreamInv /\ PingInv

-----------------------------------------------------------------------------
(* Types *)

ConnType ==
  [mix : Mixes, dial : {"wait", "ok", "failed"}, acked : BOOLEAN, settings : Nat,
   ackread : BOOLEAN, limit : Limits \cup {DefaultLimit}, sem : Limits \cup {DefaultLimit, 0},
   closed : BOOLEAN, cancelled : BOOLEAN, net : {"up", "eof", "reset", "closed"}, panicked : BOOLEAN]
CallbackType == [op : {"headers", "body", "ping", "ack"}, who : Reqs \cup Pingers \cup {"reader"}]
JobType == [at : {"start", "run", "store", "send"}, id : Ids \cup {0}, err : BOOLEAN]
Readers == {"loop", "read", "sendacked", "sendack", "waitack", "goaway", "exit"}
Gens == {2 * i : i \in 0 .. Cardinality(Reqs) + 1}
PcType == [Reqs -> {"idle", "sem", "sched", "stream", "bodysched", "body", "resp", "ret"}]
ResultType == [Reqs -> {"none", "resp", "ctx", "err"}]
FrameType == [type : {"HEADERS", "DATA"}, id : Ids, req : Reqs, end : BOOLEAN]
PingType == [at : {"idle", "send", "sent", "wait", "follow", "delete"}, key : Keys \cup {0}, tries : 0 .. MaxTries]
Flags == BOOLEAN

\* TypeOK with its sets named.
Types ==
  /\ conn \in ConnType /\ queue \in Seq(CallbackType) /\ job \in JobType /\ reader \in Readers
  /\ streamIdGen \in Gens /\ clientStreams \subseteq Ids /\ doneCh \subseteq Ids /\ hpack \in Flags
  /\ ctx \subseteq Reqs \cup Pingers
  /\ pc \in PcType /\ own \in [Reqs -> Ids \cup {0}] /\ result \in ResultType
  /\ wire \in Seq(FrameType) /\ early \subseteq ended /\ ended \subseteq Ids
  /\ ping \in [Pingers -> PingType] /\ pingRequests \subseteq Keys /\ nextRequest \in 0 .. MaxKeys
  /\ answered \subseteq Pingers /\ pings \in [Keys -> 0 .. MaxTries]

LEMMA TypesOK == Types <=> TypeOK
  BY DEF Types, TypeOK, ConnType, CallbackType, JobType, Readers, Gens, PcType, ResultType, FrameType,
     PingType, Flags

LEMMA ReqsFinite == Cardinality(Reqs) \in Nat
  BY ClientConnAssumption

LEMMA IdFacts ==
  /\ \A id \in Ids : id \in Nat /\ id >= 1
  /\ 0 \notin Ids
  /\ \A g \in Gens : g \in Nat /\ (g < 2 * Cardinality(Reqs) + 2 => g + 1 \in Ids /\ g + 2 \in Gens)
<1>1. \A id \in Ids : id \in Nat /\ id >= 1
  BY ReqsFinite DEF Ids
<1>2. ASSUME NEW g \in Gens, g < 2 * Cardinality(Reqs) + 2
      PROVE  g + 1 \in Ids /\ g + 2 \in Gens
  <2>1. PICK i \in 0 .. Cardinality(Reqs) + 1 : g = 2 * i
    BY DEF Gens
  <2>2. i + 1 \in 1 .. Cardinality(Reqs) + 1 /\ g + 1 = 2 * (i + 1) - 1 /\ g + 2 = 2 * (i + 1)
    BY <1>2, <2>1, ReqsFinite
  <2>3. QED
    BY <2>2, ReqsFinite DEF Ids, Gens
<1>3. \A g \in Gens : g \in Nat
  BY ReqsFinite DEF Gens
<1>4. QED
  BY <1>1, <1>2, <1>3

\* Who calls on a connection.
LEMMA MixFacts ==
  ASSUME Types
  PROVE  /\ conn.mix \in Mixes /\ MaxTries \in Nat
         /\ Bodies \subseteq Reqs /\ Upgraded \subseteq Reqs
         /\ \A p \in Pingers \cap conn.mix.callers : MaxTries > 0
<1>1. conn.mix \in Mixes
  BY DEF Types, ConnType
<1>2. QED
  BY <1>1, ClientConnAssumption DEF Bodies, Upgraded, MaxTries

\* The steps that touch only what dialContext, the reader, Close and contexts share.
Quiet ==
  \/ DialOk \/ DialTimeout \/ DialDone \/ Close \/ Lose
  \/ (\E p \in Reqs \cup Pingers : CtxDone(p))
  \/ ReadLoop \/ ReadError \/ GoAwayClose
  \/ ReadSettings \/ ReadSettingsAck \/ ReadPing
  \/ UNCHANGED vars

LEMMA ClosedType == ASSUME Types PROVE Closed \in ConnType /\ Closed.mix = conn.mix /\ Closed.closed
  BY Zenon DEF Types, ConnType, Closed

LEMMA QuietConn ==
  ASSUME Types, Quiet
  PROVE  conn' \in ConnType /\ conn'.mix = conn.mix /\ (conn.closed => conn'.closed)
<1>1. CASE DialOk
  BY <1>1, Zenon DEF Types, ConnType, DialOk
<1>2. CASE DialTimeout
  BY <1>2, ClosedType DEF ConnType, DialTimeout
<1>3. CASE DialDone
  BY <1>3, Zenon DEF Types, ConnType, DialDone
<1>4. CASE Close
  BY <1>4, ClosedType DEF Close
<1>5. CASE Lose
  BY <1>5, Zenon DEF Types, ConnType, Lose
<1>6. CASE ReadError
  BY <1>6, Zenon DEF Types, ConnType, ReadError
<1>7. CASE GoAwayClose
  BY <1>7, ClosedType DEF GoAwayClose
<1>8. CASE ReadSettings
  <2>1. conn.settings + 1 \in Nat
    <3>1. conn.settings \in Nat
      BY DEF Types, ConnType
    <3>2. QED
      BY <3>1
  <2>2. ASSUME NEW l \in Limits,
               conn' = [conn EXCEPT !.settings = @ + 1, !.limit = l, !.panicked = conn.acked]
        PROVE  conn' \in ConnType /\ conn'.mix = conn.mix /\ conn'.closed = conn.closed
    BY <2>1, <2>2, Zenon DEF Types, ConnType
  <2>3. ASSUME conn' = [conn EXCEPT !.settings = @ + 1]
        PROVE  conn' \in ConnType /\ conn'.mix = conn.mix /\ conn'.closed = conn.closed
    BY <2>1, <2>3, Zenon DEF Types, ConnType
  <2>4. QED
    BY <1>8, <2>2, <2>3, Zenon DEF ReadSettings
<1>9. CASE ReadSettingsAck
  BY <1>9, Zenon DEF Types, ConnType, ReadSettingsAck
<1>10. CASE UNCHANGED conn
  BY <1>10 DEF Types
<1>11. QED
  BY <1>1, <1>2, <1>3, <1>4, <1>5, <1>6, <1>7, <1>8, <1>9, <1>10
     DEF Quiet, vars, CtxDone, ReadLoop, ReadPing

LEMMA QuietFrame ==
  ASSUME Types, Quiet
  PROVE  /\ UNCHANGED <<serVars, streamVars, reqVars, wireVars, pingVars>>
         /\ reader' \in Readers /\ ctx' \subseteq Reqs \cup Pingers
         /\ reader = "waitack" => reader' = "waitack"
         /\ reader = "goaway" => reader' = "goaway" \/ conn'.closed
<1>1. UNCHANGED <<serVars, streamVars, reqVars, wireVars, pingVars>>
  BY Zenon DEF Quiet, DialOk, DialTimeout, DialDone, Close, Lose, CtxDone, ReadLoop, ReadError, GoAwayClose,
     ReadSettings, ReadSettingsAck, ReadPing, vars
<1>2. reader' \in Readers /\ (reader = "waitack" => reader' = "waitack")
  BY Zenon DEF Types, Readers, Quiet, DialOk, DialTimeout, DialDone, Close, Lose, CtxDone, ReadLoop, ReadError,
     GoAwayClose, ReadSettings, ReadSettingsAck, ReadPing, FrameRead, vars
<1>3. ctx' \subseteq Reqs \cup Pingers
  BY Zenon DEF Types, Quiet, DialOk, DialTimeout, DialDone, Close, Lose, CtxDone, ReadLoop, ReadError,
     GoAwayClose, ReadSettings, ReadSettingsAck, ReadPing, vars
<1>4. reader = "goaway" => reader' = "goaway" \/ conn'.closed
  BY ClosedType DEF Quiet, DialOk, DialTimeout, DialDone, Close, Lose, CtxDone, ReadLoop, ReadError,
     GoAwayClose, ReadSettings, ReadSettingsAck, ReadPing, FrameRead, vars
<1>5. QED
  BY <1>1, <1>2, <1>3, <1>4

\* Every other step leaves conn alone.
LEMMA Loud ==
  ASSUME [Next]_vars
  PROVE  Quiet \/ UNCHANGED conn
  BY Zenon DEF Next, Alive, Step, Quiet, ReqStep, SerializerStep, PingStep, ReaderStep, ServerFrame, Refuse, Do, Acquire,
     BuildFails, Schedule, ReturnCtx, ReturnResponse, RunCancelled, RunCheck, RunHeaders, RunStore, RunBody, RunPing, RunAck,
     TakeStream, TakeBody, TakePing, TakeAck, IsValid, SendPing, Valid, PingTimeout, PingCtx, Invalid,
     SendAck, ReadData, ReadReset, ReadHeaders, ReadGoAway, ReadPingAck

-----------------------------------------------------------------------------
(* The queue of callbacks, and the wire *)

LEMMA Appended ==
  ASSUME NEW S, NEW q \in Seq(S), NEW e \in S
  PROVE  /\ Append(q, e) \in Seq(S) /\ Len(Append(q, e)) = Len(q) + 1 /\ Len(q) \in Nat
         /\ \A i \in 1 .. Len(q) : Append(q, e)[i] = q[i]
         /\ Append(q, e)[Len(q) + 1] = e
         /\ q # << >> => Append(q, e) # << >> /\ Head(Append(q, e)) = Head(q)
<1>1. Append(q, e) \in Seq(S) /\ Len(Append(q, e)) = Len(q) + 1 /\ Len(q) \in Nat
  OBVIOUS
<1>2. (\A i \in 1 .. Len(q) : Append(q, e)[i] = q[i]) /\ Append(q, e)[Len(q) + 1] = e
  OBVIOUS
<1>3. q # << >> => Append(q, e) # << >> /\ Len(q) >= 1
  BY <1>1
<1>4. q # << >> => Head(Append(q, e)) = Head(q)
  BY <1>1, <1>2, <1>3
<1>5. QED
  BY <1>1, <1>2, <1>3, <1>4

LEMMA QueueAppend ==
  ASSUME queue \in Seq(CallbackType), NEW c \in CallbackType
  PROVE  /\ Append(queue, c) \in Seq(CallbackType) /\ Len(Append(queue, c)) = Len(queue) + 1
         /\ \A i \in 1 .. Len(queue) : Append(queue, c)[i] = queue[i]
         /\ Append(queue, c)[Len(queue) + 1] = c /\ Len(queue) \in Nat
         /\ queue # << >> => Append(queue, c) # << >> /\ Head(Append(queue, c)) = Head(queue)
  BY Appended

LEMMA QueueTail ==
  ASSUME queue \in Seq(CallbackType), queue # << >>
  PROVE  /\ Len(queue) \in Nat /\ Len(queue) >= 1
         /\ Head(queue) = queue[1] /\ Head(queue) \in CallbackType
         /\ Tail(queue) \in Seq(CallbackType) /\ Len(Tail(queue)) = Len(queue) - 1
         /\ \A i \in 1 .. Len(Tail(queue)) : Tail(queue)[i] = queue[i + 1]
<1>1. Len(queue) \in Nat /\ Len(queue) >= 1
  OBVIOUS
<1>2. Head(queue) = queue[1] /\ Head(queue) \in CallbackType
  BY <1>1
<1>3. Tail(queue) \in Seq(CallbackType) /\ Len(Tail(queue)) = Len(queue) - 1
  BY <1>1
<1>4. \A i \in 1 .. Len(Tail(queue)) : Tail(queue)[i] = queue[i + 1]
  BY <1>1, <1>3
<1>5. QED
  BY <1>1, <1>2, <1>3, <1>4

LEMMA WireAppend ==
  ASSUME wire \in Seq(FrameType), NEW f \in FrameType
  PROVE  /\ Append(wire, f) \in Seq(FrameType) /\ Len(Append(wire, f)) = Len(wire) + 1
         /\ \A i \in 1 .. Len(wire) : Append(wire, f)[i] = wire[i]
         /\ Append(wire, f)[Len(wire) + 1] = f /\ Len(wire) \in Nat
  BY Appended

LEMMA WireIndex ==
  ASSUME wire \in Seq(FrameType), NEW f \in FrameType, wire' = Append(wire, f)
  PROVE  \A i \in 1 .. Len(wire') : wire'[i] = f \/ (i \in 1 .. Len(wire) /\ wire'[i] = wire[i])
  BY WireAppend

\* A callback that is scheduled, or that ends, starts none; one that runs leaves Pending.
LEMMA PendingAppend ==
  ASSUME Types, NEW c \in CallbackType, queue' = Append(queue, c), UNCHANGED job
  PROVE  Pending' \subseteq Pending \cup {c}
  BY QueueAppend DEF Types, Pending, Unwritten

LEMMA PendingTail ==
  ASSUME Types, queue # << >>, queue' = Tail(queue), job'.at = "start"
  PROVE  Pending' \subseteq Pending
  BY QueueTail DEF Types, Pending, Unwritten

LEMMA PendingRun ==
  ASSUME Types, QueueInv, queue # << >>, job.at \in Unwritten, UNCHANGED queue, job'.at \notin Unwritten
  PROVE  Head(queue) \in Pending /\ Pending' \subseteq Pending \ {Head(queue)}
<1>1. Head(queue) = queue[1] /\ Len(queue) \in Nat /\ Len(queue) >= 1
  BY QueueTail DEF Types
<1>2. Head(queue) \in Pending
  BY <1>1 DEF Pending
<1>3. \A i \in 2 .. Len(queue) : queue[i] # queue[1]
  BY <1>1 DEF QueueInv
<1>4. QED
  BY <1>1, <1>2, <1>3 DEF Pending

-----------------------------------------------------------------------------
(* Types are kept *)

Labels == {"idle", "sem", "sched", "stream", "bodysched", "body", "resp", "ret"}

\* There is an id for every request that takes one.
LEMMA IdLeft ==
  ASSUME Types, QueueInv, CountInv, Running("headers")
  PROVE  /\ Head(queue).who \in Waiting /\ Head(queue).who \in Reqs
         /\ streamIdGen \in Nat /\ streamIdGen + 1 \in Ids /\ streamIdGen + 2 \in Gens
<1> DEFINE r == Head(queue).who
<1>1. Head(queue) = queue[1] /\ Head(queue) \in CallbackType /\ 1 \in 1 .. Len(queue)
  BY QueueTail DEF Running, Types
<1>2. Head(queue).op = "headers"
  BY DEF Running
<1>3. r \in Reqs \ Upgraded
  BY <1>1, <1>2 DEF QueueInv, Awaited
<1>4. Head(queue) = Callback("headers", r)
  BY <1>1, <1>2 DEF CallbackType, Callback
<1>5. Head(queue) \in Pending
  BY <1>1 DEF Pending, Running, Unwritten
<1>6. r \in Waiting
  BY <1>3, <1>4, <1>5 DEF Waiting
<1>7. PICK id \in Ids : id > streamIdGen
  BY <1>6 DEF CountInv
<1>8. streamIdGen \in Gens /\ streamIdGen \in Nat
  BY IdFacts DEF Types
<1>9. streamIdGen < 2 * Cardinality(Reqs) + 2
  BY <1>7, <1>8, ReqsFinite DEF Ids
<1>10. QED
  BY <1>3, <1>6, <1>8, <1>9, IdFacts

\* The callback at the head of the queue, in terms of its caller.
LEMMA HeadBody ==
  ASSUME Types, QueueInv, queue # << >>, Head(queue).op = "body"
  PROVE  Head(queue).who \in Reqs /\ Head(queue).who \in Bodies /\ pc[Head(queue).who] = "body"
<1>1. Head(queue) = queue[1] /\ 1 \in 1 .. Len(queue)
  BY QueueTail DEF Types
<1>2. QED
  BY <1>1, MixFacts DEF QueueInv, Awaited

LEMMA HeadPing ==
  ASSUME Types, QueueInv, queue # << >>, Head(queue).op = "ping"
  PROVE  Head(queue).who \in Pingers /\ ping[Head(queue).who].at = "sent"
<1>1. Head(queue) = queue[1] /\ 1 \in 1 .. Len(queue)
  BY QueueTail DEF Types
<1>2. QED
  BY <1>1 DEF QueueInv, Awaited

LEMMA NextTypes == IInv /\ [Next]_vars => Types'
<1>SameTypes. ASSUME UNCHANGED conn PROVE MaxTries' = MaxTries /\ PingType' = PingType
  BY <1>SameTypes DEF MaxTries, PingType
<1>ReqTypes. ASSUME Types, NEW r \in Reqs
    PROVE  /\ \A l \in Labels : [pc EXCEPT ![r] = l] \in PcType
           /\ \A x \in {"none", "resp", "ctx", "err"} : [result EXCEPT ![r] = x] \in ResultType
           /\ \A id \in Ids : [own EXCEPT ![r] = id] \in [Reqs -> Ids \cup {0}]
           /\ "ret" \in Labels /\ "sem" \in Labels /\ "sched" \in Labels /\ "resp" \in Labels
           /\ "stream" \in Labels /\ "bodysched" \in Labels /\ "body" \in Labels
  <2> USE <1>ReqTypes
  <2>1. \A l \in Labels : [pc EXCEPT ![r] = l] \in PcType
    BY DEF Types, PcType, Labels
  <2>2. \A x \in {"none", "resp", "ctx", "err"} : [result EXCEPT ![r] = x] \in ResultType
    BY DEF Types, ResultType
  <2>3. \A id \in Ids : [own EXCEPT ![r] = id] \in [Reqs -> Ids \cup {0}]
    BY DEF Types
  <2>4. QED
    BY <2>1, <2>2, <2>3 DEF Labels
<1>ReturnTypes. ASSUME Types, NEW r \in Reqs, NEW x \in {"resp", "ctx", "err"}, Return(r, x)
    PROVE  pc' \in PcType /\ result' \in ResultType /\ clientStreams' \subseteq Ids
  BY <1>ReturnTypes, <1>ReqTypes, Zenon DEF Types, Return
<1>DoTypes. ASSUME Types, NEW r \in Reqs, Refuse(r) \/ Do(r) \/ Acquire(r) \/ BuildFails(r) \/ ReturnCtx(r) \/ ReturnResponse(r)
    PROVE  Types'
  <2> USE <1>DoTypes
  <2>0. PingType' = PingType /\ MaxTries' = MaxTries
    BY <1>SameTypes DEF Refuse, Do, Acquire, BuildFails, ReturnCtx, ReturnResponse
  <2>1. CASE Refuse(r)
    BY <2>0, <2>1, <1>ReturnTypes DEF Refuse, Types, serVars, wireVars, pingVars
  <2>2. CASE Do(r)
    BY <2>0, <2>2, <1>ReqTypes, Zenon DEF Do, Types, serVars, streamVars, wireVars, pingVars
  <2>3. CASE Acquire(r)
    <3>1. pc' \in PcType /\ result' \in ResultType /\ clientStreams' \subseteq Ids
      <4>1. CASE Return(r, "err")
        BY <4>1, <1>ReturnTypes
      <4>2. ASSUME NEW l \in {"sched", "resp"}, pc' = [pc EXCEPT ![r] = l], UNCHANGED <<clientStreams, result>>
            PROVE  pc' \in PcType /\ result' \in ResultType /\ clientStreams' \subseteq Ids
        BY <4>2, <1>ReqTypes, Zenon DEF Types
      <4>3. QED
        BY <2>3, <4>1, <4>2 DEF Acquire
    <3>2. own' \in [Reqs -> Ids \cup {0}]
      BY <2>3, <1>ReqTypes, Zenon DEF Acquire, Types
    <3>3. QED
      BY <2>0, <2>3, <3>1, <3>2 DEF Acquire, Types, serVars, wireVars, pingVars
  <2>4. CASE ReturnCtx(r)
    BY <2>0, <2>4, <1>ReturnTypes DEF ReturnCtx, Types, serVars, wireVars, pingVars
  <2>5. CASE ReturnResponse(r)
    BY <2>0, <2>5, <1>ReturnTypes DEF ReturnResponse, Types, serVars, wireVars, pingVars
  <2>6. CASE BuildFails(r)
    BY <2>0, <2>6, <1>ReturnTypes DEF BuildFails, Types, serVars, wireVars, pingVars
  <2>7. QED
    BY <2>1, <2>2, <2>3, <2>4, <2>5, <2>6
<1>JobTypes. /\ NoJob \in JobType
    /\ \A at \in {"start", "run", "store", "send"}, id \in Ids \cup {0}, err \in BOOLEAN :
    [at |-> at, id |-> id, err |-> err] \in JobType
  BY DEF JobType, NoJob
<1>CallbackTypes. \A op \in {"headers", "body", "ping", "ack"}, who \in Reqs \cup Pingers \cup {"reader"} :
    [op |-> op, who |-> who] \in CallbackType
  BY DEF CallbackType
<1>TryTypes. ASSUME Types, NEW op \in {"headers", "body", "ping", "ack"}, NEW who \in Reqs \cup Pingers \cup {"reader"},
           TrySchedule(op, who)
    PROVE  queue' \in Seq(CallbackType)
  <2> USE <1>TryTypes
  <2>1. [op |-> op, who |-> who] \in CallbackType
    BY <1>CallbackTypes
  <2>2. Append(queue, [op |-> op, who |-> who]) \in Seq(CallbackType)
    BY <2>1, QueueAppend DEF Types
  <2>3. QED
    BY <2>2 DEF TrySchedule, Types
<1>ScheduleTypes. ASSUME Types, NEW r \in Reqs, Schedule(r)
    PROVE  Types'
  <2> USE <1>ScheduleTypes
  <2>0. PingType' = PingType /\ MaxTries' = MaxTries
    BY <1>SameTypes DEF Schedule
  <2>1. queue' \in Seq(CallbackType)
    <3>1. CASE TrySchedule("headers", r)
      BY <3>1, <1>TryTypes
    <3>2. CASE TrySchedule("body", r)
      BY <3>2, <1>TryTypes
    <3>3. QED
      BY <3>1, <3>2 DEF Schedule
  <2>2. pc' \in PcType
    <3>1. \A l \in Labels : [pc EXCEPT ![r] = l] \in PcType
      BY <1>ReqTypes, Zenon
    <3>2. QED
      BY <3>1, Zenon DEF Schedule, Labels
  <2>3. QED
    BY <2>0, <2>1, <2>2 DEF Schedule, Types, streamVars, wireVars, pingVars
<1>SendAckTypes. ASSUME Types, SendAck PROVE Types'
  <2> USE <1>SendAckTypes
  <2>0. PingType' = PingType /\ MaxTries' = MaxTries
    BY <1>SameTypes DEF SendAck
  <2>1. queue' \in Seq(CallbackType)
    BY <1>TryTypes DEF SendAck
  <2>2. reader' \in Readers
    BY DEF SendAck, Readers
  <2>3. QED
    BY <2>0, <2>1, <2>2 DEF SendAck, Types, streamVars, reqVars, wireVars, pingVars
<1>RunCancelledTypes. ASSUME Types, RunCancelled PROVE Types'
  <2> USE <1>RunCancelledTypes
  <2>0. PingType' = PingType /\ MaxTries' = MaxTries
    BY <1>SameTypes DEF RunCancelled
  <2>1. queue' \in Seq(CallbackType)
    BY QueueTail DEF RunCancelled, Types
  <2>2. QED
    BY <2>0, <2>1 DEF RunCancelled, Types, streamVars, reqVars, wireVars, pingVars
<1>RunCheckTypes. ASSUME Types, RunCheck PROVE Types'
  <2> USE <1>RunCheckTypes
  <2>0. PingType' = PingType /\ MaxTries' = MaxTries
    BY <1>SameTypes DEF RunCheck
  <2>1. job' \in JobType
    BY Zenon DEF RunCheck, Types, JobType
  <2>2. QED
    BY <2>0, <2>1 DEF RunCheck, Types, streamVars, reqVars, wireVars, pingVars
<1>RunHeadersTypes. ASSUME Types, QueueInv, CountInv, RunHeaders PROVE Types'
  <2> USE <1>RunHeadersTypes
  <2> DEFINE r == Head(queue).who
             f == [type |-> "HEADERS", id |-> streamIdGen + 1, req |-> r, end |-> r \notin Bodies]
  <2>0. PingType' = PingType /\ MaxTries' = MaxTries
    BY <1>SameTypes DEF RunHeaders
  <2>1. streamIdGen' \in Gens /\ streamIdGen + 1 \in Ids /\ r \in Reqs
    BY IdLeft DEF RunHeaders
  <2>2. job' \in JobType
    <3>1. TRUE \in BOOLEAN /\ FALSE \in BOOLEAN
      OBVIOUS
    <3>2. QED
      BY <2>1, <3>1, <1>JobTypes, Zenon DEF RunHeaders
  <2>3. wire' \in Seq(FrameType)
    <3>1. (r \notin Bodies) \in BOOLEAN
      BY SMT
    <3>2. f \in FrameType
      BY <2>1, <3>1 DEF FrameType
    <3>3. Append(wire, f) \in Seq(FrameType)
      BY <3>2, WireAppend DEF Types
    <3>4. QED
      BY <3>3, Zenon DEF RunHeaders, Types
  <2>4. QED
    BY <2>0, <2>1, <2>2, <2>3 DEF RunHeaders, Types, reqVars, pingVars
<1>RunStoreTypes. ASSUME Types, JobInv, RunStore PROVE Types'
  <2> USE <1>RunStoreTypes
  <2>0. PingType' = PingType /\ MaxTries' = MaxTries
    BY <1>SameTypes DEF RunStore
  <2>1. job.id \in Ids
    BY DEF RunStore, JobInv, Types, JobType
  <2>2. job' \in JobType
    BY Zenon DEF RunStore, Types, JobType
  <2>3. QED
    BY <2>0, <2>1, <2>2 DEF RunStore, Types, reqVars, wireVars, pingVars
<1>RunBodyTypes. ASSUME Types, QueueInv, ReqInv, RunBody PROVE Types'
  <2> USE <1>RunBodyTypes
  <2> DEFINE r == Head(queue).who
             f == [type |-> "DATA", id |-> own[r], req |-> r, end |-> TRUE]
  <2>0. PingType' = PingType /\ MaxTries' = MaxTries
    BY <1>SameTypes DEF RunBody
  <2>1. r \in Reqs /\ pc[r] = "body"
    BY HeadBody DEF RunBody, Running
  <2>2. own[r] \in Ids
    BY <2>1 DEF ReqInv, HasStream, Types
  <2>3. job' \in JobType
    <3>1. TRUE \in BOOLEAN /\ FALSE \in BOOLEAN
      OBVIOUS
    <3>2. QED
      BY <3>1, <1>JobTypes, Zenon DEF RunBody
  <2>4. wire' \in Seq(FrameType)
    <3>1. f \in FrameType
      BY <2>1, <2>2 DEF FrameType
    <3>2. Append(wire, f) \in Seq(FrameType)
      BY <3>1, WireAppend DEF Types
    <3>3. QED
      BY <3>2, Zenon DEF RunBody, Types
  <2>5. QED
    BY <2>0, <2>3, <2>4 DEF RunBody, Types, streamVars, reqVars, pingVars
<1>RunPingTypes. ASSUME Types, QueueInv, PingInv, RunPing PROVE Types'
  <2> USE <1>RunPingTypes
  <2> DEFINE p == Head(queue).who
  <2>0. PingType' = PingType /\ MaxTries' = MaxTries
    BY <1>SameTypes, Zenon DEF RunPing
  <2>1. job' \in JobType
    <3>1. TRUE \in BOOLEAN /\ FALSE \in BOOLEAN
      OBVIOUS
    <3>2. QED
      BY <3>1, <1>JobTypes, Zenon DEF RunPing
  <2>2. p \in Pingers /\ ping[p].at = "sent"
    BY HeadPing DEF RunPing, Running
  <2>3. Callback("ping", p) \in Pending
    <3>1. Head(queue) = queue[1] /\ Head(queue) \in CallbackType /\ 1 \in 1 .. Len(queue)
      BY QueueTail DEF RunPing, Running, Types
    <3>2. Head(queue) = Callback("ping", p)
      BY <3>1 DEF RunPing, Running, CallbackType, Callback
    <3>3. QED
      BY <3>1, <3>2 DEF Pending, RunPing, Running, Unwritten
  <2>4. ping[p].key \in Keys /\ ping[p].tries \in 0 .. MaxTries /\ MaxTries \in Nat
        /\ pings[ping[p].key] < ping[p].tries
    BY <2>2, <2>3, MixFacts DEF PingInv, PingOf, Types, PingType
  <2>5. pings' \in [Keys -> 0 .. MaxTries]
    <3>1. pings \in [Keys -> 0 .. MaxTries]
      BY Zenon DEF Types
    <3>2. pings[ping[p].key] + 1 \in 0 .. MaxTries
      BY <2>4, <3>1
    <3>3. pings' = pings \/ pings' = [pings EXCEPT ![ping[p].key] = pings[ping[p].key] + 1]
      BY Zenon DEF RunPing
    <3>4. QED
      BY <2>4, <3>1, <3>2, <3>3, Zenon
  <2>6. QED
    BY <2>0, <2>1, <2>5, Zenon DEF RunPing, Types, streamVars, reqVars, wireVars
<1>RunAckTypes. ASSUME Types, RunAck PROVE Types'
  <2> USE <1>RunAckTypes
  <2>0. PingType' = PingType /\ MaxTries' = MaxTries
    BY <1>SameTypes DEF RunAck
  <2>1. job' \in JobType
    <3>1. \A w : (w = "fails") \in BOOLEAN
      BY SMT
    <3>2. QED
      BY <3>1, <1>JobTypes, Zenon DEF RunAck
  <2>2. QED
    BY <2>0, <2>1 DEF RunAck, Types, streamVars, reqVars, wireVars, pingVars
<1>EndTypes. ASSUME Types, queue # << >>, EndJob
    PROVE  queue' \in Seq(CallbackType) /\ job' \in JobType
  BY <1>EndTypes, QueueTail, <1>JobTypes DEF EndJob, Types
<1>TakeStreamTypes. ASSUME Types, JobInv, NEW r \in Reqs, TakeStream(r) PROVE Types'
  <2> USE <1>TakeStreamTypes
  <2>0. PingType' = PingType /\ MaxTries' = MaxTries
    BY <1>SameTypes DEF TakeStream
  <2>1. queue' \in Seq(CallbackType) /\ job' \in JobType
    BY <1>EndTypes DEF TakeStream, Sending
  <2>2. CASE job.err
    BY <2>0, <2>1, <2>2, <1>ReturnTypes DEF TakeStream, Types, wireVars, pingVars
  <2>3. CASE ~ job.err
    <3>1. job.id \in Ids
      <4>1. job.id # 0
        BY <2>3 DEF TakeStream, Sending, JobInv
      <4>2. QED
        BY <4>1 DEF Types, JobType
    <3>2. own' \in [Reqs -> Ids \cup {0}]
      BY <2>3, <3>1 DEF TakeStream, Types
    <3>3. pc' \in PcType
      <4>1. \A l \in Labels : [pc EXCEPT ![r] = l] \in PcType
        BY <1>ReqTypes, Zenon
      <4>2. QED
        BY <2>3, <4>1, Zenon DEF TakeStream, Labels
    <3>4. QED
      BY <2>0, <2>1, <2>3, <3>2, <3>3 DEF TakeStream, Types, wireVars, pingVars
  <2>4. QED
    BY <2>2, <2>3
<1>TakeBodyTypes. ASSUME Types, NEW r \in Reqs, TakeBody(r) PROVE Types'
  <2> USE <1>TakeBodyTypes
  <2>0. PingType' = PingType /\ MaxTries' = MaxTries
    BY <1>SameTypes DEF TakeBody
  <2>1. queue' \in Seq(CallbackType) /\ job' \in JobType
    BY <1>EndTypes DEF TakeBody, Sending
  <2>2. CASE job.err
    BY <2>0, <2>1, <2>2, <1>ReturnTypes DEF TakeBody, Types, wireVars, pingVars
  <2>3. CASE ~ job.err
    <3>1. pc' \in PcType
      <4>1. \A l \in Labels : [pc EXCEPT ![r] = l] \in PcType
        BY <1>ReqTypes, Zenon
      <4>2. QED
        BY <2>3, <4>1, Zenon DEF TakeBody, Labels
    <3>2. QED
      BY <2>0, <2>1, <2>3, <3>1 DEF TakeBody, Types, wireVars, pingVars
  <2>4. QED
    BY <2>2, <2>3
<1>TakeAckTypes. ASSUME Types, TakeAck PROVE Types'
  <2> USE <1>TakeAckTypes
  <2>0. PingType' = PingType /\ MaxTries' = MaxTries
    BY <1>SameTypes DEF TakeAck
  <2>1. queue' \in Seq(CallbackType) /\ job' \in JobType
    BY <1>EndTypes DEF TakeAck, Sending
  <2>2. reader' \in Readers
    BY DEF TakeAck, Readers
  <2>3. QED
    BY <2>0, <2>1, <2>2 DEF TakeAck, Types, streamVars, reqVars, wireVars, pingVars
<1>PingTypes. ASSUME Types, NEW p \in Pingers
    PROVE  /\ \A at \in {"idle", "send", "sent", "wait", "follow", "delete"} :
                [ping EXCEPT ![p].at = at] \in [Pingers -> PingType]
           /\ [ping EXCEPT ![p] = NoPing] \in [Pingers -> PingType]
  <2> USE <1>PingTypes
  <2>1. \A at \in {"idle", "send", "sent", "wait", "follow", "delete"} :
          [ping EXCEPT ![p].at = at] \in [Pingers -> PingType]
    BY Zenon DEF Types, PingType
  <2>2. 0 \in 0 .. MaxTries
    BY MixFacts
  <2>3. NoPing \in PingType
    BY <2>2 DEF NoPing, PingType
  <2>4. [ping EXCEPT ![p] = NoPing] \in [Pingers -> PingType]
    BY <2>3 DEF Types
  <2>5. QED
    BY <2>1, <2>4
<1>TakePingTypes. ASSUME Types, NEW p \in Pingers, TakePing(p) PROVE Types'
  <2> USE <1>TakePingTypes
  <2>0. PingType' = PingType /\ MaxTries' = MaxTries
    BY <1>SameTypes DEF TakePing
  <2>1. queue' \in Seq(CallbackType) /\ job' \in JobType
    BY <1>EndTypes DEF TakePing, Sending
  <2>2. ping' \in [Pingers -> PingType]
    BY <1>PingTypes, Zenon DEF TakePing, At
  <2>3. QED
    BY <2>0, <2>1, <2>2 DEF TakePing, Types, streamVars, reqVars, wireVars
<1>IsValidTypes. ASSUME Types, NEW p \in Pingers \cap conn.mix.callers, IsValid(p)
    PROVE  Types'
  <2> USE <1>IsValidTypes
  <2>0. PingType' = PingType /\ MaxTries' = MaxTries
    BY <1>SameTypes DEF IsValid
  <2>1. nextRequest \in Keys /\ nextRequest' \in 0 .. MaxKeys
    BY ClientConnAssumption DEF IsValid, Types, Keys
  <2>2. ping' \in [Pingers -> PingType]
    <3>1. 0 \in 0 .. MaxTries
      BY MixFacts
    <3>2. \A at \in {"send", "follow"} : [at |-> at, key |-> nextRequest, tries |-> 0] \in PingType
      BY <2>1, <3>1 DEF PingType
    <3>3. ping \in [Pingers -> PingType]
      BY Zenon DEF Types
    <3>4. \E at \in {"send", "follow"} : ping' = [ping EXCEPT ![p] = [at |-> at, key |-> nextRequest, tries |-> 0]]
      BY Zenon DEF IsValid
    <3>5. QED
      BY <3>2, <3>3, <3>4, Zenon
  <2>3. QED
    BY <2>0, <2>1, <2>2 DEF IsValid, Types, serVars, streamVars, reqVars, wireVars
<1>SendPingTypes. ASSUME Types, PingInv, NEW p \in Pingers, SendPing(p) PROVE Types'
  <2> USE <1>SendPingTypes
  <2>0. PingType' = PingType /\ MaxTries' = MaxTries
    BY <1>SameTypes DEF SendPing
  <2>1. queue' \in Seq(CallbackType)
    BY <1>TryTypes DEF SendPing
  <2>2. ping' \in [Pingers -> PingType]
    <3>1. ping[p].tries \in Nat /\ ping[p].tries < MaxTries /\ MaxTries \in Nat
      BY MixFacts DEF SendPing, PingInv, PingOf, Types, PingType
    <3>2. ping[p].tries + 1 \in 0 .. MaxTries
      BY <3>1
    <3>3. ping' = [ping EXCEPT ![p].at = "sent", ![p].tries = ping[p].tries + 1]
      BY DEF SendPing, Types, PingType
    <3>4. \A n \in 0 .. MaxTries : [ping EXCEPT ![p].at = "sent", ![p].tries = n] \in [Pingers -> PingType]
      BY Zenon DEF Types, PingType
    <3>5. QED
      BY <3>2, <3>3, <3>4
  <2>3. QED
    BY <2>0, <2>1, <2>2 DEF SendPing, Types, streamVars, reqVars, wireVars
<1>PingStepTypes. ASSUME Types, NEW p \in Pingers, Valid(p) \/ PingTimeout(p) \/ PingCtx(p) \/ Invalid(p)
    PROVE  Types'
  <2> USE <1>PingStepTypes
  <2>0. PingType' = PingType /\ MaxTries' = MaxTries
    BY <1>SameTypes DEF Valid, PingTimeout, PingCtx, Invalid
  <2>1. ping' \in [Pingers -> PingType]
    <3>1. CASE Valid(p) \/ Invalid(p)
      <4>1. ping' = [ping EXCEPT ![p] = NoPing]
        BY <3>1 DEF Valid, Invalid
      <4>2. QED
        BY <4>1, <1>PingTypes, Zenon
    <3>2. CASE PingTimeout(p)
      <4>1. PICK at \in {"send", "delete"} : ping' = [ping EXCEPT ![p].at = at]
        BY <3>2, Zenon DEF PingTimeout, At
      <4>2. QED
        BY <4>1, <1>PingTypes, Zenon
    <3>3. CASE PingCtx(p)
      BY <3>3, <1>PingTypes, Zenon DEF PingCtx, At
    <3>4. QED
      BY <3>1, <3>2, <3>3
  <2>2. answered' \subseteq Pingers /\ ctx' \subseteq Reqs \cup Pingers /\ pingRequests' \subseteq Keys
    BY DEF Valid, PingTimeout, PingCtx, Invalid, Types
  <2>3. UNCHANGED <<conn, serVars, reader, streamVars, reqVars, wireVars, nextRequest, pings>>
    BY DEF Valid, PingTimeout, PingCtx, Invalid
  <2>4. QED
    BY <2>0, <2>1, <2>2, <2>3 DEF Types, serVars, streamVars, reqVars, wireVars
<1>FrameTypes. ASSUME Types, NEW id \in Ids, ReadData(id) \/ ReadReset(id) \/ ReadHeaders(id)
    PROVE  Types'
  <2> USE <1>FrameTypes
  <2>0. PingType' = PingType /\ MaxTries' = MaxTries
    BY <1>SameTypes, Zenon DEF ReadData, ReadReset, ReadHeaders
  <2>1. reader' \in Readers /\ ended' \subseteq Ids
    BY DEF ReadData, ReadReset, ReadHeaders, Deliver, Take, Types, Readers
  <2>2. early' \subseteq ended'
    BY DEF ReadData, ReadReset, ReadHeaders, Deliver, Take, Types
  <2>3. doneCh' \subseteq Ids
    BY Zenon DEF ReadData, ReadReset, ReadHeaders, Deliver, Types
  <2>4. hpack' \in Flags
    <3>1. (hpack /\ id \in clientStreams) \in BOOLEAN
      BY SMT
    <3>2. QED
      BY <3>1, Zenon DEF ReadData, ReadReset, ReadHeaders, Types, Flags
  <2>5. UNCHANGED <<conn, serVars, streamIdGen, clientStreams, ctx, reqVars, wire, pingVars>>
    BY Zenon DEF ReadData, ReadReset, ReadHeaders
  <2>6. QED
    BY <2>0, <2>1, <2>2, <2>3, <2>4, <2>5 DEF Types, serVars, reqVars, pingVars
<1>GoAwayTypes. ASSUME Types, ReadGoAway PROVE Types'
  <2> USE <1>GoAwayTypes
  <2>0. PingType' = PingType /\ MaxTries' = MaxTries
    BY <1>SameTypes DEF ReadGoAway
  <2>1. reader' \in Readers
    BY DEF ReadGoAway, Readers
  <2>2. QED
    BY <2>0, <2>1 DEF ReadGoAway, Types, serVars, reqVars, wireVars, pingVars
<1>PingAckTypes. ASSUME Types, NEW k \in Keys, ReadPingAck(k) PROVE Types'
  <2> USE <1>PingAckTypes
  <2>0. PingType' = PingType /\ MaxTries' = MaxTries
    BY <1>SameTypes, Zenon DEF ReadPingAck
  <2>1. reader' \in Readers
    BY DEF ReadPingAck, Readers
  <2>2. pings' \in [Keys -> 0 .. MaxTries]
    <3>0. pings \in [Keys -> 0 .. MaxTries]
      BY Zenon DEF Types
    <3>1. pings[k] > 0 /\ pings' = [pings EXCEPT ![k] = pings[k] - 1]
      BY Zenon DEF ReadPingAck
    <3>2. pings[k] - 1 \in 0 .. MaxTries
      BY <3>0, <3>1, MixFacts
    <3>3. QED
      BY <3>0, <3>1, <3>2, Zenon
  <2>3. pingRequests' \subseteq Keys /\ answered' \subseteq Pingers
    BY DEF ReadPingAck, Types
  <2>4. QED
    BY <2>0, <2>1, <2>2, <2>3 DEF ReadPingAck, Types, serVars, streamVars, reqVars, wireVars
<1>QuietTypes. ASSUME Types, Quiet PROVE Types'
  <2> USE <1>QuietTypes
  <2>1. PingType' = PingType /\ MaxTries' = MaxTries
    BY QuietConn, Zenon DEF MaxTries, PingType
  <2>2. QED
    BY <2>1, QuietConn, QuietFrame DEF Types, serVars, streamVars, reqVars, wireVars, pingVars
<1> SUFFICES ASSUME IInv, [Next]_vars PROVE Types'
  OBVIOUS
<1>1. Types
  BY TypesOK DEF IInv
<1>2. CASE Quiet
  BY <1>1, <1>2, <1>QuietTypes
<1>3. ASSUME NEW r \in Reqs, Refuse(r) \/ Do(r) \/ ReqStep(r) \/ TakeStream(r) \/ TakeBody(r)
      PROVE  Types'
  BY <1>1, <1>3, <1>DoTypes, <1>ScheduleTypes, <1>TakeStreamTypes, <1>TakeBodyTypes DEF ReqStep, IInv
<1>4. ASSUME NEW p \in Pingers, PingStep(p) \/ TakePing(p)
      PROVE  Types'
  BY <1>1, <1>4, <1>SendPingTypes, <1>PingStepTypes, <1>TakePingTypes DEF PingStep, IInv
<1>5. ASSUME NEW p \in Pingers \cap conn.mix.callers, IsValid(p)
      PROVE  Types'
  BY <1>1, <1>5, <1>IsValidTypes, Zenon
<1>6. CASE RunCancelled \/ RunCheck \/ RunHeaders \/ RunStore \/ RunBody \/ RunPing \/ RunAck \/ TakeAck \/ SendAck
  BY <1>1, <1>6, <1>RunCancelledTypes, <1>RunCheckTypes, <1>RunHeadersTypes, <1>RunStoreTypes, <1>RunBodyTypes, <1>RunPingTypes,
     <1>RunAckTypes, <1>TakeAckTypes, <1>SendAckTypes DEF IInv
<1>7. ASSUME NEW id \in Ids, ReadData(id) \/ ReadReset(id) \/ ReadHeaders(id)
      PROVE  Types'
  BY <1>1, <1>7, <1>FrameTypes
<1>8. CASE ReadGoAway
  BY <1>1, <1>8, <1>GoAwayTypes
<1>9. ASSUME NEW k \in Keys, ReadPingAck(k)
      PROVE  Types'
  BY <1>1, <1>9, <1>PingAckTypes
<1>10. QED
  BY <1>2, <1>3, <1>4, <1>5, <1>6, <1>7, <1>8, <1>9, Zenon
     DEF Next, Alive, Step, Quiet, SerializerStep, ReaderStep, ServerFrame

-----------------------------------------------------------------------------
(* What an invariant depends on *)

SameMix == conn'.mix = conn.mix

LEMMA MixKept == ASSUME SameMix PROVE Bodies' = Bodies /\ Upgraded' = Upgraded /\ (H2c' <=> H2c) /\ MaxTries' = MaxTries
  BY DEF SameMix, Bodies, Upgraded, H2c, MaxTries

LEMMA QueueFrame ==
  ASSUME QueueInv, SameMix, UNCHANGED <<queue, pc, own, ping>>, reader = "waitack" => reader' = "waitack"
  PROVE  QueueInv'
  BY MixKept DEF QueueInv, Awaited

LEMMA JobFrame ==
  ASSUME JobInv, UNCHANGED <<queue, job, wire>>
  PROVE  JobInv'
  BY Zenon DEF JobInv, OpenedBy, NoBody

LEMMA ReqFrame ==
  ASSUME ReqInv, SameMix, UNCHANGED <<pc, own, result, wire>>, doneCh \subseteq doneCh',
         \A c \in Pending' : c.op = "body" => c \in Pending
  PROVE  ReqInv'
<1>1. SUFFICES ASSUME NEW r \in Reqs
               PROVE  (/\ pc[r] \in {"idle", "sem", "sched", "stream"} => own[r] = 0
                       /\ HasStream(r) => own[r] # 0
                       /\ pc[r] \in {"bodysched", "body"} => r \in Bodies
                       /\ r \in Upgraded => pc[r] \in {"idle", "sem", "resp", "ret"}
                       /\ own[r] # 0 => IF r \in Upgraded THEN own[r] = 1 ELSE OpenedBy(own[r], r)
                       /\ result[r] = "resp" => own[r] \in doneCh /\ pc[r] = "ret"
                       /\ pc[r] = "bodysched" \/ Callback("body", r) \in Pending => NoBody(own[r]))'
  BY Zenon DEF ReqInv
<1>2. Callback("body", r) \in Pending' => Callback("body", r) \in Pending
  BY DEF Callback
<1>3. OpenedBy(own[r], r)' = OpenedBy(own[r], r) /\ NoBody(own[r])' = NoBody(own[r])
      /\ HasStream(r)' = HasStream(r)
  BY DEF OpenedBy, NoBody, HasStream
<1>4. QED
  BY <1>2, <1>3, MixKept, Zenon DEF ReqInv

LEMMA WireFrame ==
  ASSUME WireInv, SameMix, UNCHANGED <<wire, streamIdGen>>
  PROVE  WireInv'
  BY MixKept DEF WireInv, WireProtocol, Headers

\* An id that is not taken stays available.
LEMMA CountFrame ==
  ASSUME CountInv, UNCHANGED streamIdGen, Waiting' \subseteq Waiting
  PROVE  CountInv'
<1>1. PICK f \in [Waiting -> Ids] :
        /\ \A r \in Waiting : f[r] > streamIdGen
        /\ \A r, q \in Waiting : f[r] = f[q] => r = q
  BY DEF CountInv
<1> DEFINE g == [r \in Waiting' |-> f[r]]
<1>2. g \in [Waiting' -> Ids]
  OBVIOUS
<1>3. \A r \in Waiting' : g[r] > streamIdGen'
  BY <1>1
<1>4. \A r, q \in Waiting' : g[r] = g[q] => r = q
  BY <1>1
<1>5. QED
  BY <1>2, <1>3, <1>4, Zenon DEF CountInv, Ids

LEMMA WaitingFrame ==
  ASSUME SameMix, \A r \in Reqs : pc'[r] \in {"idle", "sem", "sched"} => pc[r] \in {"idle", "sem", "sched"},
         \A c \in Pending' : c.op = "headers" => c \in Pending \/ pc[c.who] = "sched"
  PROVE  Waiting' \subseteq Waiting
<1>1. ASSUME NEW r \in Reqs, Callback("headers", r) \in Pending'
      PROVE  Callback("headers", r) \in Pending \/ pc[r] = "sched"
  BY <1>1 DEF Callback
<1>2. QED
  BY <1>1, MixKept, Zenon DEF Waiting

LEMMA OwnedFrame ==
  ASSUME StreamsOwned, SameMix, UNCHANGED clientStreams, job'.id = job.id,
         \A r \in InFlight : r \in InFlight' /\ own'[r] = own[r]
  PROVE  StreamsOwned'
  BY MixKept DEF StreamsOwned

\* A stream that is shared stays so: own is set once.
LEMMA SharedKept ==
  ASSUME \A q \in Reqs : own'[q] = own[q] \/ own[q] = 0, NEW r \in Reqs, SharedStream(r)
  PROVE  SharedStream(r)'
  BY DEF SharedStream

LEMMA HeldKept ==
  ASSUME \A q \in Reqs : own'[q] = own[q] \/ own[q] = 0,
         clientStreams \cup doneCh \subseteq clientStreams' \cup doneCh',
         NEW r \in Reqs, Held(r), own'[r] = own[r]
  PROVE  Held(r)'
  BY SharedKept DEF Held

\* A request that comes to wait for a stream finds it in the map or ended.
LEMMA StreamKept ==
  ASSUME StreamInv, SameMix, UNCHANGED <<streamVars, job, ended, early>>,
         reader = "goaway" => reader' = "goaway" \/ conn'.closed, conn.closed => conn'.closed,
         \A q \in Reqs : own'[q] = own[q] \/ own[q] = 0,
         \A r \in InFlight : r \in InFlight' /\ own'[r] = own[r],
         \A r \in Reqs : HasStream(r)' => (HasStream(r) /\ own'[r] = own[r]) \/ own'[r] \in clientStreams
  PROVE  StreamInv'
<1>1. \A r \in Reqs : HasStream(r)' => Held(r)'
  <2>1. SUFFICES ASSUME NEW r \in Reqs, HasStream(r)' PROVE Held(r)'
    OBVIOUS
  <2>2. CASE own'[r] \in clientStreams
    BY <2>2 DEF Held, streamVars
  <2>3. CASE HasStream(r) /\ own'[r] = own[r]
    <3>1. Held(r)
      BY <2>3 DEF StreamInv
    <3>2. QED
      BY <2>3, <3>1, HeldKept DEF streamVars
  <2>4. QED
    BY <2>1, <2>2, <2>3
<1>2. StreamsOwned'
  <2>1. StreamsOwned
    BY DEF StreamInv
  <2>2. QED
    BY <2>1, OwnedFrame DEF streamVars
<1>3. \A id \in doneCh : id \in ended \/ reader' = "goaway" \/ conn'.closed
  BY Zenon DEF StreamInv
<1>4. job.id # 0 /\ (\E q \in Reqs : own[q] = job.id) => \E q \in Reqs : own'[q] = job.id
  OBVIOUS
<1>5. QED
  BY <1>1, <1>2, <1>3, <1>4, Zenon DEF StreamInv, streamVars

LEMMA StreamFrame ==
  ASSUME StreamInv, SameMix, UNCHANGED <<streamVars, job, pc, own, ended, early>>,
         reader = "goaway" => reader' = "goaway" \/ conn'.closed, conn.closed => conn'.closed
  PROVE  StreamInv'
<1>1. InFlight' = InFlight
  BY DEF InFlight
<1>2. \A r \in Reqs : HasStream(r)' = HasStream(r)
  BY DEF HasStream
<1>3. QED
  BY <1>1, <1>2, StreamKept

LEMMA PingFrame ==
  ASSUME PingInv, SameMix, UNCHANGED pingVars, \A c \in Pending' : c.op = "ping" => c \in Pending
  PROVE  PingInv'
<1>1. \A p \in Pingers : Callback("ping", p) \in Pending' => Callback("ping", p) \in Pending
  BY DEF Callback
<1>2. QED
  BY <1>1, MixKept DEF PingInv, PingOf, PingTable, pingVars

LEMMA PingTypes ==
  ASSUME Types, NEW p \in Pingers
  PROVE  ping[p].tries \in Nat /\ nextRequest \in Nat /\ \A k \in Keys : k \in Nat /\ pings[k] \in Nat
  BY MixFacts, ClientConnAssumption DEF Types, PingType, Keys

\* The keys of two calls stay apart while they stay the same.
LEMMA KeysApart ==
  ASSUME PingInv, UNCHANGED <<ping, nextRequest>>, \A p \in Pingers : PingOf(p)',
         \A k \in Keys : k >= nextRequest => pings'[k] = 0, PingTable'
  PROVE  PingInv'
  BY Zenon DEF PingInv

LEMMA KeyOrder ==
  ASSUME Types
  PROVE  \A k, j \in Keys : k >= nextRequest /\ j < nextRequest => k # j
  BY ClientConnAssumption DEF Types, Keys

LEMMA TableFrame ==
  ASSUME PingTable, UNCHANGED <<pingRequests, answered>>,
         \A q \in Pingers : (ping'[q].at # "idle") = (ping[q].at # "idle") /\ ping'[q].key = ping[q].key
  PROVE  PingTable'
  BY DEF PingTable

==============================================================================
