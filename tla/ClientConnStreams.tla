------------------------- MODULE ClientConnStreams --------------------------
(***************************************************************************)
(* The inductive invariant of ClientConn is kept by the callbacks that     *)
(* write HEADERS and DATA, and by handing the result of a callback to the  *)
(* one that waits for it.                                                  *)
(***************************************************************************)
EXTENDS ClientConnRequests, TLAPS

USE SMTT(30), ZenonT(30)

-----------------------------------------------------------------------------
(* Callbacks that write frames of a stream *)

LEMMA RunHeadersStep == Types /\ Rest /\ RunHeaders => Rest'
\* Fewer requests wait for an id than before.
<1>CountRun. ASSUME Types, CountInv, NEW r \in Waiting, Waiting' \subseteq Waiting \ {r}, streamIdGen' = streamIdGen + 2
    PROVE  CountInv'
  <2> USE <1>CountRun
  <2>1. PICK f \in [Waiting -> Ids] :
          /\ \A q \in Waiting : f[q] > streamIdGen
          /\ \A p, q \in Waiting : f[p] = f[q] => p = q
    BY DEF CountInv
  <2>2. \A id \in Ids : id > streamIdGen => id = streamIdGen + 1 \/ id > streamIdGen + 2
    <3>1. PICK i \in 0 .. Cardinality(Reqs) + 1 : streamIdGen = 2 * i
      BY Zenon DEF Types, Gens
    <3>2. QED
      BY <3>1, ReqsFinite DEF Ids
  <2> DEFINE g == [q \in Waiting' |-> IF f[q] = streamIdGen + 1 THEN f[r] ELSE f[q]]
  <2>3. g \in [Waiting' -> Ids]
    OBVIOUS
  <2>4. \A q \in Waiting' : g[q] > streamIdGen'
    BY <2>1, <2>2
  <2>5. \A p, q \in Waiting' : g[p] = g[q] => p = q
    BY <2>1
  <2>6. QED
    BY <2>3, <2>4, <2>5, Zenon DEF CountInv, Ids
\* WriteHeaders fails: an id is lost and the caller gets the error.
<1>RunHeadersFails. ASSUME Types, Rest, RunHeaders, job' = [at |-> "send", id |-> 0, err |-> TRUE], UNCHANGED wire
    PROVE  JobInv' /\ ReqInv' /\ WireInv' /\ StreamInv'
  <2> USE <1>RunHeadersFails
  <2>1. /\ UNCHANGED <<conn, queue, reader, clientStreams, doneCh, hpack, ctx, reqVars, ended, early, pingVars>>
        /\ queue # << >> /\ job.at \in Unwritten /\ SameMix /\ streamIdGen' = streamIdGen + 2
    BY DEF RunHeaders, Running, SameMix, Unwritten
  <2>2. Pending' \subseteq Pending \ {Head(queue)}
    BY <2>1, PendingRun DEF Rest, Unwritten
  <2>3. streamIdGen \in Nat
    BY IdFacts DEF Types
  <2>4. JobInv'
    BY <2>1 DEF JobInv
  <2>5. ReqInv'
    BY <2>1, <2>2, ReqFrame DEF Rest, reqVars
  <2>6. WireInv'
    <3>1. WireProtocol'
      BY DEF Rest, WireInv, WireProtocol, Headers
    <3>2. \A i \in 1 .. Len(wire) : wire[i].id \in Nat
      <4>1. \A i \in 1 .. Len(wire) : wire[i] \in FrameType
        BY DEF Types
      <4>2. QED
        BY <4>1, IdFacts, Zenon DEF FrameType
    <3>3. QED
      BY <2>1, <2>3, <3>1, <3>2, MixKept DEF Rest, WireInv
  <2>7. StreamInv'
    <3>1. \A id \in clientStreams' \cup doneCh' \cup ended' : id < streamIdGen'
      BY <2>1, <2>3, IdFacts DEF Rest, StreamInv, Types
    <3>2. StreamsOwned'
      <4>1. InFlight' = InFlight
        BY <2>1 DEF InFlight, reqVars
      <4>2. job.id = 0
        BY <2>1 DEF Rest, JobInv
      <4>3. \A id \in clientStreams : job.id # id
        BY <4>2, IdFacts DEF Types
      <4>4. QED
        BY <2>1, <4>1, <4>3, MixKept, Zenon DEF Rest, StreamInv, StreamsOwned, reqVars
    <3>3. \A q \in Reqs : HasStream(q)' = HasStream(q) /\ (Held(q) => Held(q)')
      BY <2>1, HeldKept DEF HasStream, reqVars
    <3>4. QED
      BY <2>1, <3>1, <3>2, <3>3, Zenon DEF Rest, StreamInv, reqVars
  <2>8. QED
    BY <2>4, <2>5, <2>6, <2>7
\* It succeeds: the stream is on the wire, not yet in the map.
<1>RunHeadersWrites. ASSUME Types, Rest, RunHeaders, NEW f \in FrameType, wire' = Append(wire, f),
           f = [type |-> "HEADERS", id |-> streamIdGen + 1, req |-> Head(queue).who,
                end |-> Head(queue).who \notin Bodies],
           job' = [at |-> "store", id |-> streamIdGen + 1, err |-> FALSE]
    PROVE  JobInv' /\ ReqInv' /\ WireInv' /\ StreamInv'
  <2> USE <1>RunHeadersWrites
  <2> DEFINE r == Head(queue).who
             id == streamIdGen + 1
  <2>1. /\ UNCHANGED <<conn, queue, reader, clientStreams, doneCh, hpack, ctx, reqVars, ended, early, pingVars>>
        /\ queue # << >> /\ job.at \in Unwritten /\ SameMix /\ streamIdGen' = streamIdGen + 2
        /\ Head(queue).op = "headers"
    BY DEF RunHeaders, Running, SameMix, Unwritten
  <2>2. Pending' \subseteq Pending
    BY <2>1, PendingRun DEF Rest, Unwritten
  <2>3. streamIdGen \in Nat /\ id \in Ids /\ id # 0
    BY IdLeft, IdFacts DEF RunHeaders, Rest
  <2>4. f.type = "HEADERS" /\ f.id = id /\ f.req = r /\ f.end = (r \notin Bodies)
    BY Zenon
  <2>5. \A i \in 1 .. Len(wire) : wire[i].id \in Nat /\ wire[i].id < id
    <3>1. \A i \in 1 .. Len(wire) : wire[i] \in FrameType
      BY DEF Types
    <3>2. \A i \in 1 .. Len(wire) : wire[i].id \in Nat
      BY <3>1, IdFacts, Zenon DEF FrameType
    <3>3. QED
      BY <2>3, <3>2 DEF Rest, WireInv
  <2>6. JobInv'
    <3>1. OpenedBy(f.id, f.req)'
      BY <2>4, WireGrows, Zenon
    <3>2. NoBody(f.id)
      BY <2>3, <2>4, <2>5 DEF NoBody
    <3>3. NoBody(f.id)'
      BY <2>4, <3>2, WireGrows, Zenon
    <3>4. job'.at = "store" /\ job'.id = f.id /\ ~ job'.err
      BY <2>4
    <3>5. queue' # << >> /\ Head(queue').op = "headers" /\ Head(queue').who = f.req
      BY <2>1, <2>4, Zenon
    <3>6. OpenedBy(job.id, Head(queue).who)' /\ NoBody(job.id)'
      BY <3>1, <3>3, <3>4, <3>5 DEF OpenedBy, NoBody
    <3>7. QED
      BY <2>3, <2>4, <3>4, <3>5, <3>6, Zenon DEF JobInv, Unwritten
  <2>7. ReqInv'
    <3>1. \A q \in Reqs : (OpenedBy(own[q], q) => OpenedBy(own[q], q)') /\ (NoBody(own[q]) => NoBody(own[q])')
      BY <2>1, <2>4, WireGrows, Zenon DEF reqVars
    <3>2. \A q \in Reqs : Callback("body", q) \in Pending' => Callback("body", q) \in Pending
      BY <2>2
    <3>3. QED
      BY <2>1, <3>1, <3>2, MixKept, Zenon DEF Rest, ReqInv, HasStream, reqVars
  <2>8. WireInv'
    <3>1. \A i \in 1 .. Len(wire) : wire[i].id # f.id
      BY <2>3, <2>4, <2>5
    <3>2. WireProtocol'
      BY <2>4, <2>5, <3>1, WireProtocolGrows, Zenon DEF Rest, WireInv
    <3>3. /\ Len(wire) \in Nat /\ Len(wire') = Len(wire) + 1 /\ wire'[Len(wire) + 1] = f
          /\ \A i \in 1 .. Len(wire) : wire'[i] = wire[i]
      BY WireAppend, Zenon DEF Types
    <3>4. H2c => streamIdGen >= 2 /\ id # 1
      BY <2>3 DEF Rest, WireInv
    <3>5. \A i \in 1 .. Len(wire') :
            /\ wire'[i].id < streamIdGen' /\ (H2c' => wire'[i].id # 1)
            /\ wire'[i].type = "HEADERS" => wire'[i].end = (wire'[i].req \notin Bodies')
      <4>1. SUFFICES ASSUME NEW i \in 1 .. Len(wire')
                     PROVE  /\ wire'[i].id < streamIdGen' /\ (H2c' => wire'[i].id # 1)
                            /\ wire'[i].type = "HEADERS" => wire'[i].end = (wire'[i].req \notin Bodies')
        BY Zenon
      <4>2. CASE i \in 1 .. Len(wire)
        <5>1. wire'[i] = wire[i] /\ wire[i].id < streamIdGen'
          BY <2>1, <2>3, <2>5, <3>3, <4>2
        <5>2. QED
          BY <2>1, <4>2, <5>1, MixKept, Zenon DEF Rest, WireInv
      <4>3. CASE i = Len(wire) + 1
        <5>1. wire'[i] = f /\ f.id < streamIdGen'
          BY <2>1, <2>3, <2>4, <3>3, <4>3
        <5>2. QED
          BY <2>1, <2>4, <3>4, <5>1, MixKept, Zenon
      <4>4. QED
        BY <3>3, <4>2, <4>3
    <3>6. H2c' => streamIdGen' >= 2
      BY <2>1, <2>3
    <3>7. QED
      BY <3>2, <3>5, <3>6, Zenon DEF WireInv
  <2>9. StreamInv'
    <3>1. \A x \in clientStreams \cup doneCh \cup ended : x < streamIdGen' /\ x # id
      BY <2>1, <2>3, IdFacts DEF Rest, StreamInv, Types
    <3>2. StreamsOwned'
      <4>1. InFlight' = InFlight
        BY <2>1 DEF InFlight, reqVars
      <4>2. job.id = 0
        BY <2>1, Zenon DEF Rest, JobInv
      <4>3. \A x \in clientStreams : job.id # x
        BY <4>2, IdFacts DEF Types
      <4>4. QED
        BY <2>1, <4>1, <4>3, MixKept, Zenon DEF Rest, StreamInv, StreamsOwned, reqVars
    <3>3. \A q \in Reqs : HasStream(q)' = HasStream(q) /\ (Held(q) => Held(q)')
      BY <2>1, HeldKept DEF HasStream, reqVars
    <3>4. QED
      BY <2>1, <3>1, <3>2, <3>3, Zenon DEF Rest, StreamInv, reqVars
  <2>10. QED
    BY <2>6, <2>7, <2>8, <2>9
<1> SUFFICES ASSUME Types, Rest, RunHeaders PROVE Rest'
  OBVIOUS
<1> DEFINE r == Head(queue).who
<1>1. /\ UNCHANGED <<conn, queue, reader, clientStreams, doneCh, hpack, ctx, reqVars, ended, early, pingVars>>
      /\ queue # << >> /\ job.at \in Unwritten /\ SameMix /\ streamIdGen' = streamIdGen + 2
      /\ Head(queue).op = "headers" /\ job'.at \notin Unwritten /\ Running("headers")
  BY DEF RunHeaders, Running, SameMix, Unwritten
<1>2. /\ r \in Waiting /\ r \in Reqs /\ streamIdGen + 1 \in Ids
  BY <1>1, IdLeft DEF Rest
<1>3. Pending' \subseteq Pending \ {Head(queue)}
  BY <1>1, PendingRun DEF Rest
<1>4. Head(queue) = Callback("headers", r) /\ pc[r] \in {"stream", "ret"}
  <2>1. Awaited(Head(queue)) /\ Head(queue) \in CallbackType
    BY <1>1, LaterAwaited DEF Rest
  <2>2. QED
    BY <1>1, <2>1, Zenon DEF Awaited, CallbackType, Callback
<1>5. QueueInv'
  BY <1>1, QueueFrame DEF Rest, reqVars, pingVars
<1>6. CountInv'
  <2>1. Waiting' \subseteq Waiting \ {r}
    <3>1. ASSUME NEW q \in Waiting' PROVE q \in Waiting
      BY <1>1, <1>3, MixKept DEF Waiting, reqVars
    <3>2. r \notin Waiting'
      BY <1>1, <1>3, <1>4 DEF Waiting, reqVars
    <3>3. QED
      BY <3>1, <3>2
  <2>2. QED
    BY <1>1, <1>2, <2>1, <1>CountRun DEF Rest
<1>7. PingInv'
  BY <1>1, <1>3, PingFrame DEF Rest
<1>8. JobInv' /\ ReqInv' /\ WireInv' /\ StreamInv'
  <2>1. CASE UNCHANGED wire /\ job' = [at |-> "send", id |-> 0, err |-> TRUE]
    BY <2>1, <1>RunHeadersFails
  <2>2. CASE /\ wire' = Append(wire, [type |-> "HEADERS", id |-> streamIdGen + 1, req |-> r, end |-> r \notin Bodies])
             /\ job' = [at |-> "store", id |-> streamIdGen + 1, err |-> FALSE]
    <3>1. (r \notin Bodies) \in BOOLEAN
      BY SMT
    <3>2. [type |-> "HEADERS", id |-> streamIdGen + 1, req |-> r, end |-> r \notin Bodies] \in FrameType
      BY <1>2, <3>1, Zenon DEF FrameType
    <3>3. QED
      BY <2>2, <3>2, <1>RunHeadersWrites, Zenon
  <2>3. QED
    BY <2>1, <2>2, Zenon DEF RunHeaders
<1>9. QED
  BY <1>5, <1>6, <1>7, <1>8 DEF Rest

LEMMA RunBodyStep == Types /\ Rest /\ RunBody => Rest'
\* The body of a request follows its HEADERS, once.
<1>RunBodyWrites. ASSUME Types, Rest, Running("body"), SameMix, Pending' \subseteq Pending \ {Head(queue)},
           UNCHANGED <<streamVars, reqVars>>, NEW f \in FrameType, wire' = Append(wire, f),
           f = [type |-> "DATA", id |-> own[Head(queue).who], req |-> Head(queue).who, end |-> TRUE]
    PROVE  ReqInv' /\ WireInv'
  <2> USE <1>RunBodyWrites
  <2>0. PICK r \in Reqs : r = Head(queue).who /\ r \in Bodies /\ pc[r] = "body"
    BY HeadBody DEF Running, Rest
  <2>1. f.type = "DATA" /\ f.id = own[r] /\ f.req = r
    BY <2>0
  <2>2. Head(queue) = Callback("body", r)
    <3>1. Head(queue) \in CallbackType
      BY LaterAwaited, Zenon DEF Rest, Running
    <3>2. QED
      BY <2>0, <3>1 DEF Running, Callback, CallbackType
  <2>3. own[r] # 0 /\ r \notin Upgraded /\ OpenedBy(own[r], r)
    BY <2>0, MixFacts, Zenon DEF Rest, ReqInv, HasStream
  <2>4. NoBody(own[r])
    <3>1. Head(queue) \in Pending
      <4>1. Head(queue) = queue[1] /\ Len(queue) \in Nat /\ Len(queue) >= 1
        BY QueueTail DEF Types, Running
      <4>2. QED
        BY <4>1 DEF Pending, Running, Unwritten
    <3>2. QED
      BY <2>2, <3>1, Zenon DEF Rest, ReqInv
  <2>5. ReqInv'
    <3>1. SUFFICES ASSUME NEW q \in Reqs
                   PROVE  (/\ pc[q] \in {"idle", "sem", "sched", "stream"} => own[q] = 0
                           /\ HasStream(q) => own[q] # 0
                           /\ pc[q] \in {"bodysched", "body"} => q \in Bodies
                           /\ q \in Upgraded => pc[q] \in {"idle", "sem", "resp", "ret"}
                           /\ own[q] # 0 => IF q \in Upgraded THEN own[q] = 1 ELSE OpenedBy(own[q], q)
                           /\ result[q] = "resp" => own[q] \in doneCh /\ pc[q] = "ret"
                           /\ pc[q] = "bodysched" \/ Callback("body", q) \in Pending => NoBody(own[q]))'
      BY Zenon DEF ReqInv
    <3>2. OpenedBy(own[q], q) => OpenedBy(own[q], q)'
      BY WireGrows, Zenon DEF reqVars
    <3>3. q # r /\ q \notin Upgraded /\ NoBody(own[q]) => NoBody(own[q])'
      <4>1. q # r /\ q \notin Upgraded => own[q] # own[r]
        BY <2>3, OwnDistinct DEF Rest
      <4>2. QED
        BY <2>1, <4>1, WireGrows, Zenon DEF reqVars
    <3>4. Callback("body", q) \in Pending' => q # r /\ q \notin Upgraded /\ Callback("body", q) \in Pending
      <4>1. Callback("body", q) \in Pending => pc[q] = "body"
        BY ScheduledAwaited DEF Rest, Awaited, Callback, Pending, Scheduled
      <4>2. pc[q] = "body" => q \notin Upgraded
        BY DEF Rest, ReqInv
      <4>3. QED
        BY <2>2, <4>1, <4>2
    <3>5. pc'[q] = "bodysched" => q # r /\ q \notin Upgraded
      BY <2>0 DEF reqVars, Rest, ReqInv
    <3>6. HasStream(q)' = HasStream(q)
      BY DEF HasStream, reqVars
    <3>7. QED
      BY <3>2, <3>3, <3>4, <3>5, <3>6, MixKept, Zenon DEF Rest, ReqInv, reqVars, streamVars
  <2>6. WireInv'
    <3>1. PICK h \in 1 .. Len(wire) : wire[h].type = "HEADERS" /\ wire[h].id = f.id
      BY <2>1, <2>3, Zenon DEF OpenedBy
    <3>2. ASSUME NEW i \in 1 .. Len(wire), wire[i].id = f.id PROVE ~ wire[i].end
      <4>1. wire[i].type = "HEADERS"
        BY <2>1, <2>4, <3>2, Zenon DEF NoBody
      <4>2. OpenedBy(own[r], wire[i].req)
        BY <2>1, <3>2, <4>1 DEF OpenedBy
      <4>3. wire[i].req = r
        BY <2>3, <4>2, OneOpener DEF Rest
      <4>4. QED
        BY <2>0, <4>1, <4>3, Zenon DEF Rest, WireInv
    <3>3. WireProtocol'
      BY <2>1, <3>1, <3>2, WireProtocolGrows, Zenon DEF Rest, WireInv
    <3>4. f.id < streamIdGen /\ (H2c => f.id # 1)
      BY <3>1, Zenon DEF Rest, WireInv
    <3>5. /\ Len(wire) \in Nat /\ Len(wire') = Len(wire) + 1 /\ wire'[Len(wire) + 1] = f
          /\ \A i \in 1 .. Len(wire) : wire'[i] = wire[i]
      BY WireAppend, Zenon DEF Types
    <3>6. \A i \in 1 .. Len(wire') : wire'[i] = f \/ (i \in 1 .. Len(wire) /\ wire'[i] = wire[i])
      BY WireIndex, Zenon DEF Types
    <3>7. \A i \in 1 .. Len(wire) :
            /\ wire[i].id < streamIdGen /\ (H2c => wire[i].id # 1)
            /\ wire[i].type = "HEADERS" => wire[i].end = (wire[i].req \notin Bodies)
      BY Zenon DEF Rest, WireInv
    <3>8. \A i \in 1 .. Len(wire') :
            /\ wire'[i].id < streamIdGen /\ (H2c => wire'[i].id # 1)
            /\ wire'[i].type = "HEADERS" => wire'[i].end = (wire'[i].req \notin Bodies)
      <4>1. SUFFICES ASSUME NEW i \in 1 .. Len(wire')
                     PROVE  /\ wire'[i].id < streamIdGen /\ (H2c => wire'[i].id # 1)
                            /\ wire'[i].type = "HEADERS" => wire'[i].end = (wire'[i].req \notin Bodies)
        BY Zenon
      <4>2. CASE wire'[i] = f
        BY <2>1, <3>4, <4>2, Zenon
      <4>3. CASE i \in 1 .. Len(wire) /\ wire'[i] = wire[i]
        BY <3>7, <4>3, Zenon
      <4>4. QED
        BY <3>6, <4>2, <4>3, Zenon
    <3>9. (H2c => streamIdGen >= 2) /\ UNCHANGED streamIdGen
      BY Zenon DEF Rest, WireInv, streamVars
    <3>10. QED
      BY <3>3, <3>8, <3>9, MixKept, Zenon DEF WireInv
  <2>7. QED
    BY <2>5, <2>6
<1> SUFFICES ASSUME Types, Rest, RunBody PROVE Rest'
  OBVIOUS
<1> DEFINE r == Head(queue).who
<1>1. /\ UNCHANGED <<conn, queue, reader, streamVars, ctx, reqVars, ended, early, pingVars>> /\ UNCHANGED ping
      /\ queue # << >> /\ job.at \in Unwritten /\ Head(queue).op = "body" /\ Running("body")
  BY Zenon DEF RunBody, Running, pingVars, Unwritten
<1>2. PICK e : job' = [at |-> "send", id |-> 0, err |-> e]
  BY Zenon DEF RunBody
<1>3. /\ SameMix /\ Pending' \subseteq Pending \ {Head(queue)} /\ QueueInv' /\ JobInv' /\ CountInv' /\ StreamInv'
  BY <1>1, <1>2, RunOther, Zenon
<1>4. PingInv'
  BY <1>1, <1>3, PingFrame DEF Rest
<1>5. ReqInv' /\ WireInv'
  <2>1. CASE UNCHANGED wire
    BY <1>1, <1>3, <2>1, ReqFrame, WireFrame DEF Rest, reqVars, streamVars
  <2>2. CASE wire' = Append(wire, [type |-> "DATA", id |-> own[r], req |-> r, end |-> TRUE])
    <3>1. r \in Reqs /\ pc[r] = "body"
      BY <1>1, HeadBody DEF Rest
    <3>2. own[r] # 0
      BY <3>1 DEF Rest, ReqInv, HasStream
    <3>3. own[r] \in Ids
      BY <3>1, <3>2 DEF Types
    <3>4. [type |-> "DATA", id |-> own[r], req |-> r, end |-> TRUE] \in FrameType
      BY <3>1, <3>3 DEF FrameType
    <3>5. QED
      BY <1>1, <1>3, <2>2, <3>4, <1>RunBodyWrites
  <2>3. QED
    BY <2>1, <2>2 DEF RunBody
<1>6. QED
  BY <1>3, <1>4, <1>5 DEF Rest

-----------------------------------------------------------------------------
(* Callbacks hand their results over *)

\* The callback at the head is for x; those behind it for others.
LEMMA OthersLater ==
  ASSUME Types, QueueInv, queue # << >>, NEW c \in Later, c.op = Head(queue).op
  PROVE  c.who # Head(queue).who
<1>1. c # Head(queue) /\ c \in CallbackType /\ Head(queue) \in CallbackType
  BY LaterAwaited
<1>2. QED
  BY <1>1 DEF CallbackType

\* The caller takes an error and do returns.
LEMMA TakeError ==
  ASSUME Types, Rest, NEW r \in Reqs, queue # << >>, Head(queue).op \in {"headers", "body"},
         Head(queue).who = r, pc[r] \in {"stream", "body"}, pc[r] = "body" => Head(queue).op = "body",
         job.id = 0, EndJob, Return(r, "err"),
         UNCHANGED <<conn, reader, streamIdGen, doneCh, hpack, ctx, own, wireVars, pingVars>>
  PROVE  Rest'
<1>1. SameMix /\ queue' = Tail(queue) /\ job'.at = "start" /\ job'.id = 0
  BY DEF SameMix, EndJob, NoJob
<1>2. \A q \in Reqs : q # r => pc'[q] = pc[q]
  BY DEF Return, Types, PcType
<1>3. pc'[r] = "ret"
  BY DEF Return, Types, PcType
<1>4. \A c \in Later : Awaited(c)'
  <2>1. SUFFICES ASSUME NEW c \in Later PROVE Awaited(c)'
    OBVIOUS
  <2>2. Awaited(c) /\ (c.op = "body" => c.who # r)
    BY LaterAwaited, OthersLater, Zenon DEF Rest, Awaited
  <2>3. QED
    BY <1>1, <1>2, <1>3, <2>2, MixKept, MixFacts, Zenon DEF Awaited, pingVars
<1>5. QueueInv' /\ Pending' \subseteq Pending
  BY <1>1, <1>4, QueueShrinks, Zenon DEF Rest
<1>6. JobInv'
  BY <1>1 DEF JobInv
<1>7. ReqInv'
  BY <1>1, <1>5, ReturnReq DEF Rest, wireVars
<1>8. WireInv'
  BY <1>1, WireFrame DEF Rest, wireVars
<1>9. CountInv'
  BY <1>1, <1>2, <1>3, <1>5, WaitingFrame, CountFrame DEF Rest
<1>10. StreamInv'
  BY <1>1, ReturnStream DEF Rest, wireVars
<1>11. PingInv'
  BY <1>1, <1>5, PingFrame DEF Rest
<1>12. QED
  BY <1>5, <1>6, <1>7, <1>8, <1>9, <1>10, <1>11 DEF Rest

LEMMA TakeStreamStep == \A r \in Reqs : Types /\ Rest /\ TakeStream(r) => Rest'
\* The caller takes its stream.
<1>TakeOpened. ASSUME Types, Rest, NEW r \in Reqs, Sending("headers"), Head(queue).who = r, pc[r] = "stream", ~ job.err,
           EndJob, own' = [own EXCEPT ![r] = job.id],
           NEW l \in {"bodysched", "resp"}, pc' = [pc EXCEPT ![r] = l], l = "bodysched" => r \in Bodies,
           UNCHANGED <<result, clientStreams>>,
           UNCHANGED <<conn, reader, streamIdGen, doneCh, hpack, ctx, wireVars, pingVars>>
    PROVE  Rest'
  <2> USE <1>TakeOpened
  <2>1. SameMix /\ queue # << >> /\ queue' = Tail(queue) /\ job'.at = "start" /\ job'.id = 0
    BY DEF SameMix, EndJob, NoJob, Sending
  <2>2. /\ job.id # 0 /\ OpenedBy(job.id, r) /\ NoBody(job.id)
        /\ job.id \in clientStreams \cup doneCh \/ \E q \in Reqs : own[q] = job.id
    BY Zenon DEF Sending, Rest, JobInv, StreamInv
  <2>3. \A q \in Reqs : q # r => pc'[q] = pc[q] /\ own'[q] = own[q]
    BY DEF Types, PcType
  <2>4. pc'[r] = l /\ own'[r] = job.id
    BY DEF Types, PcType
  <2>5. r \notin Upgraded /\ own[r] = 0
    <3>1. Awaited(Head(queue))
      BY <2>1, LaterAwaited DEF Rest
    <3>2. QED
      BY <3>1 DEF Awaited, Sending
  <2>6. \A c \in Later : Awaited(c)'
    <3>1. SUFFICES ASSUME NEW c \in Later PROVE Awaited(c)'
      OBVIOUS
    <3>2. Awaited(c) /\ (c.op \in {"headers", "body"} => c.who # r)
      BY <2>1, LaterAwaited, OthersLater, Zenon DEF Rest, Awaited, Sending
    <3>3. QED
      BY <2>1, <2>3, <3>2, MixKept, MixFacts, Zenon DEF Awaited, pingVars
  <2>7. QueueInv' /\ Pending' \subseteq Pending
    BY <2>1, <2>6, QueueShrinks DEF Rest
  <2>8. JobInv'
    BY <2>1 DEF JobInv
  <2>9. ReqInv'
    <3>1. ASSUME NEW q \in Reqs, q # r
          PROVE  /\ OpenedBy(own[q], q)' = OpenedBy(own[q], q) /\ NoBody(own[q])' = NoBody(own[q])
                 /\ Callback("body", q) \in Pending' => Callback("body", q) \in Pending
      BY <2>3, <2>7, <3>1, Zenon DEF OpenedBy, NoBody, wireVars
    <3>2. OpenedBy(own[r], r)' /\ NoBody(own[r])'
      BY <2>2, <2>4, Zenon DEF OpenedBy, NoBody, wireVars
    <3>3. result'[r] # "resp"
      BY Zenon DEF Rest, ReqInv
    <3>4. ReqInv
      BY DEF Rest
    <3> DEFINE ReqOf(q) ==
      /\ pc[q] \in {"idle", "sem", "sched", "stream"} => own[q] = 0
      /\ HasStream(q) => own[q] # 0
      /\ pc[q] \in {"bodysched", "body"} => q \in Bodies
      /\ q \in Upgraded => pc[q] \in {"idle", "sem", "resp", "ret"}
      /\ own[q] # 0 => IF q \in Upgraded THEN own[q] = 1 ELSE OpenedBy(own[q], q)
      /\ result[q] = "resp" => own[q] \in doneCh /\ pc[q] = "ret"
      /\ pc[q] = "bodysched" \/ Callback("body", q) \in Pending => NoBody(own[q])
    <3>5. SUFFICES ASSUME NEW q \in Reqs PROVE ReqOf(q)'
      BY Zenon DEF ReqInv
    <3>6. CASE q = r
      BY <2>1, <2>2, <2>4, <2>5, <3>2, <3>3, <3>6, MixKept DEF HasStream
    <3>7. CASE q # r
      <4>1. ReqOf(q)
        BY <3>4, Zenon DEF ReqInv
      <4>2. QED
        BY <2>1, <2>3, <3>1, <3>7, <4>1, MixKept DEF HasStream
    <3>8. QED
      BY <3>6, <3>7
  <2>10. WireInv'
    BY <2>1, WireFrame DEF Rest, wireVars
  <2>11. CountInv'
    BY <2>1, <2>3, <2>4, <2>7, WaitingFrame, CountFrame DEF Rest
  <2>12. StreamInv'
    <3>1. \A q \in Reqs : q # r => HasStream(q)' = HasStream(q)
      BY <2>3 DEF HasStream
    <3>2. ASSUME NEW q \in Reqs, HasStream(q)' PROVE Held(q)'
      <4>1. \A p \in Reqs : own'[p] = own[p] \/ own[p] = 0
        BY <2>3, <2>5
      <4>2. CASE q = r
        BY <2>2, <2>3, <2>4, <2>5, <4>2 DEF Held, SharedStream
      <4>3. CASE q # r
        <5>1. Held(q) /\ own'[q] = own[q]
          BY <2>3, <3>1, <3>2, <4>3 DEF Rest, StreamInv
        <5>2. QED
          BY <4>1, <5>1, HeldKept
      <4>4. QED
        BY <4>2, <4>3
    <3>3. StreamsOwned'
      <4>1. SUFFICES ASSUME NEW id \in clientStreams
                     PROVE  \/ \E q \in InFlight' : own'[q] = id
                            \/ id = 1 /\ H2c'
        BY DEF StreamsOwned
      <4>2. \A q \in InFlight : q \in Reqs /\ q \in InFlight'
        BY <2>3, <2>4 DEF InFlight
      <4>3. r \in InFlight' /\ own'[r] = job.id
        BY <2>4 DEF InFlight
      <4>4. id # 0
        BY IdFacts DEF Types
      <4>5. \A q \in InFlight : own[q] = id => own'[q] = id
        BY <2>3, <2>5, <4>2, <4>4
      <4>6. QED
        BY <2>1, <4>2, <4>3, <4>5, MixKept, Zenon DEF Rest, StreamInv, StreamsOwned
    <3>4. QED
      BY <2>1, <3>2, <3>3, Zenon DEF Rest, StreamInv, wireVars
  <2>13. PingInv'
    BY <2>1, <2>7, PingFrame DEF Rest
  <2>14. QED
    BY <2>7, <2>8, <2>9, <2>10, <2>11, <2>12, <2>13 DEF Rest
<1> SUFFICES ASSUME Types, Rest, NEW r \in Reqs, TakeStream(r) PROVE Rest'
  OBVIOUS
<1>1. CASE job.err
  <2>1. job.id = 0
    BY <1>1 DEF Rest, JobInv
  <2>2. QED
    BY <1>1, <2>1, TakeError, Zenon DEF TakeStream, Sending
<1>2. CASE ~ job.err
  <2>1. PICK l \in {"bodysched", "resp"} : pc' = [pc EXCEPT ![r] = l] /\ (l = "bodysched" => r \in Bodies)
    BY <1>2 DEF TakeStream
  <2>2. QED
    BY <1>2, <2>1, <1>TakeOpened, Zenon DEF TakeStream
<1>3. QED
  BY <1>1, <1>2

LEMMA TakeBodyStep == ASSUME Types, Rest, NEW r \in Reqs, TakeBody(r) PROVE Rest'
<1>1. /\ SameMix /\ queue # << >> /\ Head(queue).op = "body" /\ Head(queue).who = r
      /\ queue' = Tail(queue) /\ job' = NoJob /\ job'.at = "start" /\ job'.id = 0
      /\ UNCHANGED <<conn, reader, streamIdGen, doneCh, hpack, ctx, own, wireVars, pingVars>>
  BY DEF SameMix, EndJob, NoJob, Sending, TakeBody
<1>2. job.id = 0 /\ pc[r] = "body"
  BY <1>1, HeadBody, Zenon DEF Rest, JobInv
<1>3. CASE job.err
  BY <1>1, <1>2, <1>3, TakeError, Zenon DEF TakeBody
<1>4. CASE ~ job.err
  <2>1. pc' = [pc EXCEPT ![r] = "resp"] /\ UNCHANGED <<result, clientStreams>>
    BY <1>4 DEF TakeBody
  <2>2. \A q \in Reqs : q # r => pc'[q] = pc[q]
    BY <2>1 DEF Types, PcType
  <2>3. pc'[r] = "resp"
    BY <2>1 DEF Types, PcType
  <2>4. \A c \in Later : Awaited(c)'
    <3>1. SUFFICES ASSUME NEW c \in Later PROVE Awaited(c)'
      OBVIOUS
    <3>2. Awaited(c) /\ (c.op \in {"headers", "body"} => c.who # r)
      BY <1>1, <1>2, LaterAwaited, OthersLater, Zenon DEF Rest, Awaited
    <3>3. QED
      BY <1>1, <2>2, <3>2, MixKept, MixFacts DEF Awaited, pingVars
  <2>5. QueueInv' /\ Pending' \subseteq Pending
    BY <1>1, <2>4, QueueShrinks DEF Rest
  <2>6. JobInv'
    BY <1>1 DEF JobInv
  <2>7. ReqInv'
    <3>1. \A q \in Reqs : /\ OpenedBy(own[q], q)' = OpenedBy(own[q], q) /\ NoBody(own[q])' = NoBody(own[q])
                          /\ Callback("body", q) \in Pending' => Callback("body", q) \in Pending
      BY <1>1, <2>5, Zenon DEF OpenedBy, NoBody, wireVars
    <3>2. ReqInv
      BY DEF Rest
    <3>3. QED
      BY <1>1, <1>2, <2>1, <2>2, <2>3, <3>1, <3>2, MixKept, MixFacts, Zenon DEF ReqInv, HasStream
  <2>8. WireInv'
    BY <1>1, WireFrame DEF Rest, wireVars
  <2>9. CountInv'
    BY <1>1, <2>2, <2>3, <2>5, WaitingFrame, CountFrame DEF Rest
  <2>10. StreamInv'
    <3>1. InFlight' = InFlight
      BY <1>2, <2>2, <2>3 DEF InFlight
    <3>2. \A q \in Reqs : HasStream(q)' = HasStream(q) /\ (Held(q) => Held(q)')
      BY <1>1, <1>2, <2>1, <2>2, <2>3, HeldKept DEF HasStream
    <3>3. StreamsOwned'
      BY <1>1, <1>2, <2>1, <3>1, MixKept, Zenon DEF Rest, StreamInv, StreamsOwned
    <3>4. QED
      BY <1>1, <2>1, <3>2, <3>3, Zenon DEF Rest, StreamInv, wireVars
  <2>11. PingInv'
    BY <1>1, <2>5, PingFrame DEF Rest
  <2>12. QED
    BY <2>5, <2>6, <2>7, <2>8, <2>9, <2>10, <2>11 DEF Rest
<1>5. QED
  BY <1>3, <1>4

\* A callback that is for no request ends.
LEMMA TakeOther ==
  ASSUME Types, Rest, Sending("ping") \/ Sending("ack"), EndJob,
         UNCHANGED <<conn, streamVars, ctx, reqVars, wireVars>>, reader = "goaway" => reader' = "goaway",
         \A c \in Later : Awaited(c)'
  PROVE  SameMix /\ Pending' \subseteq Pending /\ QueueInv' /\ JobInv' /\ ReqInv' /\ WireInv' /\ CountInv' /\ StreamInv'
<1>1. SameMix /\ queue # << >> /\ queue' = Tail(queue) /\ job'.at = "start" /\ job'.id = 0 /\ job.id = 0
  BY DEF SameMix, EndJob, NoJob, Sending, Rest, JobInv
<1>2. QueueInv' /\ Pending' \subseteq Pending
  BY <1>1, QueueShrinks DEF Rest
<1>3. JobInv'
  BY <1>1 DEF JobInv
<1>4. ReqInv'
  BY <1>1, <1>2, ReqFrame DEF Rest, reqVars, wireVars, streamVars
<1>5. WireInv'
  BY <1>1, WireFrame DEF Rest, wireVars, streamVars
<1>6. CountInv'
  BY <1>1, <1>2, WaitingFrame, CountFrame DEF Rest, reqVars, streamVars
<1>7. StreamInv'
  <2>1. InFlight' = InFlight
    BY DEF InFlight, reqVars
  <2>2. StreamsOwned'
    BY <1>1, <2>1, MixKept, Zenon DEF Rest, StreamInv, StreamsOwned, reqVars, streamVars
  <2>3. \A q \in Reqs : HasStream(q)' = HasStream(q) /\ (Held(q) => Held(q)')
    BY HeldKept DEF HasStream, reqVars, streamVars
  <2>4. QED
    BY <1>1, <2>2, <2>3 DEF Rest, StreamInv, reqVars, streamVars, wireVars
<1>8. QED
  BY <1>1, <1>2, <1>3, <1>4, <1>5, <1>6, <1>7

\* A call of isValid goes on with its key.
LEMMA PingMoves ==
  ASSUME Types, PingInv, SameMix, NEW p \in Pingers, ping[p].at # "idle",
         NEW l \in {"send", "sent", "wait", "follow", "delete"}, At(p, l), l = "send" => ping[p].tries < MaxTries,
         UNCHANGED <<pingRequests, nextRequest, answered, pings>>,
         \A c \in Pending' : c.op = "ping" => c \in Pending
  PROVE  PingInv'
<1>1. \A q \in Pingers : q # p => ping'[q] = ping[q]
  BY DEF At, Types
<1>2. ping'[p].at = l /\ ping'[p].key = ping[p].key /\ ping'[p].tries = ping[p].tries
  BY DEF At, Types, PingType
<1>3. \A q \in Pingers : /\ (ping'[q].at # "idle") = (ping[q].at # "idle")
                         /\ ping'[q].key = ping[q].key /\ ping'[q].tries = ping[q].tries
  BY <1>1, <1>2
<1>4. \A q \in Pingers : Callback("ping", q) \in Pending' => Callback("ping", q) \in Pending
  BY Zenon DEF Callback
<1>5. ASSUME NEW q \in Pingers PROVE PingOf(q)'
  <2>1. ping'[q].at = "send" => ping'[q].tries < MaxTries'
    BY <1>1, <1>2, MixKept, Zenon DEF PingInv, PingOf
  <2>2. QED
    BY <1>3, <1>4, <2>1, Zenon DEF PingInv, PingOf
<1>6. PingTable'
  <2>1. PingTable
    BY Zenon DEF PingInv
  <2>2. QED
    BY <1>3, <2>1, TableFrame, Zenon
<1>7. QED
  BY <1>3, <1>5, <1>6, Zenon DEF PingInv

LEMMA TakePingStep == ASSUME Types, Rest, NEW p \in Pingers, TakePing(p) PROVE Rest'
<1>1. /\ Sending("ping") /\ EndJob /\ queue # << >> /\ Head(queue).op = "ping" /\ Head(queue).who = p
      /\ UNCHANGED <<conn, reader, streamVars, ctx, reqVars, wireVars, pingRequests, nextRequest, answered, pings>>
      /\ SameMix
  BY Zenon DEF TakePing, Sending, SameMix
<1>2. PICK l \in {"wait", "delete"} : At(p, l)
  BY DEF TakePing
<1>3. ping[p].at = "sent"
  BY <1>1, HeadPing DEF Rest
<1>4. \A q \in Pingers : q # p => ping'[q] = ping[q]
  BY <1>2 DEF At, Types
<1>5. \A c \in Later : Awaited(c)'
  <2>1. SUFFICES ASSUME NEW c \in Later PROVE Awaited(c)'
    OBVIOUS
  <2>2. Awaited(c) /\ (c.op = "ping" => c.who # p)
    BY <1>1, LaterAwaited, OthersLater, Zenon DEF Rest
  <2>3. QED
    BY <1>1, <1>4, <2>2, MixKept DEF Awaited, reqVars
<1>6. Pending' \subseteq Pending /\ QueueInv' /\ JobInv' /\ ReqInv' /\ WireInv' /\ CountInv' /\ StreamInv'
  BY <1>1, <1>5, TakeOther
<1>7. PingInv'
  BY <1>1, <1>2, <1>3, <1>6, PingMoves DEF Rest
<1>8. QED
  BY <1>6, <1>7 DEF Rest

LEMMA TakeAckStep == ASSUME Types, Rest, TakeAck PROVE Rest'
<1>1. /\ Sending("ack") /\ EndJob /\ queue # << >> /\ Head(queue).op = "ack" /\ SameMix
      /\ UNCHANGED <<conn, streamVars, ctx, reqVars, wireVars, pingVars>>
  BY DEF TakeAck, Sending, SameMix
<1>2. reader = "waitack" /\ Head(queue).who = "reader"
  <2>1. Awaited(Head(queue))
    BY <1>1, LaterAwaited DEF Rest
  <2>2. QED
    BY <1>1, <2>1 DEF Awaited
<1>3. \A c \in Later : Awaited(c)'
  <2>1. SUFFICES ASSUME NEW c \in Later PROVE Awaited(c)'
    OBVIOUS
  <2>2. Awaited(c) /\ c.op # "ack"
    BY <1>1, <1>2, LaterAwaited, OthersLater, Zenon DEF Rest, Awaited
  <2>3. QED
    BY <1>1, <2>2, MixKept, Zenon DEF Awaited, reqVars, pingVars
<1>4. Pending' \subseteq Pending /\ QueueInv' /\ JobInv' /\ ReqInv' /\ WireInv' /\ CountInv' /\ StreamInv'
  BY <1>1, <1>2, <1>3, TakeOther
<1>5. PingInv'
  BY <1>1, <1>4, PingFrame DEF Rest
<1>6. QED
  BY <1>4, <1>5 DEF Rest

==============================================================================
