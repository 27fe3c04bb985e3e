------------------------- MODULE ClientConnRequests -------------------------
(***************************************************************************)
(* The inductive invariant of ClientConn is kept by the steps of the       *)
(* connection, by those of do and by the callbacks that write no frame of  *)
(* a stream.                                                               *)
(***************************************************************************)
EXTENDS ClientConnInvariant, TLAPS

USE SMTT(30), ZenonT(30)

-----------------------------------------------------------------------------
(* The queue of callbacks *)

\* The queue grows at its end and shrinks at its head.
Scheduled == {queue[i] : i \in 1 .. Len(queue)}
Later == {queue[i] : i \in 2 .. Len(queue)}

LEMMA QueueGrows ==
  ASSUME Types, QueueInv, NEW op \in {"headers", "body", "ping", "ack"},
         NEW who \in Reqs \cup Pingers \cup {"reader"}, TrySchedule(op, who), UNCHANGED job,
         Callback(op, who) \notin Scheduled,
         \A c \in Scheduled \cup {Callback(op, who)} : Awaited(c)'
  PROVE  QueueInv' /\ Pending' \subseteq Pending \cup {Callback(op, who)}
<1> DEFINE new == Callback(op, who)
<1>1. new \in CallbackType
  BY DEF Callback, CallbackType
<1>2. CASE UNCHANGED queue
  <2>1. Pending' = Pending
    BY <1>2 DEF Pending
  <2>2. \A i \in 1 .. Len(queue') : Awaited(queue[i])'
    BY <1>2 DEF Scheduled
  <2>3. QED
    BY <1>2, <2>1, <2>2 DEF QueueInv
<1>3. CASE queue' = Append(queue, new)
  <2>1. Pending' \subseteq Pending \cup {new}
    BY <1>1, <1>3, PendingAppend
  <2>2. /\ Len(queue) \in Nat /\ Len(queue') = Len(queue) + 1 /\ queue'[Len(queue) + 1] = new
        /\ \A i \in 1 .. Len(queue) : queue'[i] = queue[i]
    BY <1>1, <1>3, QueueAppend DEF Types
  <2>3. \A i \in 1 .. Len(queue') : queue'[i] \in Scheduled \cup {new}
    BY <2>2 DEF Scheduled
  <2>4. \A i \in 1 .. Len(queue') : Awaited(queue[i])'
    BY <2>3
  <2>5. \A i, j \in 1 .. Len(queue') : queue'[i] = queue'[j] => i = j
    <3>1. SUFFICES ASSUME NEW i \in 1 .. Len(queue'), NEW j \in 1 .. Len(queue'), queue'[i] = queue'[j]
                   PROVE  i = j
      OBVIOUS
    <3>2. CASE i \in 1 .. Len(queue) /\ j \in 1 .. Len(queue)
      BY <2>2, <3>1, <3>2 DEF QueueInv
    <3>3. CASE i = Len(queue) + 1 /\ j \in 1 .. Len(queue)
      BY <2>2, <3>1, <3>3 DEF Scheduled
    <3>4. CASE j = Len(queue) + 1 /\ i \in 1 .. Len(queue)
      BY <2>2, <3>1, <3>4 DEF Scheduled
    <3>5. QED
      BY <2>2, <3>2, <3>3, <3>4
  <2>6. QED
    BY <2>1, <2>4, <2>5 DEF QueueInv
<1>4. QED
  BY <1>2, <1>3 DEF TrySchedule, Callback

LEMMA QueueShrinks ==
  ASSUME Types, QueueInv, queue # << >>, queue' = Tail(queue), job'.at = "start",
         \A c \in Later : Awaited(c)'
  PROVE  QueueInv' /\ Pending' \subseteq Pending /\ Pending' \subseteq Later
<1>1. /\ Len(queue) \in Nat /\ Len(queue) >= 1 /\ Len(queue') = Len(queue) - 1
      /\ \A i \in 1 .. Len(queue') : queue'[i] = queue[i + 1]
  BY QueueTail DEF Types
<1>2. \A i \in 1 .. Len(queue') : queue'[i] \in Later
  BY <1>1 DEF Later
<1>3. \A i \in 1 .. Len(queue') : Awaited(queue[i])'
  BY <1>2
<1>4. \A i, j \in 1 .. Len(queue') : queue'[i] = queue'[j] => i = j
  BY <1>1 DEF QueueInv
<1>5. Pending' \subseteq Later
  BY <1>2 DEF Pending, Unwritten
<1>6. QED
  BY <1>3, <1>4, <1>5, PendingTail, Zenon DEF QueueInv

\* The callback at the head is none of the others, and the others are awaited.
LEMMA LaterAwaited ==
  ASSUME Types, QueueInv, queue # << >>
  PROVE  /\ \A c \in Later : Awaited(c) /\ c # Head(queue) /\ c \in CallbackType
         /\ \A c \in Scheduled : Awaited(c) /\ c \in CallbackType
         /\ Head(queue) \in Scheduled /\ Head(queue) \in CallbackType
         /\ Pending \subseteq Scheduled
<1>1. /\ Len(queue) \in Nat /\ Len(queue) >= 1 /\ Head(queue) = queue[1] /\ Head(queue) \in CallbackType
      /\ \A i \in 1 .. Len(queue) : queue[i] \in CallbackType
  BY QueueTail DEF Types
<1>2. QED
  BY <1>1 DEF QueueInv, Later, Scheduled, Pending

LEMMA ScheduledAwaited ==
  ASSUME Types, QueueInv
  PROVE  \A c \in Scheduled : Awaited(c) /\ c \in CallbackType
<1>1. \A i \in 1 .. Len(queue) : queue[i] \in CallbackType
  BY DEF Types
<1>2. QED
  BY <1>1 DEF QueueInv, Scheduled

\* A callback that is scheduled behind another one does not concern that one.
LEMMA JobGrows ==
  ASSUME Types, JobInv, NEW op \in {"headers", "body", "ping", "ack"},
         NEW who \in Reqs \cup Pingers \cup {"reader"}, TrySchedule(op, who), UNCHANGED <<job, wire>>
  PROVE  JobInv'
<1>1. Callback(op, who) \in CallbackType
  BY DEF Callback, CallbackType
<1>2. queue # << >> => queue' # << >> /\ Head(queue') = Head(queue)
  BY <1>1, QueueAppend DEF TrySchedule, Types, Callback
<1>3. job.id # 0 => queue # << >>
  BY DEF JobInv, Types, JobType, Unwritten
<1>4. QED
  BY <1>2, <1>3 DEF JobInv, OpenedBy, NoBody

-----------------------------------------------------------------------------
(* The steps *)

Rest == QueueInv /\ JobInv /\ ReqInv /\ WireInv /\ CountInv /\ StreamInv /\ PingInv

LEMMA QuietStep == ASSUME Types, Rest, Quiet PROVE Rest'
<1>1. SameMix /\ UNCHANGED <<serVars, streamVars, reqVars, wireVars, pingVars>>
  BY QuietConn, QuietFrame DEF SameMix
<1>2. Pending' = Pending
  BY <1>1, Zenon DEF Pending, serVars
<1>3. QueueInv'
  BY <1>1, QueueFrame, QuietFrame DEF Rest, serVars, reqVars, pingVars
<1>4. JobInv'
  BY <1>1, JobFrame DEF Rest, serVars, wireVars
<1>5. ReqInv'
  BY <1>1, <1>2, ReqFrame DEF Rest, reqVars, wireVars, streamVars
<1>6. WireInv'
  BY <1>1, WireFrame DEF Rest, wireVars, streamVars
<1>7. CountInv'
  BY <1>1, <1>2, WaitingFrame, CountFrame DEF Rest, reqVars, streamVars
<1>8. StreamInv'
  BY <1>1, QuietConn, QuietFrame, StreamFrame DEF Rest, serVars, reqVars, wireVars
<1>9. PingInv'
  BY <1>1, <1>2, PingFrame DEF Rest
<1>10. QED
  BY <1>3, <1>4, <1>5, <1>6, <1>7, <1>8, <1>9 DEF Rest

\* The reader's own callback.
LEMMA SendAckStep == ASSUME Types, Rest, SendAck PROVE Rest'
<1> DEFINE new == Callback("ack", "reader")
<1>1. SameMix /\ UNCHANGED <<conn, job, streamVars, ctx, reqVars, wireVars, pingVars>>
  BY DEF SendAck, SameMix
<1>2. new \notin Scheduled
  BY ScheduledAwaited DEF Rest, SendAck, Awaited, Callback
<1>3. \A c \in Scheduled \cup {new} : Awaited(c)'
  BY <1>1, ScheduledAwaited, MixKept DEF Rest, SendAck, Awaited, Callback, reqVars, pingVars
<1>4. QueueInv' /\ Pending' \subseteq Pending \cup {new}
  BY <1>1, <1>2, <1>3, QueueGrows DEF SendAck, Rest
<1>5. \A c \in Pending' : c.op # "ack" => c \in Pending
  BY <1>4 DEF Callback
<1>6. JobInv'
  BY <1>1, JobGrows DEF SendAck, Rest, wireVars
<1>7. ReqInv'
  BY <1>1, <1>5, ReqFrame DEF Rest, reqVars, wireVars, streamVars
<1>8. WireInv'
  BY <1>1, WireFrame DEF Rest, wireVars, streamVars
<1>9. CountInv'
  BY <1>1, <1>5, WaitingFrame, CountFrame DEF Rest, reqVars, streamVars
<1>10. StreamInv'
  BY <1>1, StreamFrame DEF Rest, SendAck, reqVars, wireVars
<1>11. PingInv'
  BY <1>1, <1>5, PingFrame DEF Rest
<1>12. QED
  BY <1>4, <1>6, <1>7, <1>8, <1>9, <1>10, <1>11 DEF Rest

LEMMA RunCancelledStep == ASSUME Types, Rest, RunCancelled PROVE Rest'
<1>1. SameMix /\ UNCHANGED <<conn, job, reader, streamVars, ctx, reqVars, wireVars, pingVars>>
  BY DEF RunCancelled, SameMix
<1>2. queue # << >> /\ job.at = "start"
  BY DEF RunCancelled
<1>3. \A c \in Later : Awaited(c)'
  BY <1>1, <1>2, LaterAwaited, MixKept DEF Rest, Awaited, reqVars, pingVars
<1>4. QueueInv' /\ Pending' \subseteq Pending
  BY <1>1, <1>2, <1>3, QueueShrinks DEF RunCancelled, Rest
<1>5. JobInv'
  BY <1>1, <1>2 DEF Rest, JobInv, Unwritten
<1>6. ReqInv'
  BY <1>1, <1>4, ReqFrame DEF Rest, reqVars, wireVars, streamVars
<1>7. WireInv'
  BY <1>1, WireFrame DEF Rest, wireVars, streamVars
<1>8. CountInv'
  BY <1>1, <1>4, WaitingFrame, CountFrame DEF Rest, reqVars, streamVars
<1>9. StreamInv'
  BY <1>1, StreamFrame DEF Rest, reqVars, wireVars
<1>10. PingInv'
  BY <1>1, <1>4, PingFrame DEF Rest
<1>11. QED
  BY <1>4, <1>5, <1>6, <1>7, <1>8, <1>9, <1>10 DEF Rest

-----------------------------------------------------------------------------
(* A stream has one request *)

LEMMA OneOpener ==
  ASSUME Types, WireInv, NEW id, NEW r, NEW q, OpenedBy(id, r), OpenedBy(id, q)
  PROVE  r = q
<1>1. PICK i \in 1 .. Len(wire) : wire[i].type = "HEADERS" /\ wire[i].id = id /\ wire[i].req = r
  BY DEF OpenedBy
<1>2. PICK j \in 1 .. Len(wire) : wire[j].type = "HEADERS" /\ wire[j].id = id /\ wire[j].req = q
  BY DEF OpenedBy
<1>3. wire[i].id \in Nat /\ wire[j].id \in Nat
  <2>1. wire[i] \in FrameType /\ wire[j] \in FrameType
    BY DEF Types
  <2>2. QED
    BY <2>1, IdFacts DEF FrameType
<1>4. ~(i < j) /\ ~(j < i)
  BY <1>1, <1>2, <1>3 DEF WireInv, WireProtocol
<1>5. QED
  BY <1>1, <1>2, <1>4

LEMMA NotUpgradedId == ASSUME WireInv, NEW id, NEW r, OpenedBy(id, r), H2c PROVE id # 1
  BY DEF WireInv, OpenedBy

LEMMA OwnDistinct ==
  ASSUME Types, ReqInv, WireInv, NEW r \in Reqs \ Upgraded, NEW q \in Reqs \ Upgraded, own[r] # 0, own[q] = own[r]
  PROVE  q = r
  BY OneOpener, Zenon DEF ReqInv

-----------------------------------------------------------------------------
(* do returns *)

LEMMA ReturnReq ==
  ASSUME Types, ReqInv, SameMix, NEW r \in Reqs, NEW x \in {"resp", "ctx", "err"}, Return(r, x),
         UNCHANGED <<own, wire, doneCh>>, x = "resp" => own[r] \in doneCh,
         \A c \in Pending' : c.op = "body" => c \in Pending
  PROVE  ReqInv'
<1>1. ASSUME NEW q \in Reqs
      PROVE  /\ OpenedBy(own[q], q)' = OpenedBy(own[q], q) /\ NoBody(own[q])' = NoBody(own[q])
             /\ Callback("body", q) \in Pending' => Callback("body", q) \in Pending
  BY Zenon DEF OpenedBy, NoBody, Callback
<1>2. \A q \in Reqs : q # r => pc'[q] = pc[q] /\ result'[q] = result[q]
  BY DEF Return, Types, PcType, ResultType
<1>3. pc'[r] = "ret" /\ result'[r] = x
  BY DEF Return, Types, PcType, ResultType
<1>4. QED
  BY <1>1, <1>2, <1>3, MixKept, Zenon DEF ReqInv, HasStream

\* The deferred delete takes the stream of this request out of the map; another request
\* with that stream shares it.
LEMMA ReturnStream ==
  ASSUME Types, ReqInv, StreamInv, SameMix,
         NEW r \in Reqs, NEW x \in {"resp", "ctx", "err"}, Return(r, x),
         UNCHANGED <<own, streamIdGen, doneCh, hpack, ended, early, reader, conn>>,
         job'.id = job.id, job'.at \in {job.at, "start"}
  PROVE  StreamInv'
<1>1. \A q \in Reqs : q # r => pc'[q] = pc[q]
  BY Zenon DEF Return, Types, PcType
<1>2. pc'[r] = "ret"
  BY DEF Return, Types, PcType
<1>3. clientStreams' = clientStreams \ {own[r]}
  BY DEF Return
<1>4. job'.at = "send" /\ job'.id # 0 =>
        job'.id \in clientStreams' \cup doneCh' \/ \E q \in Reqs : own'[q] = job'.id
  <2>1. SUFFICES ASSUME job.at = "send", job.id # 0
                 PROVE  job.id \in clientStreams' \cup doneCh \/ \E q \in Reqs : own[q] = job.id
    BY Zenon
  <2>2. job.id \in clientStreams \cup doneCh \/ \E q \in Reqs : own[q] = job.id
    BY <2>1, Zenon DEF StreamInv
  <2>3. QED
    BY <1>3, <2>2
<1>5. \A q \in Reqs : HasStream(q)' => q # r /\ HasStream(q)
  BY <1>1, <1>2 DEF HasStream
<1>6. \A q \in Reqs : HasStream(q)' => Held(q)'
  <2>1. SUFFICES ASSUME NEW q \in Reqs, HasStream(q), q # r
                 PROVE  Held(q)'
    BY <1>5
  <2>2. Held(q) /\ own[q] # 0
    BY <2>1, Zenon DEF ReqInv, StreamInv
  <2>3. CASE SharedStream(q)
    BY <2>3 DEF Held, SharedStream
  <2>4. CASE own[q] = own[r]
    BY <2>1, <2>2, <2>4 DEF Held, SharedStream
  <2>5. CASE own[q] \in clientStreams \cup doneCh /\ own[q] # own[r]
    BY <1>3, <2>5 DEF Held
  <2>6. QED
    BY <2>2, <2>3, <2>4, <2>5 DEF Held
<1>7. StreamsOwned'
  <2>1. SUFFICES ASSUME NEW id \in clientStreams'
                 PROVE  \/ \E q \in InFlight' : own'[q] = id
                        \/ job'.id = id
                        \/ id = 1 /\ H2c'
    BY DEF StreamsOwned
  <2>2. \A q \in InFlight : q # r => q \in InFlight'
    BY <1>1 DEF InFlight
  <2>3. id \in clientStreams /\ id # own[r]
    BY <1>3, <2>1
  <2>4. QED
    BY <2>2, <2>3, MixKept DEF StreamInv, StreamsOwned
<1>8. QED
  BY <1>3, <1>4, <1>6, <1>7, Zenon DEF StreamInv

LEMMA RequestStep == \A r \in Reqs : Types /\ Rest /\ (Refuse(r) \/ Do(r) \/ Acquire(r) \/ BuildFails(r) \/ ReturnCtx(r) \/ ReturnResponse(r)) => Rest'
\* A request that waits for the semaphore, its stream or its response may leave.
<1>ReturnStep. ASSUME Types, Rest, NEW r \in Reqs, NEW x \in {"resp", "ctx", "err"}, Return(r, x), pc[r] # "body",
           x = "resp" => own[r] \in doneCh,
           UNCHANGED <<conn, serVars, reader, streamIdGen, doneCh, hpack, ctx, own, wireVars, pingVars>>
    PROVE  Rest'
  <2> USE <1>ReturnStep
  <2>1. SameMix /\ Pending' = Pending
    BY DEF SameMix, Pending, serVars
  <2>2. \A q \in Reqs : q # r => pc'[q] = pc[q]
    BY DEF Return, Types, PcType
  <2>3. pc'[r] = "ret"
    BY DEF Return, Types, PcType
  <2>4. QueueInv'
    <3>1. \A c \in Scheduled : Awaited(c)'
      BY <2>1, <2>2, <2>3, ScheduledAwaited, MixKept, MixFacts, Zenon DEF Rest, Awaited, pingVars
    <3>2. QED
      BY <3>1 DEF QueueInv, Rest, Scheduled, serVars
  <2>5. JobInv'
    BY JobFrame DEF Rest, serVars, wireVars
  <2>6. ReqInv'
    BY <2>1, ReturnReq DEF Rest, wireVars
  <2>7. WireInv'
    BY <2>1, WireFrame DEF Rest, wireVars
  <2>8. CountInv'
    BY <2>1, <2>2, <2>3, WaitingFrame, CountFrame DEF Rest
  <2>9. StreamInv'
    <3>1. job'.id = job.id /\ job'.at \in {job.at, "start"}
      BY DEF serVars
    <3>2. QED
      BY <2>1, <3>1, ReturnStream DEF Rest, wireVars
  <2>10. PingInv'
    BY <2>1, PingFrame DEF Rest
  <2>11. QED
    BY <2>4, <2>5, <2>6, <2>7, <2>8, <2>9, <2>10 DEF Rest
<1>LeaveStep. ASSUME Types, Rest, NEW r \in Reqs, Refuse(r) \/ BuildFails(r) \/ ReturnCtx(r) \/ ReturnResponse(r)
    PROVE  Rest'
  <2> USE <1>LeaveStep
  <2>1. CASE Refuse(r)
    BY <2>1, <1>ReturnStep DEF Refuse
  <2>2. CASE ReturnCtx(r)
    BY <2>2, <1>ReturnStep DEF ReturnCtx
  <2>3. CASE ReturnResponse(r)
    BY <2>3, <1>ReturnStep, Zenon DEF ReturnResponse
  <2>4. CASE BuildFails(r)
    BY <2>4, <1>ReturnStep DEF BuildFails
  <2>5. QED
    BY <2>1, <2>2, <2>3, <2>4
\* Before it schedules anything a request moves without a stream.
<1>EnterStep. ASSUME Types, Rest, NEW r \in Reqs, NEW l \in {"sem", "sched"},
           pc[r] \in {"idle", "sem"}, pc' = [pc EXCEPT ![r] = l], l = "sched" => r \notin Upgraded,
           UNCHANGED <<conn, serVars, reader, streamVars, ctx, own, result, wireVars, pingVars>>
    PROVE  Rest'
  <2> USE <1>EnterStep
  <2>1. SameMix /\ Pending' = Pending
    BY DEF SameMix, Pending, serVars
  <2>2. \A q \in Reqs : q # r => pc'[q] = pc[q]
    BY DEF Types, PcType
  <2>3. pc'[r] = l
    BY DEF Types, PcType
  <2>4. QueueInv'
    <3>1. \A c \in Scheduled : Awaited(c)'
      BY <2>1, <2>2, <2>3, ScheduledAwaited, MixKept, MixFacts, Zenon DEF Rest, Awaited, pingVars
    <3>2. QED
      BY <3>1 DEF QueueInv, Rest, Scheduled, serVars
  <2>5. JobInv'
    BY JobFrame DEF Rest, serVars, wireVars
  <2>6. ReqInv'
    <3>1. \A q \in Reqs : OpenedBy(own[q], q)' = OpenedBy(own[q], q) /\ NoBody(own[q])' = NoBody(own[q])
      BY Zenon DEF OpenedBy, NoBody, wireVars
    <3>2. ReqInv
      BY DEF Rest
    <3>3. QED
      BY <2>1, <2>2, <2>3, <3>1, <3>2, MixKept DEF ReqInv, HasStream, streamVars
  <2>7. WireInv'
    BY <2>1, WireFrame DEF Rest, wireVars, streamVars
  <2>8. CountInv'
    BY <2>1, <2>2, <2>3, WaitingFrame, CountFrame DEF Rest, streamVars
  <2>9. StreamInv'
    <3>1. InFlight \subseteq InFlight'
      BY <2>2, <2>3 DEF InFlight
    <3>2. \A q \in Reqs : HasStream(q)' = HasStream(q)
      BY <2>2, <2>3 DEF HasStream
    <3>3. QED
      BY <2>1, <3>1, <3>2, StreamKept DEF Rest, serVars, wireVars
  <2>10. PingInv'
    BY <2>1, PingFrame DEF Rest
  <2>11. QED
    BY <2>4, <2>5, <2>6, <2>7, <2>8, <2>9, <2>10 DEF Rest
\* A request whose context asks for the upgrade finds stream 1 in the map.
<1>AcquireUpgraded. ASSUME Types, Rest, NEW r \in Reqs, r \in Upgraded, pc[r] = "sem", 1 \in clientStreams,
           pc' = [pc EXCEPT ![r] = "resp"], own' = [own EXCEPT ![r] = 1],
           UNCHANGED <<conn, serVars, reader, streamVars, ctx, result, wireVars, pingVars>>
    PROVE  Rest'
  <2> USE <1>AcquireUpgraded
  <2>1. SameMix /\ Pending' = Pending
    BY DEF SameMix, Pending, serVars
  <2>2. \A q \in Reqs : q # r => pc'[q] = pc[q] /\ own'[q] = own[q]
    BY DEF Types, PcType
  <2>3. pc'[r] = "resp" /\ own'[r] = 1
    BY DEF Types, PcType
  <2>4. QueueInv'
    <3>1. \A c \in Scheduled : Awaited(c)'
      BY <2>1, <2>2, <2>3, ScheduledAwaited, MixKept, MixFacts, Zenon DEF Rest, Awaited, pingVars
    <3>2. QED
      BY <3>1 DEF QueueInv, Rest, Scheduled, serVars
  <2>5. JobInv'
    BY JobFrame DEF Rest, serVars, wireVars
  <2>6. ReqInv'
    <3>1. \A q \in Reqs : q # r => OpenedBy(own[q], q)' = OpenedBy(own[q], q) /\ NoBody(own[q])' = NoBody(own[q])
      BY <2>2, Zenon DEF OpenedBy, NoBody, wireVars
    <3>2. Callback("body", r) \notin Pending
      BY ScheduledAwaited DEF Rest, Awaited, Callback, Pending, Scheduled
    <3>3. ReqInv
      BY DEF Rest
    <3>4. QED
      BY <2>1, <2>2, <2>3, <3>1, <3>2, <3>3, MixKept, MixFacts DEF ReqInv, HasStream, streamVars
  <2>7. WireInv'
    BY <2>1, WireFrame DEF Rest, wireVars, streamVars
  <2>8. CountInv'
    BY <2>1, <2>2, <2>3, WaitingFrame, CountFrame DEF Rest, streamVars
  <2>9. StreamInv'
    <3>1. \A q \in InFlight : q # r /\ q \in InFlight'
      BY <2>2, <2>3 DEF InFlight
    <3>2. \A q \in Reqs : q # r => HasStream(q)' = HasStream(q)
      BY <2>2 DEF HasStream
    <3>3. \A q \in InFlight : q \in InFlight' /\ own'[q] = own[q]
      BY <2>2, <3>1, Zenon DEF InFlight
    <3>4. \A q \in Reqs : HasStream(q)' => (HasStream(q) /\ own'[q] = own[q]) \/ own'[q] \in clientStreams
      BY <2>2, <2>3, <3>2
    <3>5. \A q \in Reqs : own'[q] = own[q] \/ own[q] = 0
      BY <2>2, Zenon DEF Rest, ReqInv
    <3>6. QED
      BY <2>1, <3>3, <3>4, <3>5, StreamKept DEF Rest, serVars, wireVars
  <2>10. PingInv'
    BY <2>1, PingFrame DEF Rest
  <2>11. QED
    BY <2>4, <2>5, <2>6, <2>7, <2>8, <2>9, <2>10 DEF Rest
<1>AcquireStep. ASSUME Types, Rest, NEW r \in Reqs, Acquire(r) PROVE Rest'
  <2> USE <1>AcquireStep
  <2>1. CASE r \notin Upgraded
    BY <2>1, <1>EnterStep DEF Acquire, streamVars
  <2>2. CASE r \in Upgraded /\ 1 \in clientStreams
    BY <2>2, <1>AcquireUpgraded DEF Acquire, streamVars
  <2>3. CASE r \in Upgraded /\ 1 \notin clientStreams
    BY <2>3, <1>ReturnStep DEF Acquire
  <2>4. QED
    BY <2>1, <2>2, <2>3
<1>DoStep. ASSUME Types, Rest, NEW r \in Reqs, Do(r) PROVE Rest'
  BY <1>DoStep, <1>EnterStep, Zenon DEF Do
<1> SUFFICES ASSUME Types, Rest, NEW r \in Reqs,
                Refuse(r) \/ Do(r) \/ Acquire(r) \/ BuildFails(r) \/ ReturnCtx(r) \/ ReturnResponse(r)
         PROVE  Rest'
  OBVIOUS
<1> QED
  BY <1>LeaveStep, <1>DoStep, <1>AcquireStep

\* writeHeaders and writeBody.
LEMMA ScheduleStep == ASSUME Types, Rest, NEW r \in Reqs, Schedule(r) PROVE Rest'
<1>0. UNCHANGED <<conn, job, reader, streamVars, ctx, own, result, wireVars, pingVars>> /\ ReqInv
  BY DEF Schedule, Rest
<1>1. PICK op \in {"headers", "body"} :
        /\ TrySchedule(op, r)
        /\ op = "headers" => pc[r] = "sched" /\ pc' = [pc EXCEPT ![r] = "stream"]
        /\ op = "body" => pc[r] = "bodysched" /\ pc' = [pc EXCEPT ![r] = "body"]
  BY DEF Schedule
<1> DEFINE new == Callback(op, r)
<1>2. SameMix
  BY <1>0 DEF SameMix
<1>3. \A q \in Reqs : q # r => pc'[q] = pc[q]
  BY <1>1 DEF Types, PcType
<1>4. (op = "headers" => pc'[r] = "stream") /\ (op = "body" => pc'[r] = "body")
  BY <1>1 DEF Types, PcType
<1>5. (op = "headers" => r \notin Upgraded /\ own[r] = 0) /\ (op = "body" => r \in Bodies /\ NoBody(own[r]))
  BY <1>0, <1>1, Zenon DEF ReqInv
<1>6. new \notin Scheduled
  BY <1>1, ScheduledAwaited, Zenon DEF Rest, Awaited, Callback
<1>7. \A c \in Scheduled \cup {new} : Awaited(c)'
  <2>1. Awaited(new)'
    BY <1>0, <1>2, <1>4, <1>5, MixKept, Zenon DEF Awaited, Callback
  <2>2. \A c \in Scheduled : Awaited(c)'
    BY <1>0, <1>1, <1>2, <1>3, ScheduledAwaited, MixKept, MixFacts, Zenon DEF Rest, Awaited, pingVars
  <2>3. QED
    BY <2>1, <2>2
<1>8. QueueInv' /\ Pending' \subseteq Pending \cup {new}
  BY <1>0, <1>1, <1>6, <1>7, QueueGrows DEF Rest
<1>9. JobInv'
  BY <1>0, <1>1, JobGrows DEF Rest, wireVars
<1>10. ReqInv'
  <2>1. \A q \in Reqs : OpenedBy(own[q], q)' = OpenedBy(own[q], q) /\ NoBody(own[q])' = NoBody(own[q])
    BY <1>0, Zenon DEF OpenedBy, NoBody, wireVars
  <2>2. \A q \in Reqs : Callback("body", q) \in Pending' =>
          Callback("body", q) \in Pending \/ (q = r /\ op = "body")
    BY <1>8 DEF Callback
  <2>3. QED
    BY <1>0, <1>1, <1>2, <1>3, <1>4, <1>5, <2>1, <2>2, MixKept, Zenon DEF ReqInv, HasStream, streamVars
<1>11. WireInv'
  BY <1>0, <1>2, WireFrame DEF Rest, wireVars, streamVars
<1>12. CountInv'
  <2>1. \A c \in Pending' : c.op = "headers" => c \in Pending \/ pc[c.who] = "sched"
    BY <1>1, <1>8 DEF Callback
  <2>2. Waiting' \subseteq Waiting
    BY <1>2, <1>3, <1>4, <2>1, WaitingFrame, Zenon
  <2>3. QED
    BY <1>0, <2>2, CountFrame DEF Rest, streamVars
<1>13. StreamInv'
  <2>1. InFlight' = InFlight
    BY <1>1, <1>3, <1>4 DEF InFlight
  <2>2. \A q \in Reqs : HasStream(q)' = HasStream(q)
    BY <1>1, <1>3, <1>4 DEF HasStream
  <2>3. QED
    BY <1>0, <1>2, <2>1, <2>2, StreamKept DEF Rest, wireVars
<1>14. PingInv'
  <2>1. \A c \in Pending' : c.op = "ping" => c \in Pending
    BY <1>8 DEF Callback
  <2>2. QED
    BY <1>0, <1>2, <2>1, PingFrame DEF Rest
<1>15. QED
  BY <1>8, <1>9, <1>10, <1>11, <1>12, <1>13, <1>14 DEF Rest

-----------------------------------------------------------------------------
(* Callbacks write *)

LEMMA WireGrows ==
  ASSUME Types, NEW f \in FrameType, wire' = Append(wire, f)
  PROVE  /\ \A id, r : OpenedBy(id, r) => OpenedBy(id, r)'
         /\ \A id : NoBody(id) /\ (f.id # id \/ f.type = "HEADERS") => NoBody(id)'
         /\ f.type = "HEADERS" => OpenedBy(f.id, f.req)'
<1>1. /\ Len(wire) \in Nat /\ Len(wire') = Len(wire) + 1 /\ wire'[Len(wire) + 1] = f
      /\ \A i \in 1 .. Len(wire) : wire'[i] = wire[i]
  BY WireAppend, Zenon DEF Types
<1>2. \A id, r : OpenedBy(id, r) => OpenedBy(id, r)'
  BY <1>1 DEF OpenedBy
<1>3. \A id : NoBody(id) /\ (f.id # id \/ f.type = "HEADERS") => NoBody(id)'
  BY <1>1 DEF NoBody
<1>4. f.type = "HEADERS" => OpenedBy(f.id, f.req)'
  BY <1>1 DEF OpenedBy
<1>5. QED
  BY <1>2, <1>3, <1>4

\* A frame may be written if it opens a stream with a larger id than any before, or is
\* the body of a stream that was opened and not ended.
LEMMA WireProtocolGrows ==
  ASSUME Types, WireProtocol, NEW f \in FrameType, wire' = Append(wire, f),
         f.type = "HEADERS" => \A i \in 1 .. Len(wire) : wire[i].id < f.id,
         f.type = "DATA" => \E h \in 1 .. Len(wire) : wire[h].type = "HEADERS" /\ wire[h].id = f.id,
         \A i \in 1 .. Len(wire) : wire[i].id = f.id => ~ wire[i].end
  PROVE  WireProtocol'
<1>1. /\ Len(wire) \in Nat /\ Len(wire') = Len(wire) + 1 /\ wire'[Len(wire) + 1] = f
      /\ \A i \in 1 .. Len(wire) : wire'[i] = wire[i]
  BY WireAppend DEF Types
<1>2. \A h \in Headers : h \in Headers' /\ h \in 1 .. Len(wire)
  BY <1>1 DEF Headers
<1>3. SUFFICES ASSUME NEW i \in 1 .. Len(wire'), NEW j \in 1 .. Len(wire'), i < j
               PROVE  /\ wire'[j].type = "HEADERS" => wire'[i].id < wire'[j].id
                      /\ wire'[i].id = wire'[j].id => ~ wire'[i].end
                      /\ wire'[j].type = "DATA" => \E h \in Headers' : h < j /\ wire'[h].id = wire'[j].id
  BY Zenon DEF WireProtocol
<1>4. CASE j \in 1 .. Len(wire)
  <2>1. i \in 1 .. Len(wire) /\ wire'[i] = wire[i] /\ wire'[j] = wire[j]
    BY <1>1, <1>3, <1>4
  <2>2. ASSUME wire[j].type = "DATA"
        PROVE  \E h \in Headers' : h < j /\ wire'[h].id = wire[j].id
    <3>1. PICK h \in Headers : h < j /\ wire[h].id = wire[j].id
      BY <1>3, <1>4, <2>1, <2>2 DEF WireProtocol
    <3>2. QED
      BY <1>1, <1>2, <3>1
  <2>3. /\ wire[j].type = "HEADERS" => wire[i].id < wire[j].id
        /\ wire[i].id = wire[j].id => ~ wire[i].end
    BY <1>3, <1>4, <2>1 DEF WireProtocol
  <2>4. QED
    BY <2>1, <2>2, <2>3, Zenon
<1>5. CASE j = Len(wire) + 1
  <2>1. i \in 1 .. Len(wire) /\ wire'[i] = wire[i] /\ wire'[j] = f
    BY <1>1, <1>3, <1>5
  <2>2. ASSUME f.type = "DATA"
        PROVE  \E h \in Headers' : h < j /\ wire'[h].id = f.id
    <3>1. PICK h \in 1 .. Len(wire) : wire[h].type = "HEADERS" /\ wire[h].id = f.id
      BY <2>2
    <3>2. h < j /\ wire'[h] = wire[h] /\ h \in Headers
      BY <1>1, <1>5, <3>1 DEF Headers
    <3>3. QED
      BY <1>2, <3>1, <3>2
  <2>3. /\ f.type = "HEADERS" => wire[i].id < f.id
        /\ wire[i].id = f.id => ~ wire[i].end
    BY <2>1
  <2>4. QED
    BY <2>1, <2>2, <2>3, Zenon
<1>6. j \in 1 .. Len(wire) \/ j = Len(wire) + 1
  BY <1>1
<1>7. QED
  BY <1>4, <1>5, <1>6, Zenon

\* The stream is in the map before its request knows of it.
LEMMA RunStoreStep == ASSUME Types, Rest, RunStore PROVE Rest'
<1>1. /\ UNCHANGED <<conn, queue, reader, streamIdGen, doneCh, hpack, ctx, reqVars, wireVars, pingVars>>
      /\ SameMix /\ job.at = "store" /\ clientStreams' = clientStreams \cup {job.id}
  BY DEF RunStore, SameMix
<1>2. job'.at = "send" /\ job'.id = job.id /\ job'.err = job.err
  BY DEF RunStore, Types, JobType
<1>3. Pending' = Pending
  BY <1>1, <1>2, Zenon DEF Pending, Unwritten
<1>4. /\ queue # << >> /\ job.id # 0 /\ Head(queue).op = "headers" /\ ~ job.err
      /\ OpenedBy(job.id, Head(queue).who) /\ NoBody(job.id)
  BY <1>1 DEF Rest, JobInv
<1>5. QueueInv'
  BY <1>1, QueueFrame DEF Rest, reqVars, pingVars
<1>6. JobInv'
  <2>1. OpenedBy(job.id, Head(queue).who)' /\ NoBody(job.id)'
    BY <1>1, <1>2, <1>4 DEF OpenedBy, NoBody, wireVars
  <2>2. QED
    BY <1>1, <1>2, <1>4, <2>1 DEF JobInv, Unwritten
<1>7. ReqInv'
  BY <1>1, <1>3, ReqFrame DEF Rest, reqVars, wireVars
<1>8. WireInv'
  BY <1>1, WireFrame DEF Rest, wireVars
<1>9. CountInv'
  BY <1>1, <1>3, WaitingFrame, CountFrame DEF Rest, reqVars
<1>10. StreamInv'
  <2>1. job.id < streamIdGen
    BY <1>4, Zenon DEF Rest, WireInv, OpenedBy
  <2>2. StreamsOwned'
    <3>1. InFlight' = InFlight
      BY <1>1 DEF InFlight, reqVars
    <3>2. QED
      BY <1>1, <1>2, <3>1, MixKept DEF Rest, StreamInv, StreamsOwned, reqVars
  <2>3. \A q \in Reqs : HasStream(q)' = HasStream(q) /\ (Held(q) => Held(q)')
    BY <1>1, HeldKept DEF HasStream, reqVars
  <2>4. QED
    BY <1>1, <1>2, <2>1, <2>2, <2>3, Zenon DEF Rest, StreamInv, reqVars, wireVars
<1>11. PingInv'
  BY <1>1, <1>3, PingFrame DEF Rest
<1>12. QED
  BY <1>5, <1>6, <1>7, <1>8, <1>9, <1>10, <1>11 DEF Rest

\* A callback other than that of writeHeaders, up to the answer it hands over.
LEMMA RunOther ==
  ASSUME Types, Rest, queue # << >>, job.at \in Unwritten, Head(queue).op # "headers",
         NEW e, job' = [at |-> "send", id |-> 0, err |-> e],
         UNCHANGED <<conn, queue, reader, streamVars, ctx, reqVars, ended, early>>, UNCHANGED ping
  PROVE  /\ SameMix /\ Head(queue) \in Pending /\ Pending' \subseteq Pending \ {Head(queue)}
         /\ QueueInv' /\ JobInv' /\ CountInv' /\ StreamInv'
<1>1. SameMix /\ job'.at = "send" /\ job'.id = 0 /\ job.id = 0
  BY DEF SameMix, Rest, JobInv
<1>2. Head(queue) \in Pending /\ Pending' \subseteq Pending \ {Head(queue)}
  BY <1>1, PendingRun DEF Rest, Unwritten
<1>3. QueueInv'
  BY <1>1, QueueFrame DEF Rest, reqVars
<1>4. JobInv'
  BY <1>1 DEF JobInv
<1>5. CountInv'
  BY <1>1, <1>2, WaitingFrame, CountFrame DEF Rest, reqVars, streamVars
<1>6. StreamInv'
  <2>1. InFlight' = InFlight
    BY DEF InFlight, reqVars
  <2>2. StreamsOwned'
    BY <1>1, <2>1, MixKept DEF Rest, StreamInv, StreamsOwned, reqVars, streamVars
  <2>3. \A q \in Reqs : HasStream(q)' = HasStream(q) /\ (Held(q) => Held(q)')
    BY HeldKept DEF HasStream, reqVars, streamVars
  <2>4. QED
    BY <1>1, <2>2, <2>3, Zenon DEF Rest, StreamInv, reqVars, streamVars
<1>7. QED
  BY <1>1, <1>2, <1>3, <1>4, <1>5, <1>6

\* A PING is one of the tries of its call.
LEMMA RunPingStep == ASSUME Types, Rest, RunPing PROVE Rest'
<1>1. /\ UNCHANGED <<conn, queue, reader, streamVars, ctx, reqVars, wireVars, ping, pingRequests,
                    nextRequest, answered>>
      /\ UNCHANGED <<ended, early>> /\ UNCHANGED ping
      /\ queue # << >> /\ job.at \in Unwritten /\ Head(queue).op = "ping"
  BY Zenon DEF RunPing, Running, wireVars, Unwritten
<1>2. PICK e : job' = [at |-> "send", id |-> 0, err |-> e]
  BY Zenon DEF RunPing
<1>3. /\ SameMix /\ Head(queue) \in Pending /\ Pending' \subseteq Pending \ {Head(queue)}
      /\ QueueInv' /\ JobInv' /\ CountInv' /\ StreamInv'
  BY <1>1, <1>2, RunOther
<1>4. ReqInv' /\ WireInv'
  BY <1>1, <1>3, ReqFrame, WireFrame DEF Rest, reqVars, streamVars, wireVars
<1>5. PICK p \in Pingers : p = Head(queue).who /\ ping[p].at = "sent" /\ Head(queue) = Callback("ping", p)
  <2>1. QueueInv
    BY DEF Rest
  <2>2. Head(queue).who \in Pingers /\ ping[Head(queue).who].at = "sent" /\ Head(queue) \in CallbackType
    BY <1>1, <2>1, HeadPing, LaterAwaited
  <2>3. QED
    BY <1>1, <2>2 DEF Callback, CallbackType
<1>6. PingInv'
  <2>1. CASE UNCHANGED pings
    BY <1>1, <1>3, <2>1, PingFrame DEF Rest, pingVars
  <2>2. CASE pings' = [pings EXCEPT ![ping[p].key] = @ + 1]
    <3>1. ping[p].key \in Keys /\ ping[p].key < nextRequest /\ pings[ping[p].key] < ping[p].tries
      BY <1>3, <1>5, Zenon DEF Rest, PingInv, PingOf
    <3>2. pings[ping[p].key] \in Nat /\ ping[p].tries \in Nat /\ nextRequest \in Nat
      BY <3>1, PingTypes, Zenon
    <3>3. /\ pings'[ping[p].key] = pings[ping[p].key] + 1
          /\ \A k \in Keys : k # ping[p].key => pings'[k] = pings[k]
      BY <2>2, <3>1 DEF Types
    <3>4. \A q \in Pingers : Callback("ping", q) \in Pending' => q # p /\ Callback("ping", q) \in Pending
      BY <1>3, <1>5
    <3>5. ASSUME NEW q \in Pingers PROVE PingOf(q)'
      <4>1. CASE q = p
        <5>1. pings'[ping[p].key] <= ping[p].tries
          BY <3>1, <3>2, <3>3
        <5>2. QED
          BY <1>1, <1>5, <3>1, <3>4, <4>1, <5>1, Zenon DEF Rest, PingInv, PingOf
      <4>2. CASE q # p
        <5>1. ping[q].at # "idle" => ping[q].key # ping[p].key
          BY <1>5, <4>2, Zenon DEF Rest, PingInv, PingOf
        <5>2. ping[q].at # "idle" => pings'[ping[q].key] = pings[ping[q].key]
          BY <3>3, <5>1, Zenon DEF Rest, PingInv, PingOf
        <5>3. Callback("ping", q) \in Pending => ping[q].at # "idle"
          BY ScheduledAwaited DEF Rest, Awaited, Callback, Pending, Scheduled
        <5>4. QED
          BY <1>1, <1>3, <3>4, <5>2, <5>3, MixKept, Zenon DEF Rest, PingInv, PingOf
      <4>3. QED
        BY <4>1, <4>2, Zenon
    <3>6. \A k \in Keys : k >= nextRequest => pings'[k] = 0
      <4>1. \A k \in Keys : k >= nextRequest => k # ping[p].key
        BY <3>1, KeyOrder, Zenon
      <4>2. QED
        BY <3>3, <4>1, Zenon DEF Rest, PingInv, PingOf
    <3>7. PingTable'
      <4>1. PingTable
        BY Zenon DEF Rest, PingInv
      <4>2. QED
        BY <1>1, <4>1, TableFrame, Zenon
    <3>8. QED
      BY <1>1, <3>5, <3>6, <3>7, KeysApart DEF Rest
  <2>3. QED
    BY <1>5, <2>1, <2>2 DEF RunPing
<1>7. QED
  BY <1>3, <1>4, <1>6, Zenon DEF Rest

LEMMA RunAckStep == ASSUME Types, Rest, RunAck PROVE Rest'
<1>1. /\ UNCHANGED <<conn, queue, reader, streamVars, ctx, reqVars, wireVars, pingVars>>
      /\ UNCHANGED <<ended, early>> /\ UNCHANGED ping
      /\ queue # << >> /\ job.at \in Unwritten /\ Head(queue).op = "ack"
  BY Zenon DEF RunAck, Running, wireVars, pingVars, Unwritten
<1>2. PICK e : job' = [at |-> "send", id |-> 0, err |-> e]
  BY DEF RunAck
<1>3. /\ SameMix /\ Pending' \subseteq Pending \ {Head(queue)}
      /\ QueueInv' /\ JobInv' /\ CountInv' /\ StreamInv'
  BY <1>1, <1>2, RunOther
<1>4. ReqInv' /\ WireInv' /\ PingInv'
  BY <1>1, <1>3, ReqFrame, WireFrame, PingFrame DEF Rest, reqVars, streamVars, wireVars
<1>5. QED
  BY <1>3, <1>4 DEF Rest

\* A callback that starts has not written; the context of a body's caller may be done.
LEMMA RunCheckStep == ASSUME Types, Rest, RunCheck PROVE Rest'
<1>1. /\ UNCHANGED <<conn, queue, reader, streamVars, ctx, reqVars, wireVars, pingVars>>
      /\ UNCHANGED <<ended, early>> /\ UNCHANGED ping
      /\ queue # << >> /\ job.at = "start" /\ job.at \in Unwritten
  BY Zenon DEF RunCheck, wireVars, pingVars, Unwritten
<1>2. CASE Head(queue).op = "body" /\ Head(queue).who \in ctx
  <2>1. job' = [at |-> "send", id |-> 0, err |-> TRUE]
    BY <1>2 DEF RunCheck
  <2>2. /\ SameMix /\ Pending' \subseteq Pending \ {Head(queue)}
        /\ QueueInv' /\ JobInv' /\ CountInv' /\ StreamInv'
    BY <1>1, <1>2, <2>1, RunOther
  <2>3. ReqInv' /\ WireInv' /\ PingInv'
    BY <1>1, <2>2, ReqFrame, WireFrame, PingFrame DEF Rest, reqVars, streamVars, wireVars
  <2>4. QED
    BY <2>2, <2>3 DEF Rest
<1>3. CASE ~ (Head(queue).op = "body" /\ Head(queue).who \in ctx)
  <2>1. job' = [job EXCEPT !.at = "run"]
    BY <1>3 DEF RunCheck
  <2>2. job'.at = "run" /\ job'.id = job.id /\ job.id = 0
    BY <1>1, <2>1 DEF Types, JobType, Rest, JobInv
  <2>3. SameMix /\ Pending' = Pending
    BY <1>1, <2>2, Zenon DEF SameMix, Pending, Unwritten
  <2>4. QueueInv'
    BY <1>1, <2>3, QueueFrame DEF Rest, reqVars
  <2>5. JobInv'
    BY <1>1, <2>2 DEF JobInv
  <2>6. ReqInv' /\ WireInv' /\ PingInv'
    BY <1>1, <2>3, ReqFrame, WireFrame, PingFrame DEF Rest, reqVars, streamVars, wireVars
  <2>7. CountInv'
    BY <1>1, <2>3, WaitingFrame, CountFrame DEF Rest, reqVars, streamVars
  <2>8. StreamInv'
    <3>1. InFlight' = InFlight
      BY <1>1 DEF InFlight, reqVars
    <3>2. StreamsOwned'
      BY <1>1, <2>2, <2>3, <3>1, MixKept DEF Rest, StreamInv, StreamsOwned, reqVars, streamVars
    <3>3. \A q \in Reqs : HasStream(q)' = HasStream(q) /\ (Held(q) => Held(q)')
      BY <1>1, HeldKept DEF HasStream, reqVars, streamVars
    <3>4. QED
      BY <1>1, <2>2, <3>2, <3>3, Zenon DEF Rest, StreamInv, reqVars, streamVars
  <2>9. QED
    BY <2>4, <2>5, <2>6, <2>7, <2>8 DEF Rest
<1>4. QED
  BY <1>2, <1>3

==============================================================================
