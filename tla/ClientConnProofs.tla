-------------------------- MODULE ClientConnProofs ---------------------------
(***************************************************************************)
(* Proofs about ClientConn, for any numbers of requests and pingers and    *)
(* any number of SETTINGS frames and calls of isValid.                     *)
(***************************************************************************)
EXTENDS ClientConnStreams, TLAPS

USE SMTT(30), ZenonT(30)

-----------------------------------------------------------------------------
(* isValid *)

\* A step of a pinger that leaves the serializer alone concerns no request.
LEMMA PingOnly ==
  ASSUME Types, Rest, NEW p \in Pingers, ping[p].at # "sent", \A q \in Pingers : q # p => ping'[q] = ping[q],
         UNCHANGED <<conn, serVars, reader, streamVars, reqVars, wireVars>>
  PROVE  SameMix /\ Pending' = Pending
         /\ QueueInv' /\ JobInv' /\ ReqInv' /\ WireInv' /\ CountInv' /\ StreamInv'
<1>1. SameMix /\ Pending' = Pending
  BY DEF SameMix, Pending, serVars
<1>2. QueueInv'
  <2>1. \A c \in Scheduled : Awaited(c)'
    BY <1>1, ScheduledAwaited, MixKept, Zenon DEF Rest, Awaited, reqVars
  <2>2. QED
    BY <2>1 DEF QueueInv, Rest, Scheduled, serVars
<1>3. JobInv'
  BY JobFrame DEF Rest, serVars, wireVars
<1>4. ReqInv'
  BY <1>1, ReqFrame, Zenon DEF Rest, reqVars, wireVars, streamVars
<1>5. WireInv'
  BY <1>1, WireFrame DEF Rest, wireVars, streamVars
<1>6. CountInv'
  BY <1>1, WaitingFrame, CountFrame DEF Rest, reqVars, streamVars
<1>7. StreamInv'
  BY <1>1, StreamFrame DEF Rest, reqVars, wireVars, serVars
<1>8. QED
  BY <1>1, <1>2, <1>3, <1>4, <1>5, <1>6, <1>7

\* A pinger whose callback is not in the queue.
LEMMA NotScheduled ==
  ASSUME Types, QueueInv, NEW p \in Pingers, ping[p].at # "sent"
  PROVE  Callback("ping", p) \notin Scheduled /\ Callback("ping", p) \notin Pending
<1>1. Callback("ping", p) \notin Scheduled
  BY ScheduledAwaited DEF Awaited, Callback
<1>2. QED
  BY <1>1 DEF Scheduled, Pending

\* A new call has a key of its own.
LEMMA IsValidStep == ASSUME Types, Rest, NEW p \in Pingers \cap conn.mix.callers, IsValid(p) PROVE Rest'
<1> DEFINE n == nextRequest
<1>1. /\ ping[p].at = "idle" /\ n < MaxKeys /\ nextRequest' = n + 1 /\ pingRequests' = pingRequests \cup {n}
      /\ UNCHANGED <<conn, serVars, reader, streamVars, ctx, reqVars, wireVars, answered, pings>>
  BY Zenon DEF IsValid
<1>2. PICK l \in {"send", "follow"} : ping' = [ping EXCEPT ![p] = [at |-> l, key |-> n, tries |-> 0]]
  BY Zenon DEF IsValid
<1>3. /\ \A q \in Pingers : q # p => ping'[q] = ping[q]
      /\ ping'[p].at = l /\ ping'[p].key = n /\ ping'[p].tries = 0
  BY <1>2, Zenon DEF Types
<1>4. SameMix /\ Pending' = Pending
      /\ QueueInv' /\ JobInv' /\ ReqInv' /\ WireInv' /\ CountInv' /\ StreamInv'
  BY <1>1, <1>3, PingOnly, Zenon
<1>5. n \in Nat /\ n \in Keys /\ pings[n] = 0
  <2>1. n \in Nat /\ n \in Keys
    BY <1>1, ClientConnAssumption DEF Types, Keys
  <2>2. QED
    BY <2>1 DEF Rest, PingInv, PingOf
<1>6. p \notin answered /\ Callback("ping", p) \notin Pending
  BY <1>1, NotScheduled, Zenon DEF Rest, PingInv, PingOf
<1>7. \A q \in Pingers : ping[q].at # "idle" => ping[q].key # n /\ ping[q].key \in Nat
  BY <1>5, ClientConnAssumption DEF Rest, PingInv, PingOf, Keys
<1>8. ASSUME NEW q \in Pingers PROVE PingOf(q)'
  <2>1. CASE q = p
    <3>1. ping'[p].tries < MaxTries'
      BY <1>3, <1>4, MixFacts, MixKept, Zenon
    <3>2. pings'[ping'[p].key] <= ping'[p].tries
      BY <1>1, <1>3, <1>5
    <3>3. ping'[p].key \in Keys /\ ping'[p].key < nextRequest'
      BY <1>1, <1>3, <1>5
    <3>4. QED
      BY <1>1, <1>4, <1>6, <2>1, <3>1, <3>2, <3>3, Zenon DEF PingOf
  <2>2. CASE q # p
    <3>1. ping'[q] = ping[q]
      BY <1>3, <2>2
    <3>2. ping[q].at # "idle" => ping[q].key < nextRequest'
      BY <1>1, <1>5, <1>7 DEF Rest, PingInv, PingOf
    <3>3. Callback("ping", q) \in Pending' => Callback("ping", q) \in Pending
      BY <1>4
    <3>4. q \in answered' => ping[q].at # "idle" /\ ping[q].key \notin pingRequests'
      BY <1>1, <1>7, Zenon DEF Rest, PingInv, PingOf
    <3>5. QED
      <4>1. PingOf(q)
        BY Zenon DEF Rest, PingInv
      <4>2. QED
        BY <1>1, <1>4, <3>1, <3>2, <3>3, <3>4, <4>1, MixKept, Zenon DEF PingOf
  <2>3. QED
    BY <2>1, <2>2, Zenon
<1>9. \A q, s \in Pingers :
        ping'[q].at # "idle" /\ ping'[s].at # "idle" /\ ping'[q].key = ping'[s].key => q = s
  BY <1>3, <1>7 DEF Rest, PingInv, PingOf
<1>10. \A k \in Keys : k >= nextRequest' => pings'[k] = 0
  <2>1. \A k \in Keys : k >= nextRequest' => k >= nextRequest
    BY <1>1, <1>5, ClientConnAssumption DEF Keys
  <2>2. QED
    BY <1>1, <2>1, Zenon DEF Rest, PingInv, PingOf
<1>11. PingTable'
  <2>1. ASSUME NEW k \in pingRequests'
        PROVE  \E x \in Pingers : ping'[x].key = k /\ ping'[x].at # "idle" /\ x \notin answered'
    <3>1. CASE k = n
      BY <1>1, <1>3, <1>6, <3>1
    <3>2. CASE k \in pingRequests
      <4>1. PICK x \in Pingers : ping[x].key = k /\ ping[x].at # "idle" /\ x \notin answered
        BY <3>2, Zenon DEF Rest, PingInv, PingOf, PingTable
      <4>2. x # p
        BY <1>1, <4>1, Zenon
      <4>3. QED
        BY <1>1, <1>3, <4>1, <4>2
    <3>3. QED
      BY <1>1, <2>1, <3>1, <3>2
  <2>2. QED
    BY <1>9, <2>1 DEF PingTable
<1>12. PingInv'
  BY <1>8, <1>9, <1>10, <1>11, Zenon DEF PingInv
<1>13. QED
  BY <1>4, <1>12, Zenon DEF Rest

LEMMA PingStepStep == \A p \in Pingers : Types /\ Rest /\ PingStep(p) => Rest'
<1>SendPingStep. ASSUME Types, Rest, NEW p \in Pingers, SendPing(p) PROVE Rest'
  <2> USE <1>SendPingStep
  <2> DEFINE new == Callback("ping", p)
  <2>1. /\ UNCHANGED <<conn, job, reader, streamVars, ctx, reqVars, wireVars, pingRequests, nextRequest, answered, pings>>
        /\ SameMix /\ ping[p].at = "send" /\ TrySchedule("ping", p)
    BY DEF SendPing, SameMix
  <2>2. /\ \A q \in Pingers : q # p => ping'[q] = ping[q]
        /\ ping'[p].at = "sent" /\ ping'[p].key = ping[p].key /\ ping'[p].tries = ping[p].tries + 1
    BY DEF SendPing, Types, PingType
  <2>3. new \notin Scheduled
    BY <2>1, NotScheduled, Zenon DEF Rest
  <2>4. \A c \in Scheduled \cup {new} : Awaited(c)'
    <3>1. Awaited(new)'
      BY <2>2, Zenon DEF Awaited, Callback
    <3>2. \A c \in Scheduled : Awaited(c)'
      BY <2>1, <2>2, ScheduledAwaited, MixKept, Zenon DEF Rest, Awaited, reqVars
    <3>3. QED
      BY <3>1, <3>2
  <2>5. QueueInv' /\ Pending' \subseteq Pending \cup {new}
    BY <2>1, <2>3, <2>4, QueueGrows, Zenon DEF Rest
  <2>6. \A c \in Pending' : c.op # "ping" => c \in Pending
    BY <2>5 DEF Callback
  <2>7. JobInv'
    BY <2>1, JobGrows DEF Rest, wireVars
  <2>8. ReqInv'
    BY <2>1, <2>6, ReqFrame DEF Rest, reqVars, wireVars, streamVars
  <2>9. WireInv'
    BY <2>1, WireFrame DEF Rest, wireVars, streamVars
  <2>10. CountInv'
    BY <2>1, <2>6, WaitingFrame, CountFrame DEF Rest, reqVars, streamVars
  <2>11. StreamInv'
    BY <2>1, StreamFrame, Zenon DEF Rest, reqVars, wireVars
  <2>12. PingInv'
    <3>1. \A q \in Pingers : /\ (ping'[q].at # "idle") = (ping[q].at # "idle") /\ ping'[q].key = ping[q].key
                             /\ ping'[q].at = "send" => q # p
      BY <2>1, <2>2, Zenon
    <3>2. pings[ping[p].key] \in Nat /\ ping[p].tries \in Nat /\ pings[ping[p].key] <= ping[p].tries
      <4>1. ping[p].key \in Keys /\ pings[ping[p].key] <= ping[p].tries
        BY <2>1, Zenon DEF Rest, PingInv, PingOf
      <4>2. QED
        BY <4>1, PingTypes, Zenon
    <3>3. pings'[ping'[p].key] < ping'[p].tries /\ pings'[ping'[p].key] <= ping'[p].tries
      BY <2>1, <2>2, <3>2
    <3>4. \A q \in Pingers : q # p /\ Callback("ping", q) \in Pending' => Callback("ping", q) \in Pending
      BY <2>5 DEF Callback
    <3>5. ASSUME NEW q \in Pingers PROVE PingOf(q)'
      <4>1. PingOf(q)
        BY Zenon DEF Rest, PingInv
      <4>2. CASE q = p
        BY <2>1, <3>1, <3>3, <4>1, <4>2, Zenon DEF PingOf
      <4>3. CASE q # p
        BY <2>1, <2>2, <3>4, <4>1, <4>3, MixKept, Zenon DEF PingOf
      <4>4. QED
        BY <4>2, <4>3, Zenon
    <3>6. PingTable'
      <4>1. PingTable
        BY Zenon DEF Rest, PingInv
      <4>2. QED
        BY <2>1, <3>1, <4>1, TableFrame, Zenon
    <3>7. PingInv
      BY DEF Rest
    <3>8. QED
      BY <2>1, <3>1, <3>5, <3>6, <3>7, Zenon DEF PingInv
  <2>13. QED
    BY <2>5, <2>7, <2>8, <2>9, <2>10, <2>11, <2>12 DEF Rest
\* A call returns; its key is not in the table then.
<1>PingEnds. ASSUME Types, PingInv, SameMix, NEW p \in Pingers, ping' = [ping EXCEPT ![p] = NoPing],
           answered' = answered \ {p}, pingRequests' \subseteq pingRequests, ping[p].key \notin pingRequests',
           Callback("ping", p) \notin Pending, Pending' = Pending, UNCHANGED <<nextRequest, pings>>
    PROVE  PingInv'
  <2> USE <1>PingEnds
  <2>1. /\ \A q \in Pingers : q # p => ping'[q] = ping[q]
        /\ ping'[p].at = "idle"
    BY Zenon DEF Types, NoPing
  <2>2. \A q \in Pingers : /\ ping'[q].at # "idle" => q # p
                           /\ q \in answered' => q # p /\ q \in answered
                           /\ Callback("ping", q) \in Pending' => q # p /\ Callback("ping", q) \in Pending
    BY <2>1
  <2>3. ASSUME NEW q \in Pingers PROVE PingOf(q)'
    BY <2>1, <2>2, MixKept, Zenon DEF PingInv, PingOf
  <2>4. \A q, s \in Pingers :
          ping'[q].at # "idle" /\ ping'[s].at # "idle" /\ ping'[q].key = ping'[s].key => q = s
    BY <2>1, <2>2 DEF PingInv, PingOf
  <2>5. PingTable'
    <3>1. ASSUME NEW k \in pingRequests'
          PROVE  \E x \in Pingers : ping'[x].key = k /\ ping'[x].at # "idle" /\ x \notin answered'
      <4>1. PICK x \in Pingers : ping[x].key = k /\ ping[x].at # "idle" /\ x \notin answered
        BY <3>1 DEF PingInv, PingOf, PingTable
      <4>2. x # p
        BY <3>1, <4>1
      <4>3. QED
        BY <2>1, <4>1, <4>2
    <3>2. QED
      BY <2>4, <3>1 DEF PingTable
  <2>6. QED
    BY <2>3, <2>4, <2>5, Zenon DEF PingInv
<1>ValidStep. ASSUME Types, Rest, NEW p \in Pingers, Valid(p) \/ Invalid(p)
    PROVE  Rest'
  <2> USE <1>ValidStep
  <2>1. /\ UNCHANGED <<conn, serVars, reader, streamVars, reqVars, wireVars, nextRequest, pings>>
        /\ ping[p].at # "sent" /\ ping' = [ping EXCEPT ![p] = NoPing] /\ answered' = answered \ {p}
    BY DEF Valid, Invalid
  <2>2. \A q \in Pingers : q # p => ping'[q] = ping[q]
    BY <2>1 DEF Types
  <2>3. SameMix /\ Pending' = Pending
        /\ QueueInv' /\ JobInv' /\ ReqInv' /\ WireInv' /\ CountInv' /\ StreamInv'
    BY <2>1, <2>2, PingOnly
  <2>4. Callback("ping", p) \notin Pending
    BY <2>1, NotScheduled DEF Rest
  <2>5. pingRequests' \subseteq pingRequests /\ ping[p].key \notin pingRequests'
    BY DEF Valid, Invalid, Rest, PingInv, PingOf
  <2>6. PingInv'
    BY <2>1, <2>3, <2>4, <2>5, <1>PingEnds, Zenon DEF Rest
  <2>7. QED
    BY <2>3, <2>6 DEF Rest
<1>PingMoveStep. ASSUME Types, Rest, NEW p \in Pingers, PingTimeout(p) \/ PingCtx(p)
    PROVE  Rest'
  <2> USE <1>PingMoveStep
  <2>1. /\ UNCHANGED <<conn, serVars, reader, streamVars, reqVars, wireVars, pingRequests, nextRequest, answered, pings>>
        /\ ping[p].at # "sent" /\ ping[p].at # "idle"
    BY Zenon DEF PingTimeout, PingCtx
  <2>2. PICK l \in {"send", "delete"} : At(p, l) /\ (l = "send" => ping[p].tries < MaxTries)
    BY DEF PingTimeout, PingCtx
  <2>3. \A q \in Pingers : q # p => ping'[q] = ping[q]
    BY <2>2 DEF At, Types
  <2>4. SameMix /\ Pending' = Pending
        /\ QueueInv' /\ JobInv' /\ ReqInv' /\ WireInv' /\ CountInv' /\ StreamInv'
    BY <2>1, <2>3, PingOnly, Zenon
  <2>5. PingInv'
    BY <2>1, <2>2, <2>4, PingMoves, Zenon DEF Rest
  <2>6. QED
    BY <2>4, <2>5 DEF Rest
<1> SUFFICES ASSUME Types, Rest, NEW p \in Pingers, PingStep(p) PROVE Rest'
  OBVIOUS
<1> QED
  BY <1>SendPingStep, <1>ValidStep, <1>PingMoveStep DEF PingStep

-----------------------------------------------------------------------------
(* The reader handles a frame *)

LEMMA ReaderOnly ==
  ASSUME Types, Rest, reader = "read", UNCHANGED <<conn, serVars, streamIdGen, reqVars, wire, ping>>,
         doneCh \subseteq doneCh'
  PROVE  SameMix /\ Pending' = Pending /\ QueueInv' /\ JobInv' /\ ReqInv' /\ WireInv' /\ CountInv'
<1>1. SameMix /\ Pending' = Pending
  BY DEF SameMix, Pending, serVars
<1>2. QueueInv'
  BY <1>1, QueueFrame DEF Rest, serVars, reqVars
<1>3. JobInv'
  BY JobFrame DEF Rest, serVars
<1>4. ReqInv'
  BY <1>1, ReqFrame DEF Rest, reqVars
<1>5. WireInv'
  BY <1>1, WireFrame DEF Rest
<1>6. CountInv'
  BY <1>1, WaitingFrame, CountFrame, Zenon DEF Rest, reqVars
<1>7. QED
  BY <1>1, <1>2, <1>3, <1>4, <1>5, <1>6

LEMMA FrameStep == \A id \in Ids : Types /\ Rest /\ (ReadData(id) \/ ReadReset(id) \/ ReadHeaders(id)) => Rest'
\* A frame of a stream: its end closes doneCh if the stream is in the map.
<1>TakeFrame. ASSUME Types, Rest, NEW id \in Ids, NEW last \in BOOLEAN, Answering(id), Take(id, last),
           Deliver(id, last) \/ (~ hpack' /\ UNCHANGED doneCh), hpack' => hpack,
           UNCHANGED <<conn, serVars, streamIdGen, clientStreams, ctx, reqVars, wire, pingVars>>
    PROVE  Rest'
  <2> USE <1>TakeFrame
  <2>1. /\ reader = "read" /\ reader' = "loop"
        /\ ended' = IF last THEN ended \cup {id} ELSE ended
        /\ early' = IF last /\ job.at = "store" /\ job.id = id THEN early \cup {id} ELSE early
    BY Zenon DEF Answering, FrameRead, Take
  <2>2. /\ doneCh \subseteq doneCh' /\ \A x \in doneCh' : x \in doneCh \/ (last /\ x = id)
        /\ last /\ id \in clientStreams => id \in doneCh' \/ ~ hpack'
    BY DEF Deliver
  <2>3. SameMix /\ Pending' = Pending /\ QueueInv' /\ JobInv' /\ ReqInv' /\ WireInv' /\ CountInv'
    BY <2>1, <2>2, ReaderOnly DEF pingVars
  <2>4. PingInv'
    BY <2>3, PingFrame DEF Rest
  <2>5. StreamInv'
    <3>1. id < streamIdGen
      <4>1. CASE id = 1 /\ H2c
        <5>1. streamIdGen \in Nat
          BY IdFacts DEF Types
        <5>2. QED
          BY <4>1, <5>1 DEF Rest, WireInv
      <4>2. CASE \E i \in 1 .. Len(wire) : wire[i].id = id
        BY <4>2, Zenon DEF Rest, WireInv
      <4>3. QED
        BY <4>1, <4>2, Zenon DEF Answering
    <3>2. \A x \in clientStreams' \cup doneCh' \cup ended' : x < streamIdGen'
      BY <2>1, <2>2, <3>1, Zenon DEF Rest, StreamInv
    <3>3. \A x \in doneCh' : x \in ended' \/ conn'.closed
      BY <2>1, <2>2, Zenon DEF Rest, StreamInv
    <3>4. \A x \in clientStreams' : x \in ended' => x \in doneCh' \cup early' \/ ~ hpack'
      BY <2>1, <2>2, Zenon DEF Rest, StreamInv
    <3>5. job'.at = "store" /\ job'.id \in ended' => job'.id \in early'
      BY <2>1, Zenon DEF Rest, StreamInv, serVars
    <3>6. StreamsOwned'
      <4>1. InFlight' = InFlight
        BY DEF InFlight, reqVars
      <4>2. QED
        BY <2>3, <4>1, MixKept, Zenon DEF Rest, StreamInv, StreamsOwned, reqVars, serVars
    <3>7. \A q \in Reqs : HasStream(q)' = HasStream(q) /\ (Held(q) => Held(q)')
      BY <2>2, HeldKept DEF HasStream, reqVars
    <3>8. job'.at = "send" /\ job'.id # 0 =>
            job'.id \in clientStreams' \cup doneCh' \/ \E q \in Reqs : own'[q] = job'.id
      BY <2>2, Zenon DEF Rest, StreamInv, serVars, reqVars
    <3>9. \A q \in Reqs : HasStream(q)' => Held(q)'
      BY <3>7, Zenon DEF Rest, StreamInv
    <3>10. QED
      BY <3>2, <3>3, <3>4, <3>5, <3>6, <3>8, <3>9, Zenon DEF StreamInv
  <2>6. QED
    BY <2>3, <2>4, <2>5 DEF Rest
<1> SUFFICES ASSUME Types, Rest, NEW id \in Ids, ReadData(id) \/ ReadReset(id) \/ ReadHeaders(id)
         PROVE  Rest'
  OBVIOUS
<1>1. CASE ReadData(id)
  <2>1. PICK last \in BOOLEAN : Deliver(id, last)
    BY <1>1 DEF ReadData
  <2>2. QED
    BY <1>1, <2>1, <1>TakeFrame DEF ReadData, Deliver
<1>2. CASE ReadReset(id)
  <2>1. Deliver(id, TRUE) /\ Take(id, TRUE)
    BY <1>2, Zenon DEF ReadReset, Deliver
  <2>2. QED
    BY <1>2, <2>1, <1>TakeFrame, Zenon DEF ReadReset
<1>3. CASE ReadHeaders(id)
  <2>1. PICK last \in BOOLEAN : Deliver(id, last) \/ (~ hpack /\ Take(id, last) /\ UNCHANGED doneCh)
    BY <1>3 DEF ReadHeaders
  <2>2. Take(id, last) /\ (hpack' => hpack)
    BY <1>3, <2>1, Zenon DEF ReadHeaders, Deliver
  <2>3. Deliver(id, last) \/ (~ hpack' /\ UNCHANGED doneCh)
    BY <2>1, <2>2
  <2>4. QED
    BY <1>3, <2>2, <2>3, <1>TakeFrame DEF ReadHeaders
<1>4. QED
  BY <1>1, <1>2, <1>3

\* GOAWAY finishes every stream in the map.
LEMMA GoAwayStep == ASSUME Types, Rest, ReadGoAway PROVE Rest'
<1>1. /\ reader = "read" /\ reader' = "goaway" /\ doneCh' = doneCh \cup clientStreams /\ clientStreams' = {}
      /\ UNCHANGED <<conn, serVars, streamIdGen, hpack, ctx, reqVars, wireVars, pingVars>>
      /\ UNCHANGED <<conn, serVars, streamIdGen, reqVars, wire, ping>>
  BY DEF ReadGoAway, FrameRead, wireVars, pingVars
<1>2. SameMix /\ Pending' = Pending /\ QueueInv' /\ JobInv' /\ ReqInv' /\ WireInv' /\ CountInv'
  BY <1>1, ReaderOnly
<1>3. PingInv'
  BY <1>1, <1>2, PingFrame DEF Rest
<1>4. StreamInv'
  <2>1. StreamsOwned'
    BY <1>1 DEF StreamsOwned
  <2>2. \A q \in Reqs : HasStream(q)' = HasStream(q) /\ (Held(q) => Held(q)')
    BY <1>1, HeldKept DEF HasStream, reqVars
  <2>3. QED
    BY <1>1, <2>1, <2>2, Zenon DEF Rest, StreamInv, reqVars, serVars, wireVars
<1>5. QED
  BY <1>2, <1>3, <1>4 DEF Rest

\* An acknowledgement answers the calls it takes out of the table.
LEMMA PingAckStep == ASSUME Types, Rest, NEW k \in Keys, ReadPingAck(k) PROVE Rest'
<1>1. /\ reader = "read" /\ reader' = "loop" /\ pings[k] > 0 /\ pings' = [pings EXCEPT ![k] = @ - 1]
      /\ UNCHANGED <<conn, serVars, streamVars, ctx, reqVars, wireVars, ping, nextRequest>>
      /\ UNCHANGED <<conn, serVars, streamIdGen, reqVars, wire, ping>> /\ UNCHANGED doneCh
  BY Zenon DEF ReadPingAck, FrameRead, wireVars, streamVars
<1>2. SameMix /\ Pending' = Pending /\ QueueInv' /\ JobInv' /\ ReqInv' /\ WireInv' /\ CountInv'
  BY <1>1, ReaderOnly
<1>3. StreamInv'
  BY <1>1, <1>2, StreamFrame DEF Rest, serVars, reqVars, wireVars
<1>4. \A j \in Keys : pings[j] \in Nat /\ pings'[j] \in Nat /\ pings'[j] <= pings[j]
  <2>1. \A j \in Keys : pings[j] \in Nat
    BY MixFacts DEF Types
  <2>2. pings'[k] = pings[k] - 1 /\ \A j \in Keys : j # k => pings'[j] = pings[j]
    BY <1>1 DEF Types
  <2>3. QED
    BY <1>1, <2>1, <2>2
<1>5. /\ pingRequests' \subseteq pingRequests
      /\ \A p \in Pingers : p \in answered' =>
           p \in answered \/ (ping[p].at # "idle" /\ ping[p].key \notin pingRequests')
      /\ \A p \in Pingers : ping[p].key \in pingRequests' /\ p \notin answered => p \notin answered'
  <2>1. CASE conn.closed
    BY <2>1 DEF ReadPingAck
  <2>2. CASE ~ conn.closed
    <3>1. pingRequests' = {q \in pingRequests : q < k} /\ k \in Int /\ pingRequests \subseteq Int
      BY <2>2, ClientConnAssumption DEF ReadPingAck, Keys, Types
    <3>2. answered' = answered \cup {p \in Pingers : ping[p].at # "idle"
                                       /\ ping[p].key \in pingRequests /\ ping[p].key >= k}
      BY <2>2, Zenon DEF ReadPingAck
    <3>3. \A j \in pingRequests : j \in pingRequests' <=> ~ (j >= k)
      BY <3>1
    <3>4. pingRequests' \subseteq pingRequests
      BY <3>1
    <3>5. QED
      BY <3>2, <3>3, <3>4
  <2>3. QED
    BY <2>1, <2>2
<1>6. PingInv'
  <2>1. ASSUME NEW q \in Pingers PROVE PingOf(q)'
    <3>1. ping[q].at # "idle" => /\ ping[q].key \in Keys /\ ping[q].key < nextRequest
                                 /\ pings[ping[q].key] <= ping[q].tries
      BY Zenon DEF Rest, PingInv, PingOf
    <3>2. ping[q].tries \in Nat
      BY PingTypes, Zenon
    <3>3. ping[q].at # "idle" => pings'[ping[q].key] <= ping[q].tries
      BY <1>4, <3>1, <3>2
    <3>4. Callback("ping", q) \in Pending => ping[q].at # "idle"
      BY NotScheduled, Zenon DEF Rest
    <3>5. Callback("ping", q) \in Pending => pings[ping[q].key] < ping[q].tries
      BY Zenon DEF Rest, PingInv, PingOf
    <3>6. Callback("ping", q) \in Pending => pings'[ping[q].key] < ping[q].tries
      BY <1>4, <3>1, <3>2, <3>4, <3>5
    <3>7. q \in answered' => ping[q].at # "idle" /\ ping[q].key \notin pingRequests'
      BY <1>5, Zenon DEF Rest, PingInv, PingOf
    <3>8. QED
      <4>1. PingOf(q)
        BY Zenon DEF Rest, PingInv
      <4>2. QED
        BY <1>1, <1>2, <3>1, <3>3, <3>6, <3>7, <4>1, MixKept, Zenon DEF PingOf
  <2>2. \A j \in Keys : j >= nextRequest' => pings'[j] = 0
    <3>1. \A j \in Keys : j >= nextRequest' => pings[j] = 0
      BY <1>1, Zenon DEF Rest, PingInv, PingOf
    <3>2. QED
      BY <1>4, <3>1
  <2>3. PingTable'
    <3>1. ASSUME NEW j \in pingRequests'
          PROVE  \E p \in Pingers :
                   /\ ping[p].key = j /\ ping[p].at # "idle" /\ p \notin answered'
                   /\ \A q \in Pingers : ping[q].key = j /\ ping[q].at # "idle" => q = p
      <4>1. PICK p \in Pingers :
              /\ ping[p].key = j /\ ping[p].at # "idle" /\ p \notin answered
              /\ \A q \in Pingers : ping[q].key = j /\ ping[q].at # "idle" => q = p
        BY <1>5, <3>1, Zenon DEF Rest, PingInv, PingOf, PingTable
      <4>2. p \notin answered'
        BY <1>5, <3>1, <4>1
      <4>3. QED
        BY <4>1, <4>2
    <3>2. QED
      BY <1>1, <3>1 DEF PingTable
  <2>4. \A p, q \in Pingers :
          ping'[p].at # "idle" /\ ping'[q].at # "idle" /\ ping'[p].key = ping'[q].key => p = q
    BY <1>1, Zenon DEF Rest, PingInv, PingOf
  <2>5. QED
    BY <2>1, <2>2, <2>3, <2>4, Zenon DEF PingInv
<1>7. QED
  BY <1>2, <1>3, <1>6 DEF Rest

-----------------------------------------------------------------------------
(* The invariant is inductive *)

LEMMA NextRest == ASSUME Types, Rest, [Next]_vars PROVE Rest'
<1>1. CASE Quiet
  BY <1>1, QuietStep
<1>2. ASSUME NEW r \in Reqs, Refuse(r) \/ Do(r) \/ ReqStep(r) \/ TakeStream(r) \/ TakeBody(r)
      PROVE  Rest'
  BY <1>2, RequestStep, ScheduleStep, TakeStreamStep, TakeBodyStep DEF ReqStep
<1>3. ASSUME NEW p \in Pingers, PingStep(p) \/ TakePing(p)
      PROVE  Rest'
  BY <1>3, PingStepStep, TakePingStep
<1>4. ASSUME NEW p \in Pingers \cap conn.mix.callers, IsValid(p)
      PROVE  Rest'
  BY <1>4, IsValidStep
<1>5. CASE RunCancelled \/ RunCheck \/ RunHeaders \/ RunStore \/ RunBody \/ RunPing \/ RunAck \/ TakeAck \/ SendAck
  BY <1>5, RunCancelledStep, RunCheckStep, RunHeadersStep, RunStoreStep, RunBodyStep, RunPingStep, RunAckStep, TakeAckStep,
     SendAckStep
<1>6. ASSUME NEW id \in Ids, ReadData(id) \/ ReadReset(id) \/ ReadHeaders(id)
      PROVE  Rest'
  BY <1>6, FrameStep
<1>7. CASE ReadGoAway
  BY <1>7, GoAwayStep
<1>8. ASSUME NEW k \in Keys, ReadPingAck(k)
      PROVE  Rest'
  BY <1>8, PingAckStep
<1>9. QED
  BY <1>1, <1>2, <1>3, <1>4, <1>5, <1>6, <1>7, <1>8, Zenon
     DEF Next, Alive, Step, Quiet, SerializerStep, ReaderStep, ServerFrame

LEMMA InitTypes == ASSUME Init PROVE Types
<1>1. conn \in ConnType
  <2>1. PICK m \in Mixes :
          conn = [mix |-> m, dial |-> "wait", acked |-> FALSE, settings |-> 0, ackread |-> FALSE,
                  limit |-> DefaultLimit, sem |-> 0, closed |-> FALSE, cancelled |-> FALSE,
                  net |-> "up", panicked |-> FALSE]
    BY Zenon DEF Init
  <2>2. QED
    BY <2>1 DEF ConnType
<1>2. MaxTries \in Nat
  <2>1. conn.mix \in Mixes
    BY <1>1 DEF ConnType
  <2>2. QED
    BY <2>1, ClientConnAssumption DEF MaxTries
<1>3. streamIdGen \in Gens
  BY ReqsFinite DEF Init, Gens
<1>4. clientStreams \subseteq Ids
  <2>1. 1 \in Ids
    BY ReqsFinite DEF Ids
  <2>2. QED
    BY <2>1, Zenon DEF Init
<1>5. job \in JobType /\ hpack \in Flags
  BY Zenon DEF Init, NoJob, JobType, Flags
<1>6. pc \in PcType /\ own \in [Reqs -> Ids \cup {0}] /\ result \in ResultType
  BY Zenon DEF Init, PcType, ResultType
<1>7. queue \in Seq(CallbackType) /\ wire \in Seq(FrameType)
  BY DEF Init
<1>8. ping \in [Pingers -> PingType] /\ pings \in [Keys -> 0 .. MaxTries]
  BY <1>2 DEF Init, NoPing, PingType
<1>9. nextRequest \in 0 .. MaxKeys
  BY ClientConnAssumption DEF Init
<1>10. reader \in Readers
  BY Zenon DEF Init, Readers
<1>11. QED
  BY <1>1, <1>3, <1>4, <1>5, <1>6, <1>7, <1>8, <1>9, <1>10, Zenon DEF Init, Types

LEMMA InitIInv == ASSUME Init PROVE IInv
<1>1. Types
  BY InitTypes
<1>2. queue = << >> /\ wire = << >> /\ Len(queue) = 0 /\ Len(wire) = 0 /\ Pending = {}
  BY DEF Init, Pending, NoJob
<1>3. QueueInv /\ JobInv
  BY <1>2 DEF QueueInv, JobInv, Init, NoJob
<1>4. ReqInv
  BY <1>2, Zenon DEF ReqInv, HasStream, Init
<1>5. WireInv
  <2>1. WireProtocol
    BY <1>2 DEF WireProtocol
  <2>2. H2c => streamIdGen >= 2
    BY DEF Init
  <2>3. QED
    BY <1>2, <2>1, <2>2 DEF WireInv
<1>6. CountInv
  <2>1. \A i \in 1 .. Cardinality(Reqs) : 2 * i + 1 \in Ids /\ 2 * i + 1 > 2
    <3>1. \A i \in 1 .. Cardinality(Reqs) : i + 1 \in 1 .. Cardinality(Reqs) + 1 /\ 2 * i + 1 = 2 * (i + 1) - 1
      BY ReqsFinite
    <3>2. QED
      BY <3>1, ReqsFinite DEF Ids
  <2>2. Waiting \subseteq Reqs /\ streamIdGen \in {0, 2}
    BY DEF Waiting, Init
  <2>3. PICK n \in [Reqs -> 1 .. Cardinality(Reqs)] : \A r, q \in Reqs : n[r] = n[q] => r = q
    BY ClientConnAssumption
  <2> DEFINE f == [r \in Waiting |-> 2 * n[r] + 1]
  <2>4. \A r \in Waiting : f[r] \in Ids /\ f[r] > streamIdGen
    BY <2>1, <2>2
  <2>5. \A r, q \in Waiting : f[r] = f[q] => r = q
    BY <2>2, <2>3
  <2>6. QED
    BY <2>4, <2>5, Zenon DEF CountInv
<1>7. StreamInv
  <2>1. \A id \in clientStreams : id = 1 /\ H2c /\ id < streamIdGen
    BY DEF Init
  <2>2. StreamsOwned
    BY <2>1 DEF StreamsOwned
  <2>3. QED
    BY <2>1, <2>2, Zenon DEF StreamInv, Init, NoJob, HasStream
<1>8. PingInv
  BY <1>2, Zenon DEF PingInv, PingOf, PingTable, Init, NoPing
<1>9. QED
  BY <1>1, <1>3, <1>4, <1>5, <1>6, <1>7, <1>8, TypesOK DEF IInv

LEMMA Inductive == Spec => []IInv
<1>1. Init => IInv
  BY InitIInv
<1>2. IInv /\ [Next]_vars => IInv'
  <2>1. SUFFICES ASSUME IInv, [Next]_vars PROVE IInv'
    OBVIOUS
  <2>2. Types /\ Rest
    BY <2>1, TypesOK DEF IInv, Rest
  <2>3. Types' /\ Rest'
    BY <2>1, <2>2, NextTypes, NextRest
  <2>4. TypeOK'
    BY <2>3, TypesOK, PTL
  <2>5. QED
    BY <2>3, <2>4 DEF IInv, Rest
<1>3. QED
  BY <1>1, <1>2, PTL DEF Spec

-----------------------------------------------------------------------------
(* Theorems *)

\* The frames on a connection obey HTTP/2 whatever requests, pings, cancellations and
\* write errors run at the same time: ids increase, a body follows its HEADERS, and
\* nothing follows END_STREAM.  Only the serializer's callbacks write, each once, and a
\* stream's body is scheduled by the request that owns it.
THEOREM ProtocolCorrect == Spec => []WireProtocol
<1>1. IInv => WireProtocol
  BY DEF IInv, WireInv
<1>2. QED
  BY <1>1, Inductive, PTL

\* The opener of a stream is the request the server takes it to be.
LEMMA OpenerAsker == ASSUME IInv, NEW r \in Reqs \ Upgraded, own[r] # 0 PROVE Asker(own[r]) = {r}
<1>1. Types /\ ReqInv /\ WireInv
  BY TypesOK DEF IInv
<1>2. OpenedBy(own[r], r)
  BY <1>1, Zenon DEF ReqInv
<1>3. ~ (own[r] = 1 /\ H2c)
  BY <1>1, <1>2, NotUpgradedId
<1>4. Asker(own[r]) = {wire[i].req : i \in {j \in Headers : wire[j].id = own[r]}}
  BY <1>3 DEF Asker
<1>5. \A i \in Headers : wire[i].id = own[r] => wire[i].req = r
  <2>1. SUFFICES ASSUME NEW i \in Headers, wire[i].id = own[r] PROVE wire[i].req = r
    OBVIOUS
  <2>2. OpenedBy(own[r], wire[i].req)
    BY <2>1 DEF OpenedBy, Headers
  <2>3. QED
    BY <1>1, <1>2, <2>2, OneOpener
<1>6. \E i \in Headers : wire[i].id = own[r] /\ wire[i].req = r
  BY <1>2 DEF OpenedBy, Headers
<1>7. QED
  BY <1>4, <1>5, <1>6, Zenon

\* A response comes only of a stream that has ended, or when the connection goes away.  A
\* request whose context does not ask for the upgrade gets the response to what it wrote;
\* one whose context does gets stream 1's, which is its own on a connection upgraded for
\* it alone.  A request that waits finds doneCh closed once its stream has ended, outside
\* the window between WriteHeaders and the Store of the stream, a decoder that has missed
\* a block, and a stream that another request shares.
THEOREM ResponseCorrect == Spec => []OwnResponse
<1>1. IInv => OwnResponse
  <2>1. SUFFICES ASSUME IInv, NEW r \in Reqs
                 PROVE  /\ result[r] = "resp" =>
                             /\ own[r] \in ended \/ reader = "goaway" \/ conn.closed
                             /\ r \notin Upgraded \/ (H2c /\ Upgraded = {r}) => Asker(own[r]) = {r}
                             /\ r \in Upgraded => own[r] = 1
                        /\ pc[r] = "resp" /\ own[r] \in ended =>
                             own[r] \in doneCh \cup early \/ ~ hpack \/ SharedStream(r)
    BY DEF OwnResponse
  <2>2. ReqInv /\ StreamInv /\ Types
    BY <2>1, TypesOK DEF IInv
  <2>3. ASSUME result[r] = "resp"
        PROVE  /\ own[r] \in ended \/ reader = "goaway" \/ conn.closed
               /\ r \notin Upgraded \/ (H2c /\ Upgraded = {r}) => Asker(own[r]) = {r}
               /\ r \in Upgraded => own[r] = 1
    <3>1. own[r] \in doneCh
      BY <2>2, <2>3, Zenon DEF ReqInv
    <3>2. own[r] # 0
      BY <2>2, <3>1, IdFacts DEF Types
    <3>3. r \in Upgraded => own[r] = 1
      BY <2>2, <3>2, Zenon DEF ReqInv
    <3>4. H2c /\ Upgraded = {r} => Asker(own[r]) = {r}
      BY <3>3 DEF Asker
    <3>5. QED
      BY <2>1, <2>2, <3>1, <3>2, <3>3, <3>4, OpenerAsker DEF StreamInv
  <2>4. ASSUME pc[r] = "resp", own[r] \in ended
        PROVE  own[r] \in doneCh \cup early \/ ~ hpack \/ SharedStream(r)
    BY <2>2, <2>4 DEF StreamInv, HasStream, Held
  <2>5. QED
    BY <2>3, <2>4
<1>2. QED
  BY <1>1, Inductive, PTL

\* settingsAcked is closed by the one acknowledgement, after the server's first SETTINGS.
ConnInv == (conn.acked => conn.ackread /\ conn.settings > 0) /\ NoPanic

LEMMA ConnStep == ASSUME Types, ConnInv, [Next]_vars PROVE ConnInv'
<1>1. CASE UNCHANGED conn
  BY <1>1 DEF ConnInv, NoPanic
<1>2. CASE /\ conn'.acked = conn.acked /\ conn'.ackread = conn.ackread
           /\ conn'.settings = conn.settings /\ conn'.panicked = conn.panicked
  BY <1>2 DEF ConnInv, NoPanic
<1>3. CASE DialOk \/ DialTimeout \/ DialDone \/ Close \/ Lose \/ ReadError \/ GoAwayClose
  BY <1>2, <1>3, Zenon
     DEF DialOk, DialTimeout, DialDone, Close, Lose, ReadError, GoAwayClose, Closed, Types, ConnType
<1>4. CASE ReadSettings
  <2>1. /\ conn'.acked = conn.acked /\ conn'.ackread = conn.ackread /\ conn'.settings = conn.settings + 1
        /\ conn'.panicked = conn.acked \/ conn'.panicked = conn.panicked
    BY <1>4, Zenon DEF ReadSettings, Types, ConnType
  <2>2. conn.settings \in Nat
    BY DEF Types, ConnType
  <2>3. QED
    BY <2>1, <2>2 DEF ConnInv, NoPanic
<1>5. CASE ReadSettingsAck
  <2>1. ~ conn.acked /\ conn.settings > 0
    BY <1>5 DEF ReadSettingsAck, FrameRead, ConnInv
  <2>2. conn'.ackread /\ conn'.settings = conn.settings /\ ~ conn'.panicked
    BY <1>5, <2>1 DEF ReadSettingsAck, Types, ConnType
  <2>3. QED
    BY <2>1, <2>2 DEF ConnInv, NoPanic
<1>6. QED
  BY <1>1, <1>3, <1>4, <1>5, Loud, Zenon DEF Quiet, CtxDone, ReadLoop, ReadPing, vars

\* However many SETTINGS the server sends, no stream outlives its request in
\* clientStreams, the table of pings and the calls of isValid agree, so that the reader
\* never blocks on an acknowledgement nor closes a channel twice, and it takes a second
\* SETTINGS frame to make it send on a closed settingsAcked.
THEOREM NothingLeftCorrect == Spec => []NothingLeftOver
<1>1. Init => ConnInv
  BY DEF Init, ConnInv, NoPanic
<1>2. IInv /\ ConnInv /\ [Next]_vars => ConnInv'
  <2>1. IInv => Types
    BY TypesOK DEF IInv
  <2>2. QED
    BY <2>1, ConnStep
<1>3. Spec => []ConnInv
  BY <1>1, <1>2, Inductive, PTL DEF Spec
<1>4. IInv /\ ConnInv => NothingLeftOver
  BY Zenon DEF IInv, StreamInv, PingInv, ConnInv, NothingLeftOver
<1>5. QED
  BY <1>3, <1>4, Inductive, PTL

==============================================================================
