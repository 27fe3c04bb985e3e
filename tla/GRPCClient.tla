----------------------------- MODULE GRPCClient ------------------------------
(***************************************************************************)
(* grpc/http2client/http2_client.go: a client that multiplexes unary calls *)
(* over one HTTP/2 connection.  Each Call is a goroutine and so is the     *)
(* read loop; a write of a frame is a critical section of writeMu.  The    *)
(* client in grpc/tcpclient has the same control.                          *)
(*                                                                         *)
(* A message is two DATA frames long.  The server compresses its header    *)
(* blocks with a table that both sides build up (HPACK): the blocks are    *)
(* numbered, and one that is decoded out of step gives anything.           *)
(***************************************************************************)
EXTENDS Integers, Sequences, FiniteSets

CONSTANTS
  Calls,         \* the calls
  Modes,         \* how server and callers behave: may the server answer a call before
                 \* its DATA came (eager), may callers give up and either side close
                 \* the connection (cancels), how many GOAWAY frames are sent, what
                 \* RST_STREAM and GOAWAY say (codes; 0 is NO_ERROR), and how many
                 \* frames are on their way at most (wire)
  MaxSettings    \* bound: SETTINGS frames of the server

VARIABLES
  npc,        \* NewGRPCClient
  pc,         \* where each Call is
  streams,    \* clientStreams, as the set of the calls that are in it
  closes,     \* how often the doneCh of each call was closed
  status, payload,   \* the fields of the clientStream of each call
  result,     \* what each Call returned
  excused,    \* the calls that a reset or GOAWAY with NO_ERROR has ended
  loop,       \* the read loop
  cancelled,  \* c.ctx
  acked,      \* how often settingsAcked was closed
  decoded,    \* header blocks the decoder has seen; -1 once it is out of step
  wire,       \* the frames on their way to the client
  eof,        \* has the server closed the connection?
  seen,       \* what the server has of each call: its HEADERS, its DATA
  sent,       \* what the server has sent of each answer
  code,       \* the status in the trailers of each call, or -1
  blocks,     \* header blocks it has sent
  peer        \* SETTINGS and GOAWAY frames it has sent, and the mode, never changed

callVars == <<pc, streams, closes, status, payload, result, excused>>
serverVars == <<wire, eof, sent, code, blocks, peer>>
clientVars == <<npc, loop, cancelled, acked, decoded>>
vars == <<callVars, serverVars, clientVars, seen>>

Parts == 2   \* DATA frames of a message

Init ==
  /\ npc = "wait"
  /\ pc = [c \in Calls |-> "start"]
  /\ streams = {}
  /\ closes = [c \in Calls |-> 0]
  /\ status = [c \in Calls |-> -1]
  /\ payload = [c \in Calls |-> 0]
  /\ result = [c \in Calls |-> "none"]
  /\ excused = {}
  /\ loop = "run"
  /\ cancelled = FALSE
  /\ acked = 0
  /\ decoded = 0
  /\ wire = << >>
  /\ eof = FALSE
  /\ seen = [c \in Calls |-> "none"]
  /\ sent = [c \in Calls |-> "none"]
  /\ code = [c \in Calls |-> -1]
  /\ blocks = 0
  /\ \E m \in Modes : peer = [mode |-> m, settings |-> 0, goaways |-> 0]

-----------------------------------------------------------------------------
(* NewGRPCClient waits for the SETTINGS of the server, or 5 seconds. *)

Ready ==
  /\ npc = "wait"
  /\ acked > 0
  /\ npc' = "ready"
  /\ UNCHANGED <<callVars, serverVars, seen, loop, cancelled, acked, decoded>>

\* The caller gets an error; the read loop and the connection stay.
TimeOut ==
  /\ npc = "wait"
  /\ npc' = "failed"
  /\ UNCHANGED <<callVars, serverVars, seen, loop, cancelled, acked, decoded>>

-----------------------------------------------------------------------------
(* Call *)

Goto(c, label) == pc' = [pc EXCEPT ![c] = label]

\* Call returns r; the deferred function takes the stream out of the map.
Return(c, r) ==
  /\ Goto(c, "done")
  /\ result' = [result EXCEPT ![c] = r]
  /\ streams' = streams \ {c}

\* A write fails once the client is closed; a closed server may take it or not.
MayWrite == ~ cancelled
MayFail == cancelled \/ eof

\* The HEADERS are written before the stream is in the map.
WriteHeaders(c) ==
  /\ npc = "ready"
  /\ pc[c] = "start"
  /\ \/ /\ MayWrite
        /\ Goto(c, "headers")
        /\ seen' = [seen EXCEPT ![c] = "headers"]
        /\ UNCHANGED <<streams, result>>
     \/ MayFail /\ Return(c, "error") /\ UNCHANGED seen
  /\ UNCHANGED <<closes, status, payload, excused, serverVars, clientVars>>

\* Mutant of Store: the stream is stored when the request is complete.
StoreLate(c) ==
  /\ pc[c] = "headers"
  /\ Goto(c, "stored")
  /\ streams' = IF seen[c] = "data" THEN streams \cup {c} ELSE streams
  /\ UNCHANGED <<closes, status, payload, result, excused, serverVars, clientVars, seen>>

Store(c) ==
  /\ pc[c] = "headers"
  /\ streams' = streams \cup {c}
  /\ Goto(c, "stored")
  /\ UNCHANGED <<closes, status, payload, result, excused, serverVars, clientVars, seen>>

WriteData(c) ==
  /\ pc[c] = "stored"
  /\ \/ /\ MayWrite
        /\ Goto(c, "wait")
        /\ seen' = [seen EXCEPT ![c] = "data"]
        /\ UNCHANGED <<streams, result>>
     \/ MayFail /\ Return(c, "error") /\ UNCHANGED seen
  /\ UNCHANGED <<closes, status, payload, excused, serverVars, clientVars>>

\* Mutant of Outcome: the status is not looked at.
OutcomeAny(c) ==
  IF payload[c] = 0 THEN "error" ELSE IF payload[c] < Parts THEN "panic" ELSE "nil"

\* The end of the stream: a status that is not OK is an error, and so is an empty
\* payload; DecodeGrpcFrame slices beyond a payload that is cut short.
Outcome(c) ==
  IF status[c] # 0 \/ payload[c] = 0 THEN "error"
  ELSE IF payload[c] < Parts THEN "panic"
  ELSE "nil"

Done(c) ==
  /\ pc[c] = "wait"
  /\ closes[c] > 0
  /\ Return(c, Outcome(c))
  /\ UNCHANGED <<closes, status, payload, excused, serverVars, clientVars, seen>>

\* ctx.Done() of the caller, or of the client.
GiveUp(c) ==
  /\ pc[c] = "wait"
  /\ peer.mode.cancels
  /\ Return(c, "error")
  /\ UNCHANGED <<closes, status, payload, excused, serverVars, clientVars, seen>>

Close ==
  /\ peer.mode.cancels
  /\ npc = "ready"
  /\ ~ cancelled
  /\ cancelled' = TRUE
  /\ UNCHANGED <<callVars, serverVars, seen, npc, loop, acked, decoded>>

-----------------------------------------------------------------------------
(* The read loop *)

\* The next frame is f, and the loop is there to handle it.
Frame(f) ==
  /\ loop = "run"
  /\ ~ cancelled
  /\ wire # << >>
  /\ f = Head(wire)
  /\ wire' = Tail(wire)
  /\ UNCHANGED <<eof, sent, code, blocks, peer, seen, npc, cancelled, pc, result>>

\* Mutant of Finish: the streams stay in the map.
FinishKeep(cs) ==
  /\ closes' = [c \in Calls |-> closes[c] + IF c \in cs THEN 1 ELSE 0]
  /\ UNCHANGED streams

\* The streams of cs are taken out of the map and their callers woken.
Finish(cs) ==
  /\ streams' = streams \ cs
  /\ closes' = [c \in Calls |-> closes[c] + IF c \in cs THEN 1 ELSE 0]

Ended(f) == IF f.end THEN {f.call} ELSE {}

\* A frame of a stream that is not in the map is dropped.
processDataFrame(f) ==
  /\ Frame(f)
  /\ f.type = "DATA"
  /\ IF f.call \in streams
     THEN /\ payload' = [payload EXCEPT ![f.call] = @ + 1]
          /\ Finish(Ended(f))
     ELSE UNCHANGED <<payload, streams, closes>>
  /\ UNCHANGED <<status, excused, loop, acked, decoded>>

\* What the decoder makes of a block: the status in it, -1 if there is none, or an
\* error.
Undecoded == -2
Decode(f) ==
  IF f.block = decoded + 1 THEN {f.code} ELSE {Undecoded, -1, 0, 1}

\* The block of a stream that is not in the map is not decoded either.  One that
\* fails to decode leaves the stream as it is.
processHeaderFrame(f) ==
  /\ Frame(f)
  /\ f.type = "HEADERS"
  /\ IF f.call \in streams
     THEN \E s \in Decode(f) :
            /\ decoded' = IF f.block = decoded + 1 THEN f.block ELSE -1
            /\ status' = IF s < 0 THEN status
                         ELSE [status EXCEPT ![f.call] = s]
            /\ IF s = Undecoded THEN UNCHANGED <<streams, closes>> ELSE Finish(Ended(f))
     ELSE UNCHANGED <<decoded, status, streams, closes>>
  /\ UNCHANGED <<payload, excused, loop, acked>>

\* RST_STREAM for one stream, GOAWAY for all of them.
Abort(f, cs) ==
  /\ status' = [c \in Calls |-> IF c \in cs THEN f.code ELSE status[c]]
  /\ Finish(cs)
  /\ excused' = IF f.code = 0 THEN excused \cup cs ELSE excused
  /\ UNCHANGED <<payload, loop, acked, decoded>>

processRSTStreamFrame(f) ==
  /\ Frame(f)
  /\ f.type = "RST_STREAM"
  /\ Abort(f, streams \cap {f.call})

processGoAwayFrame(f) ==
  /\ Frame(f)
  /\ f.type = "GOAWAY"
  /\ Abort(f, streams)

\* settingsAcked is closed on every SETTINGS frame that is not an ack, unless the ack that
\* the client sends cannot be written.
processSettingsFrame(f) ==
  /\ Frame(f)
  /\ f.type = "SETTINGS"
  /\ acked' \in {acked + 1} \cup (IF eof \/ cancelled THEN {acked} ELSE {})
  /\ UNCHANGED <<status, payload, streams, closes, excused, loop, decoded>>

\* The loop sees that the client is closed, or the end of the connection.  Callers
\* that wait are not told of the latter.
LoopEnd ==
  /\ loop = "run"
  /\ \/ cancelled
     \/ eof /\ wire = << >>
  /\ loop' = "stopped"
  /\ UNCHANGED <<callVars, serverVars, seen, npc, cancelled, acked, decoded>>

Handle ==
  wire # << >> /\ LET f == Head(wire) IN
    \/ processDataFrame(f)
    \/ processHeaderFrame(f)
    \/ processRSTStreamFrame(f)
    \/ processGoAwayFrame(f)
    \/ processSettingsFrame(f)

-----------------------------------------------------------------------------
(* The server *)

Emit(f) ==
  /\ ~ eof
  /\ Len(wire) < peer.mode.wire
  /\ wire' = Append(wire, f)
  /\ UNCHANGED <<callVars, clientVars, seen, eof>>

SendSettings ==
  /\ peer.settings < MaxSettings
  /\ peer' = [peer EXCEPT !.settings = @ + 1]
  /\ Emit([type |-> "SETTINGS"])
  /\ UNCHANGED <<sent, code, blocks>>

\* The server answers a call whose request it has.
MayAnswer(c) == peer.settings > 0 /\ seen[c] \in (IF peer.mode.eager THEN {"headers", "data"} ELSE {"data"})

SendHeaders(c) ==
  /\ MayAnswer(c) /\ sent[c] = "none"
  /\ sent' = [sent EXCEPT ![c] = "headers"]
  /\ blocks' = blocks + 1
  /\ Emit([type |-> "HEADERS", call |-> c, end |-> FALSE, block |-> blocks + 1, code |-> -1])
  /\ UNCHANGED <<code, peer>>

\* A server that is not a gRPC server ends the answer with DATA.
SendData(c, end) ==
  /\ sent[c] \in {"headers", "part"}
  /\ sent' = [sent EXCEPT ![c] = IF end THEN "end" ELSE IF @ = "headers" THEN "part" ELSE "data"]
  /\ Emit([type |-> "DATA", call |-> c, end |-> end])
  /\ UNCHANGED <<code, blocks, peer>>

\* The trailers; a status that is not OK needs no message before them.
SendTrailers(c, s) ==
  /\ MayAnswer(c)
  /\ IF s = 0 THEN sent[c] = "data" ELSE sent[c] \in {"none", "headers", "part", "data"}
  /\ sent' = [sent EXCEPT ![c] = "end"]
  /\ code' = [code EXCEPT ![c] = s]
  /\ blocks' = blocks + 1
  /\ Emit([type |-> "HEADERS", call |-> c, end |-> TRUE, block |-> blocks + 1, code |-> s])
  /\ UNCHANGED <<peer>>

SendReset(c, k) ==
  /\ MayAnswer(c) /\ sent[c] # "end"
  /\ sent' = [sent EXCEPT ![c] = "end"]
  /\ Emit([type |-> "RST_STREAM", call |-> c, code |-> k])
  /\ UNCHANGED <<code, blocks, peer>>

\* GOAWAY, after which the server answers what it has begun.
SendGoAway(k) ==
  /\ peer.settings > 0
  /\ peer.goaways < peer.mode.goaways
  /\ peer' = [peer EXCEPT !.goaways = @ + 1]
  /\ \E c \in Calls : seen[c] # "none" /\ sent[c] # "end"
  /\ Emit([type |-> "GOAWAY", code |-> k])
  /\ UNCHANGED <<sent, code, blocks>>

Hangup ==
  /\ peer.mode.cancels /\ peer.settings > 0
  /\ ~ eof
  /\ eof' = TRUE
  /\ UNCHANGED <<callVars, clientVars, seen, wire, sent, code, blocks, peer>>

Server ==
  \/ SendSettings
  \/ \E c \in Calls :
       \/ SendHeaders(c)
       \/ \E end \in BOOLEAN : SendData(c, end)
       \/ \E s \in 0 .. 1 : SendTrailers(c, s)
       \/ \E k \in peer.mode.codes : SendReset(c, k)
  \/ \E k \in peer.mode.codes : SendGoAway(k)
  \/ Hangup

Caller(c) == WriteHeaders(c) \/ Store(c) \/ WriteData(c) \/ Done(c) \/ GiveUp(c)

Next ==
  \/ Ready
  \/ TimeOut
  \/ \E c \in Calls : Caller(c)
  \/ Close
  \/ Handle
  \/ LoopEnd
  \/ Server

Spec == Init /\ [][Next]_vars

-----------------------------------------------------------------------------
(* Properties *)

TypeOK ==
  /\ npc \in {"wait", "ready", "failed"}
  /\ pc \in [Calls -> {"start", "headers", "stored", "wait", "done"}]
  /\ streams \subseteq Calls
  /\ status \in [Calls -> Int] /\ payload \in [Calls -> 0 .. Parts]
  /\ result \in [Calls -> {"none", "nil", "error", "panic"}]
  /\ loop \in {"run", "stopped"} /\ decoded \in -1 .. blocks
  /\ acked <= peer.settings

\* The doneCh of a call is closed at most once, whatever the order of END_STREAM,
\* RST_STREAM and GOAWAY: a second close would panic in the read loop.
ClosedOnce == \A c \in Calls : closes[c] <= 1

\* Streams of calls that have returned do not stay in the map.
NoLeftovers == \A c \in Calls : pc[c] = "done" => c \notin streams

\* Both, which keeps the map and the doneChs in step.
StreamsEndOnce == TypeOK /\ ClosedOnce /\ NoLeftovers

\* A Call returns nil only if the server has sent its whole message, and an OK
\* status behind it unless a reset or GOAWAY with NO_ERROR, which the client takes
\* for an OK status, came first.  This needs the header decoder in step.
NilIsEarned ==
  \A c \in Calls : result[c] = "nil" /\ decoded # -1 =>
    /\ sent[c] \in {"data", "end"}
    /\ code[c] = 0 \/ c \in excused

\* Call panics on a message that is cut short only after such a reset or GOAWAY.
PanicsWhenExcused ==
  \A c \in Calls : result[c] = "panic" /\ decoded # -1 => c \in excused

\* What Call returns is what the server has sent.
OutcomeIsEarned == NilIsEarned /\ PanicsWhenExcused

\* The decoder sees every header block as long as no caller gives up and the
\* server answers requests that are complete: the stream is in the map before
\* the DATA frame is written.
InStep == ~ peer.mode.eager /\ ~ peer.mode.cancels => decoded # -1

\* No answer is lost on such a connection: once the end of an answer has been read,
\* its caller is woken.
AnswerArrives ==
  \A c \in Calls :
    /\ ~ peer.mode.eager /\ ~ peer.mode.cancels
    /\ pc[c] = "wait" /\ sent[c] = "end"
    /\ \A i \in 1 .. Len(wire) : wire[i].type = "SETTINGS" \/ wire[i].call # c
    => closes[c] > 0

\* Both: an orderly server is understood.
OrderlyServer == InStep /\ AnswerArrives
==============================================================================
