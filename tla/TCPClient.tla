----------------------------- MODULE TCPClient -------------------------------
(***************************************************************************)
(* The gRPC client of grpc/tcpclient: NewGRPCClient, Call and Close, the   *)
(* read loop with a handler per frame type, against an HTTP/2 server that  *)
(* answers each stream in any legal way, pings, changes its settings, goes *)
(* away or closes the connection.  One step per section under a lock, per  *)
(* frame written and per frame read.                                       *)
(***************************************************************************)
EXTENDS Naturals, Integers, Sequences, FiniteSets, SequencesExt

CONSTANTS
  Calls,        \* the goroutines that Call
  Servers,      \* what servers do: the status codes they send, 0 being success; whether
                \* they send a message in two frames; whether they are lax, with a status
                \* in the headers and END_STREAM on data; how many PING, SETTINGS and
                \* GOAWAY frames they send
  MaxIn         \* bound: frames on their way to the client

None == -1                  \* grpcStatus before a status came
Ids == {2 * i - 1 : i \in 1 .. Cardinality(Calls)}
Frame(t, id, v, end) == [type |-> t, id |-> id, v |-> v, end |-> end]   \* end: END_STREAM

VARIABLES
  new,        \* NewGRPCClient: "dial", "settings", then "ok" or "error"
  call,       \* c -> where Call is, its stream and what came for it
  idGen,      \* streams opened so far
  streams,    \* clientStreams: id -> the call that stored it
  loop,       \* the read loop: "off", "run", "done"; "panic": the process has ended
  acked,      \* the server's settings are acknowledged: settingsAcked is closed
  up,         \* the ends of the connection that are open
  out,        \* the HEADERS and DATA frames the client wrote, all of them
  in,         \* frames on their way to the client
  server,     \* the server connected to
  answered,   \* id -> how far the server is with the stream, and its last status
  control,    \* control frames the server has sent
  lost,       \* the decoder has not seen a header block the server encoded
  missed      \* history: streams that ended while clientStreams had no entry

vars == <<new, call, idGen, streams, loop, acked, up, out, in, server, answered, control, lost, missed>>
serverVars == <<server, answered, control>>
Codes == server.codes

Fresh == [pc |-> "idle", id |-> 0, status |-> None, payload |-> << >>, done |-> FALSE,
          res |-> "none", why |-> "none"]

TypeOK ==
  /\ new \in {"dial", "settings", "ok", "error"}
  /\ \A c \in Calls : /\ call[c].pc \in {"idle", "store", "data", "wait", "done"}
                      /\ call[c].id \in Ids \cup {0}
                      /\ call[c].res \in {"none", "nil", "status", "decode", "panic", "ctx", "write"}
  /\ idGen \in 0 .. Cardinality(Calls)
  /\ DOMAIN streams \subseteq Ids
  /\ loop \in {"off", "run", "done", "panic"}
  /\ up \subseteq {"client", "server"}
  /\ answered \in [Ids -> [at : {"none", "head", "part", "all", "end"}, code : Codes \cup {None}]]
  /\ server \in Servers /\ control \in 0 .. server.control
  /\ lost \in BOOLEAN

Init ==
  /\ new = "dial"
  /\ call = [c \in Calls |-> Fresh]
  /\ idGen = 0 /\ streams = << >> /\ loop = "off" /\ acked = FALSE /\ up = {}
  /\ out = << >> /\ in = << >>
  /\ answered = [i \in Ids |-> [at |-> "none", code |-> None]]
  /\ server \in Servers /\ control = 0
  /\ lost = FALSE /\ missed = {}

-----------------------------------------------------------------------------
(* NewGRPCClient and Close *)

\* dialConn writes the preface, NewGRPCClient its settings, and the read loop starts;
\* the server's own settings are the first frame that comes back.
Dial ==
  /\ new = "dial"
  /\ \/ /\ new' = "settings" /\ loop' = "run" /\ up' = {"client", "server"}
        /\ in' = <<Frame("SETTINGS", 0, 0, FALSE)>>
     \/ new' = "error" /\ UNCHANGED <<loop, up, in>>
  /\ UNCHANGED <<call, idGen, streams, acked, out, serverVars, lost, missed>>

\* The client is returned once the server's settings have been acknowledged; after
\* five seconds an error is, and the connection and its read loop stay.
Settled ==
  /\ new = "settings"
  /\ new' \in (IF acked THEN {"ok"} ELSE {"error"})
  /\ UNCHANGED <<call, idGen, streams, loop, acked, up, out, in, serverVars, lost, missed>>

\* Close cancels the client's context and closes the connection.
Close ==
  /\ new = "ok" /\ "client" \in up
  /\ up' = up \ {"client"} /\ in' = << >>
  /\ UNCHANGED <<new, call, idGen, streams, loop, acked, out, serverVars, lost, missed>>

-----------------------------------------------------------------------------
(* Call *)

Set(c, r) == call' = [call EXCEPT ![c] = r]
\* A Call that returns an error has no use for what came.
Returned(c, why) ==
  [(IF why = "nil" THEN call[c] ELSE [Fresh EXCEPT !.id = call[c].id])
     EXCEPT !.pc = "done", !.res = why]
\* The deferred clientStreams.Delete.
Delete(id) == streams' = [i \in DOMAIN streams \ {id} |-> streams[i]]
WriteOk == up = {"client", "server"}

\* Mutant of OpenStream: the stream's number is its caller's place, not the next one.
OpenStreamOther(c) ==
  /\ new = "ok" /\ call[c].pc = "idle"
  /\ idGen' = idGen + 1
  /\ \E id \in Ids \ {call[d].id : d \in Calls} :
       /\ WriteOk /\ out' = Append(out, Frame("HEADERS", id, c, FALSE))
       /\ Set(c, [call[c] EXCEPT !.pc = "store", !.id = id])
  /\ UNCHANGED <<new, streams, loop, acked, up, in, serverVars, lost, missed>>

\* Under writeMu: the next stream id, the header block encoded, the HEADERS frame.
OpenStream(c) ==
  /\ new = "ok" /\ call[c].pc = "idle"
  /\ idGen' = idGen + 1
  /\ LET id == 2 * (idGen + 1) - 1 IN
       \/ /\ WriteOk /\ out' = Append(out, Frame("HEADERS", id, c, FALSE))
          /\ Set(c, [call[c] EXCEPT !.pc = "store", !.id = id])
       \/ /\ ~WriteOk /\ Set(c, [Returned(c, "write") EXCEPT !.id = id])
          /\ UNCHANGED out
  /\ UNCHANGED <<new, streams, loop, acked, up, in, serverVars, lost, missed>>

\* clientStreams.Store, after the lock is released.
Store(c) ==
  /\ call[c].pc = "store"
  /\ streams' = [i \in DOMAIN streams \cup {call[c].id} |->
                   IF i = call[c].id THEN c ELSE streams[i]]
  /\ Set(c, [call[c] EXCEPT !.pc = "data"])
  /\ UNCHANGED <<new, idGen, loop, acked, up, out, in, serverVars, lost, missed>>

\* Under writeMu: the request as a DATA frame that ends the stream.
SendData(c) ==
  /\ call[c].pc = "data"
  /\ \/ /\ WriteOk /\ out' = Append(out, Frame("DATA", call[c].id, c, TRUE))
        /\ Set(c, [call[c] EXCEPT !.pc = "wait"]) /\ UNCHANGED streams
     \/ ~WriteOk /\ Set(c, Returned(c, "write")) /\ Delete(call[c].id) /\ UNCHANGED out
  /\ UNCHANGED <<new, idGen, loop, acked, up, in, serverVars, lost, missed>>

\* The payload is one whole message, or only the beginning of one.
Whole(p) == [i \in DOMAIN p |-> p[i].piece] \in {<<"all">>, <<"head", "tail">>}
Cut(p) == [i \in DOMAIN p |-> p[i].piece] = <<"head">>

\* Mutant of Outcome: the status is not looked at.
OutcomeByPayload(c) == IF Whole(call[c].payload) THEN {"nil"} ELSE {"decode"}

\* A status other than 0 is an error, and so is a payload without a message.  Of a message
\* that is cut short DecodeGrpcFrameWithDecompress takes the slice that its length says:
\* the slice is out of range, or it reaches into the spare capacity behind the payload,
\* whose zeros may or may not make a message.
Outcome(c) == IF call[c].status # 0 THEN {"status"}
              ELSE IF Whole(call[c].payload) THEN {"nil"}
              ELSE IF Cut(call[c].payload) THEN {"panic", "decode", "nil"} ELSE {"decode"}

\* The select of Call: the stream is done, or the client's context is.
Finish(c) ==
  /\ call[c].pc = "wait"
  /\ \/ \E o \in Outcome(c) : /\ call[c].done /\ Set(c, Returned(c, o))
                              /\ loop' = IF o = "panic" THEN "panic" ELSE loop
     \/ "client" \notin up /\ Set(c, Returned(c, "ctx")) /\ UNCHANGED loop
  /\ Delete(call[c].id)
  /\ UNCHANGED <<new, idGen, acked, up, out, in, serverVars, lost, missed>>

\* Or the caller's context is.
Expire(c) ==
  /\ call[c].pc = "wait"
  /\ Set(c, Returned(c, "ctx"))
  /\ Delete(call[c].id)
  /\ UNCHANGED <<new, idGen, loop, acked, up, out, in, serverVars, lost, missed>>

-----------------------------------------------------------------------------
(* readLoop and the frame handlers.  f is the frame read *)

Loaded(f) == f.id \in DOMAIN streams
Owner(f) == streams[f.id]
Ends(f, why) == [call[Owner(f)] EXCEPT !.done = TRUE, !.why = why]
Miss(f) == missed' = IF Loaded(f) THEN missed ELSE missed \cup {f.id}

\* END_STREAM on a DATA frame ends the stream as it does on trailers.
handleDataFrame(f) ==
  /\ f.type = "DATA"
  /\ IF ~Loaded(f) THEN UNCHANGED <<call, streams>>
     ELSE LET r == IF f.end THEN Ends(f, "data") ELSE call[Owner(f)] IN
          /\ Set(Owner(f), [r EXCEPT !.payload = Append(@, f.v)])
          /\ IF f.end THEN Delete(f.id) ELSE UNCHANGED streams
  /\ IF f.end THEN Miss(f) ELSE UNCHANGED missed
  /\ UNCHANGED <<loop, acked, lost>>

\* What DecodeFull yields: the value sent, as long as the decoder has seen every block
\* before; otherwise its table is not the encoder's and the value may be any.
Decoded(f, s) == IF lost THEN s \in Codes \cup {None} ELSE s = f.v

\* A block is decoded only when its stream is known, and then may fail to: the handler
\* returns with the stream as it was.  A grpc-status is taken from any block, and one
\* with END_STREAM ends the stream, with or without a status.
handleHeadersFrame(f) ==
  /\ f.type = "HEADERS"
  /\ lost' = (lost \/ ~Loaded(f))
  /\ \/ (Loaded(f) => lost) /\ UNCHANGED <<call, streams>>
     \/ /\ Loaded(f)
        /\ \E s \in Codes \cup {None} :
             /\ Decoded(f, s)
             /\ LET r == IF f.end THEN Ends(f, "trailers") ELSE call[Owner(f)] IN
                Set(Owner(f), [r EXCEPT !.status = IF s = None THEN @ ELSE s])
        /\ IF f.end THEN Delete(f.id) ELSE UNCHANGED streams
  /\ IF f.end THEN Miss(f) ELSE UNCHANGED missed
  /\ UNCHANGED <<loop, acked>>

\* The reset's error code becomes the status.
handleRSTStreamFrame(f) ==
  /\ f.type = "RST"
  /\ IF Loaded(f) THEN Set(Owner(f), [Ends(f, "reset") EXCEPT !.status = f.v]) /\ Delete(f.id)
                  ELSE UNCHANGED <<call, streams>>
  /\ Miss(f)
  /\ UNCHANGED <<loop, acked, lost>>

\* An acknowledgement goes out and settingsAcked is closed: a second time panics.
handleSettingsFrame(f) ==
  /\ f.type = "SETTINGS"
  /\ IF WriteOk
     THEN acked' = TRUE /\ loop' = IF acked THEN "panic" ELSE loop
     ELSE UNCHANGED <<acked, loop>>
  /\ UNCHANGED <<call, streams, lost, missed>>

\* The acknowledgement goes out under writeMu, between two frames of the callers.
handlePingFrame(f) ==
  /\ f.type = "PING"
  /\ UNCHANGED <<call, streams, loop, acked, lost, missed>>

\* Every stream stored ends with the frame's error code as its status.
handleGoAwayFrame(f) ==
  /\ f.type = "GOAWAY"
  /\ call' = [c \in Calls |->
       IF \E i \in DOMAIN streams : streams[i] = c
       THEN [call[c] EXCEPT !.done = TRUE, !.status = f.v, !.why = "goaway"] ELSE call[c]]
  /\ streams' = << >>
  /\ UNCHANGED <<loop, acked, lost, missed>>

\* readFrame reads a frame and runs its handler.
ReadFrame ==
  /\ loop = "run" /\ "client" \in up /\ in # << >>
  /\ in' = Tail(in)
  /\ LET f == Head(in) IN
          \/ handleDataFrame(f) \/ handleHeadersFrame(f) \/ handleRSTStreamFrame(f)
          \/ handleSettingsFrame(f) \/ handlePingFrame(f) \/ handleGoAwayFrame(f)
  /\ UNCHANGED <<new, idGen, up, out, serverVars>>

\* The loop ends only with the client's context: the end of the connection reaches it
\* as another error than io.EOF, and it tries again.
LoopEnds ==
  /\ loop = "run" /\ "client" \notin up
  /\ loop' = "done"
  /\ UNCHANGED <<new, call, idGen, streams, acked, up, out, in, serverVars, lost, missed>>

-----------------------------------------------------------------------------
(* The server, external *)

Arrived(id, t) == \E i \in DOMAIN out : out[i].type = t /\ out[i].id = id
CallOf(id) == out[CHOOSE i \in DOMAIN out : out[i].type = "HEADERS" /\ out[i].id = id].v

\* The frames that may come next on a stream: headers, the message in one frame or in
\* two, trailers, each of the last two with or without END_STREAM; trailers or a reset at
\* any time.  The status is in the trailers or, from a server that is not strict, in the
\* headers; 0 in a reset says NO_ERROR.
Frames(id) ==
  LET at == answered[id].at
      Data(p, end) == Frame("DATA", id, [of |-> CallOf(id), piece |-> p], end) IN
  {Frame("HEADERS", id, s, FALSE) :
     s \in IF at # "none" THEN {} ELSE IF server.lax THEN Codes \cup {None} ELSE {None}}
  \cup {Data(p, e) :
     p \in (CASE at = "head" -> IF server.split THEN {"head"} ELSE {"all"}
              [] at = "part" -> {"tail"} [] OTHER -> {}),
     e \in IF server.lax THEN BOOLEAN ELSE {FALSE}}
  \cup {Frame("HEADERS", id, s, TRUE) : s \in IF answered[id].code = None THEN Codes ELSE {None}}
  \cup {Frame("RST", id, s, TRUE) : s \in Codes}

After(at, f) ==
  CASE f.end -> "end" [] f.type = "HEADERS" -> "head"
    [] OTHER -> IF f.v.piece = "head" THEN "part" ELSE "all"

\* It answers a stream whose request has come, or ends it early.
Answer(id) ==
  /\ WriteOk /\ Len(in) < MaxIn /\ Arrived(id, "HEADERS") /\ answered[id].at # "end"
  /\ \E f \in Frames(id) :
       /\ f.end \/ Arrived(id, "DATA")
       /\ in' = Append(in, f)
       /\ answered' = [answered EXCEPT ![id] =
            [at |-> After(@.at, f), code |-> IF f.type = "DATA" \/ f.v = None THEN @.code ELSE f.v]]
  /\ UNCHANGED <<new, call, idGen, streams, loop, acked, up, out, server, control, lost, missed>>

Control ==
  /\ WriteOk /\ Len(in) < MaxIn /\ control < server.control
  /\ control' = control + 1
  /\ \/ in' = Append(in, Frame("PING", 0, 0, FALSE))
     \/ new = "ok" /\ in' = Append(in, Frame("SETTINGS", 0, 0, FALSE))
     \/ \E s \in Codes : in' = Append(in, Frame("GOAWAY", 0, s, FALSE))
  /\ UNCHANGED <<new, call, idGen, streams, loop, acked, up, out, server, answered, lost, missed>>

HangUp ==
  /\ WriteOk /\ up' = {"client"}
  /\ UNCHANGED <<new, call, idGen, streams, loop, acked, out, in, serverVars, lost, missed>>

\* A step of the process, which a panic in the read loop or in a Call ends.
Step(c) == OpenStream(c) \/ Store(c) \/ SendData(c) \/ Finish(c)

Next ==
  /\ loop # "panic"
  /\ \/ Dial \/ Settled \/ Close \/ ReadFrame \/ LoopEnds
     \/ \E c \in Calls : Step(c) \/ Expire(c)
     \/ \E id \in Ids : Answer(id)
     \/ Control \/ HangUp

Spec == Init /\ [][Next]_vars

-----------------------------------------------------------------------------
(* Properties *)

\* What the peer sees: streams open in the order of their numbers, whatever the order
\* of the callers, so that header blocks come in the order they were encoded in; the
\* data of a stream follows its headers and is its caller's.
WireInOrder ==
  LET H == SelectSeq(out, LAMBDA f : f.type = "HEADERS") IN
  /\ \A i \in DOMAIN H : H[i].id = 2 * i - 1
  /\ \A i \in DOMAIN out : out[i].type = "DATA" =>
       \E j \in 1 .. i - 1 : out[j] = Frame("HEADERS", out[i].id, out[i].v, FALSE)

\* A Call that returns nil got bytes of its own answer only, and its status 0 is one the
\* server sent for it: in a header block of the stream, or as the code of a RST_STREAM or
\* a GOAWAY, where 0 says NO_ERROR.  It has the whole message unless a frame with such a
\* status came before the rest of it, which the client takes for the end of a good
\* answer.  The exception is a decoder that has skipped a block of a stream no longer
\* known: from then on a status is whatever it makes of the block.
EarnedByServer ==
  \A c \in Calls : call[c].res = "nil" =>
    /\ \A i \in DOMAIN call[c].payload : call[c].payload[i].of = c
    /\ lost \/ call[c].why = "goaway" \/ answered[call[c].id].code = 0
    /\ \/ Whole(call[c].payload)
       \/ Cut(call[c].payload) /\ (call[c].why = "goaway" \/ answered[call[c].id].at = "end")

\* The end of a stream wakes its caller: once the frame that ends it has been read, a
\* Call that waits finds doneCh closed.  Two ways out leave it to its context: the end
\* came between the HEADERS frame and Store, or to a decoder that has lost its table.
EndWakesCaller ==
  \A c \in Calls :
    (call[c].pc = "wait" /\ answered[call[c].id].at = "end" /\ ~call[c].done /\ "client" \in up) =>
      \/ \E i \in DOMAIN in : in[i].id = call[c].id
      \/ call[c].id \in missed \/ lost
==============================================================================
