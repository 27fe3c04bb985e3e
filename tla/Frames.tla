------------------------------- MODULE Frames --------------------------------
(***************************************************************************)
(* The HTTP/2 frames that binproto/http2 and grpc/tcpclient write and read *)
(* byte by byte, and the gRPC messages inside DATA frames.  A connection   *)
(* is a sequence of runs of bytes: nine bytes of header, kept as numbers,  *)
(* or a payload, of which only the size and, for a gRPC message, the five  *)
(* bytes in front are kept.                                                *)
(***************************************************************************)
EXTENDS Naturals, Sequences, SequencesExt

CONSTANTS
  Sizes,       \* payload sizes that are written
  StreamIds,   \* stream identifiers
  MaxFrames    \* bound: frames written

VARIABLES
  written,   \* history: what the writers were asked for
  wire,      \* the runs not read yet
  reader     \* ReadFrames: where it is, the header, the payload to come, what it got

vars == <<written, wire, reader>>

Byte(n, i) == (n \div 2 ^ (8 * i)) % 256
Uint32(n) == <<Byte(n, 3), Byte(n, 2), Byte(n, 1), Byte(n, 0)>>

\* Mutant of Length3: the low bytes are swapped.
Length3Swapped(n) == <<Byte(n, 2), Byte(n, 0), Byte(n, 1)>>

\* The length of a frame, in the first three bytes of its header.
Length3(n) == <<Byte(n, 2), Byte(n, 1), Byte(n, 0)>>

\* The length as four bytes, of which the frame's type then takes the last.
Length4(n) == SubSeq(Uint32(n), 1, 3)

\* A header and its payload go to the connection, in two writes.
Put(length, type, flags, id, body) ==
  /\ Len(written) < MaxFrames
  /\ written' = Append(written, [n |-> body.n, type |-> type, flags |-> flags, id |-> id,
                                 three |-> length = Length3(body.n), pre |-> body.pre])
  /\ wire' = wire \o <<[kind |-> "header", bytes |-> length \o <<type, flags>> \o Uint32(id)]>>
                  \o (IF body.n = 0 THEN << >> ELSE <<[kind |-> "payload", body |-> body]>>)
  /\ UNCHANGED reader

Plain(n) == [n |-> n, pre |-> << >>]

\* EncodeGrpcPayload and EncodeGrpcFrame: not compressed, the length, the message.
EncodeGrpcPayload(m) == [n |-> m + 5, pre |-> <<0, m>>]

\* The bodies of DATA frames: nothing, a message, its first bytes only, a compressed one.
Bodies ==
  {Plain(0)} \cup {EncodeGrpcPayload(m) : m \in Sizes}
    \cup {[n |-> 6, pre |-> <<0, m>>] : m \in Sizes} \cup {[n |-> 6, pre |-> <<1, 1>>]}

-----------------------------------------------------------------------------
(* The writers of binproto/http2 *)

WriteDataFrame(id, body) == Put(Length3(body.n), 0, 0, id, body)
sendDataFrame(body) == Put(Length3(body.n), 0, 1, 1, body)
WriteHeadersFrame(id, n) == Put(Length3(n), 1, 4, id, Plain(n))
sendHeadersFrame == Put(Length3(1), 1, 4, 1, Plain(1))
sendPriorityFrame == Put(Length4(5), 2, 0, 1, Plain(5))
sendResetStreamFrame == Put(Length4(4), 3, 0, 1, Plain(4))
sendSettingsFrame == Put(Length4(0), 4, 0, 0, Plain(0))
WriteSettingsFrame(flags, n) == Put(Length3(n), 4, flags, 0, Plain(n))
sendPushPromiseFrame == Put(Length3(4 + 1), 5, 4, 1, Plain(4 + 1))
WritePingFrame(n) == n = 8 /\ Put(Length3(n), 6, 0, 0, Plain(n))
sendPingFrame == Put(Length4(8), 6, 0, 0, Plain(8))
sendGoAwayFrame == Put(Length4(8), 7, 0, 0, Plain(4 + 4))
sendWindowUpdateFrame == Put(Length4(4), 8, 0, 0, Plain(4))
sendContinuationFrame == Put(Length3(1), 9, 4, 1, Plain(1))

(* and those of grpc/tcpclient, which set the flags *)

tcpWriteDataFrame(id, flags, body) == Put(Length3(body.n), 0, flags, id, body)
tcpWriteHeadersFrame(id, flags, n) == Put(Length3(n), 1, flags, id, Plain(n))
tcpWriteSettingsFrame(flags, n) == Put(Length3(n), 4, flags, 0, Plain(n))
tcpWritePingFrame(flags, n) == n = 8 /\ Put(Length3(n), 6, flags, 0, Plain(n))

Write ==
  \/ \E id \in StreamIds, b \in Bodies :
       WriteDataFrame(id, b) \/ sendDataFrame(b) \/ tcpWriteDataFrame(id, 1, b)
  \/ \E id \in StreamIds, n \in Sizes :
       \/ WriteHeadersFrame(id, n) \/ tcpWriteHeadersFrame(id, 4, n)
       \/ WriteSettingsFrame(0, n) \/ WritePingFrame(n)
       \/ tcpWriteSettingsFrame(1, n) \/ tcpWritePingFrame(1, n)
  \/ sendHeadersFrame \/ sendPriorityFrame \/ sendResetStreamFrame \/ sendSettingsFrame
  \/ sendPushPromiseFrame \/ sendPingFrame \/ sendGoAwayFrame \/ sendWindowUpdateFrame
  \/ sendContinuationFrame

-----------------------------------------------------------------------------
(* The readers *)

\* readFrameHeader: big-endian, the top bit of the stream identifier masked.
readFrameHeader(b) ==
  [n |-> b[1] * 65536 + b[2] * 256 + b[3], type |-> b[4], flags |-> b[5],
   id |-> (b[6] % 128) * 16777216 + b[7] * 65536 + b[8] * 256 + b[9]]

NoHeader == readFrameHeader(<<0, 0, 0, 0, 0, 0, 0, 0, 0>>)

\* DecodeGrpcFrame on the payload of a DATA frame: too short or compressed is an error,
\* a message longer than the data a slice out of range, else the message's size.
DecodeGrpcFrame(body) ==
  IF body.n < 5 THEN "error"
  ELSE IF 5 + body.pre[2] > body.n THEN "panic"
  ELSE IF body.pre[1] # 0 THEN "error" ELSE "message"

Handled(h, body) ==
  LET r == [reader EXCEPT !.pc = "header", !.got = Append(@, h), !.left = 0] IN
  CASE h.type = 0 /\ DecodeGrpcFrame(body) = "panic" -> [r EXCEPT !.pc = "panic"]
    [] h.type = 0 /\ DecodeGrpcFrame(body) = "message" ->
         [r EXCEPT !.messages = Append(@, body.pre[2])]
    [] h.type = 6 /\ reader.pings % 5 = 0 /\ h.n # 8 -> [r EXCEPT !.pc = "error"]
    [] h.type = 6 -> [r EXCEPT !.pings = @ + 1]
    [] OTHER -> r

\* ReadFrames reads a header; RST_STREAM ends it before its payload is read.  Past a
\* payload that was not read the bytes are no header: the reader has lost its place.
ReadHeader ==
  /\ reader.pc = "header" /\ wire # << >>
  /\ LET w == Head(wire) IN
       \/ w.kind = "payload" /\ reader' = [reader EXCEPT !.pc = "lost"] /\ UNCHANGED wire
       \/ /\ w.kind = "header" /\ wire' = Tail(wire)
          /\ LET h == readFrameHeader(w.bytes) IN
             reader' = IF h.type = 3 THEN [reader EXCEPT !.pc = "return", !.got = Append(@, h)]
                       ELSE IF h.n = 0 THEN Handled(h, Plain(0))
                       ELSE [reader EXCEPT !.pc = "payload", !.header = h, !.left = h.n]
  /\ UNCHANGED written

\* readFramePayload: reads return what has arrived, until the length is reached; one
\* short read per payload stands for any number.
ReadPayload ==
  /\ reader.pc = "payload"
  /\ LET body == Head(wire).body
         rest == body.n - reader.header.n IN
     \/ /\ reader.left = reader.header.n /\ reader.left > 1
        /\ reader' = [reader EXCEPT !.left = 1]
        /\ UNCHANGED wire
     \/ /\ reader' = Handled(reader.header, [body EXCEPT !.n = reader.header.n])
        /\ wire' = (IF rest = 0 THEN << >> ELSE <<[kind |-> "payload", body |-> Plain(rest)]>>)
                   \o Tail(wire)
  /\ UNCHANGED written

Init ==
  /\ written = << >> /\ wire = << >>
  /\ reader = [pc |-> "header", header |-> NoHeader, left |-> 0, got |-> << >>,
               messages |-> << >>, pings |-> 0]

Next == Write \/ ReadHeader \/ ReadPayload

Spec == Init /\ [][Next]_vars

-----------------------------------------------------------------------------
(* Properties *)

Faithful(w) == w.three /\ w.n < 2 ^ 24
FaithfulUpTo(i) == \A j \in 1 .. i : Faithful(written[j])
Whole(w) == w.type = 0 /\ w.pre # << >> /\ w.pre[1] = 0 /\ 5 + w.pre[2] <= w.n

\* What is read is what was written, frame by frame, across writers, sizes and short
\* reads, up to the first frame whose header does not declare its payload: one of 16 MB
\* and more, or one of the writers that put the length in four bytes.  Only then does
\* the reader lose its place.  The messages it decodes are the whole ones in the DATA
\* frames it read, in order, and it panics only on a DATA frame with part of a message.
FramesInStep ==
  /\ \A i \in DOMAIN reader.got : FaithfulUpTo(i) =>
       \A k \in {"n", "type", "flags", "id"} : reader.got[i][k] = written[i][k]
  /\ reader.pc = "lost" => ~FaithfulUpTo(Len(reader.got))
  /\ FaithfulUpTo(Len(reader.got)) =>
       LET W == SubSeq(written, 1, Len(reader.got)) IN
       /\ reader.messages = LET M == SelectSeq(W, Whole) IN [i \in DOMAIN M |-> M[i].pre[2]]
       /\ reader.pc = "panic" => W[Len(W)].type = 0 /\ ~Whole(W[Len(W)])
==============================================================================
