--------------------------- MODULE BufferedReader ----------------------------
(***************************************************************************)
(* buf/reader.go, BufferedReader, over buf/readv_reader.go, ReadVReader,   *)
(* over a connection.  The peer sends bytes and then ends the stream; one  *)
(* goroutine calls the operations of the reader.  The bytes are numbered   *)
(* in the order in which the peer sends them.                              *)
(***************************************************************************)
EXTENDS Buf

CONSTANTS
  MaxBytes,       \* bound: bytes the peer sends
  MaxBuffers,     \* the most buffers that one readv fills, 8 in the code
  DataWithEOF     \* may a read of the connection give its last bytes with EOF?

VARIABLES
  sent, ended,    \* how many bytes the peer has sent, and whether it is done
  taken,          \* how many of them the connection has delivered
  failed,         \* "no", "reset" by the peer, after which an errno is read once, by a
                  \* call that is "told" or a readv that has "dropped" it
  shut,           \* was the connection closed here, or has its deadline passed?
  current,        \* allocStrategy.current
  buffer,         \* BufferedReader.Buffer
  out,            \* the bytes the caller got, in order
  lost,           \* the bytes that the reader has given up
  spare,          \* how many bytes less than asked for the last call gave
  res, werr,      \* the error of the last call, and that of its writer
  wpc, size       \* WriteTo: is it in its loop, and its SizeCounter

vars == <<sent, ended, failed, shut, taken, current, buffer, out, lost, spare, res, werr, wpc, size>>

Init ==
  /\ sent = 0 /\ ended = FALSE /\ taken = 0 /\ failed = "no" /\ shut = FALSE
  /\ current = 1
  /\ buffer = << >>
  /\ out = << >>
  /\ lost = {}
  /\ spare = 0
  /\ res = "nil" /\ werr = "nil"
  /\ wpc = "idle" /\ size = 0

-----------------------------------------------------------------------------
(* The connection *)

readerVars == <<taken, current, buffer, out, lost, spare, res, werr, wpc, size>>

Send ==
  /\ ~ ended /\ failed = "no"
  /\ sent < MaxBytes
  /\ sent' = sent + 1
  /\ UNCHANGED <<ended, failed, shut, readerVars>>

End ==
  /\ ~ ended /\ failed = "no"
  /\ ended' = TRUE
  /\ UNCHANGED <<sent, failed, shut, readerVars>>

Reset ==
  /\ ~ ended /\ failed = "no"
  /\ failed' = "reset"
  /\ UNCHANGED <<sent, ended, shut, readerVars>>

\* Another goroutine closes the connection, or its read deadline passes.
CloseConn ==
  /\ ~ shut
  /\ shut' = TRUE
  /\ UNCHANGED <<sent, ended, failed, readerVars>>

Waiting == [i \in 1 .. sent - taken |-> taken + i]

-----------------------------------------------------------------------------
(* ReadVReader *)

\* allocStrategy.Adjust, after n buffers were filled.
Adjust(n) ==
  LET c == Least(IF n >= current THEN current * 2 ELSE n, MaxBuffers)
  IN  IF c = 0 THEN 1 ELSE c

\* A read into one buffer gives s and an error.
ReadBuffer(s, err) ==
  LET b == Write(New, s)
  IN  [mb |-> IF s = << >> THEN << >> ELSE <<b>>, err |-> err, n |-> Len(s),
       current |-> IF IsFull(b) THEN Adjust(1) ELSE current]

\* readv gives s, which is spread over as many buffers as it needs.
readMulti(s, err) ==
  [mb |-> Chunks(s), err |-> err, n |-> Len(s),
   current |-> IF err = "nil" THEN Adjust(Len(Chunks(s))) ELSE current]

\* What a read finds: bytes as long as there are any, then the end of the stream or
\* the errno of a reset; when that has been read the end again, as if the peer had ended.
Found(room) ==
  IF shut THEN {<< << >>, "error">>}
  ELSE IF room = 0 THEN {<< << >>, "EOF">>}
  ELSE IF Waiting # << >> THEN {<<SubSeq(Waiting, 1, n), "nil">> : n \in 1 .. Least(room, Len(Waiting))}
  ELSE IF ended \/ failed \in {"told", "dropped"} THEN {<< << >>, "EOF">>}
  ELSE IF failed = "reset" THEN {<< << >>, "error">>}
  ELSE {}

\* ReadMultiBuffer of the ReadVReader: with one buffer a read of the connection, which may
\* give its last bytes with EOF, otherwise readv, to which an errno is a file that is
\* not ready: it does not return then.
Reads ==
  LET with == IF DataWithEOF /\ ended /\ ~ shut /\ Len(Waiting) \in 1 .. Size
              THEN {<<Waiting, "EOF">>} ELSE {}
  IN  IF current = 1 THEN {ReadBuffer(r[1], r[2]) : r \in Found(Size) \cup with}
      ELSE {readMulti(r[1], r[2]) : r \in {f \in Found(current * Size) : f[2] = "error" => shut}}

\* Nothing is buffered, so that a call goes on to the reader below.
Below == IF wpc = "copy" THEN TRUE ELSE MbIsEmpty(buffer)

\* The callback of readMulti meets the errno of a reset and asks to be called again when
\* the connection is ready: the error is gone, and readMulti still waits.
NotReady ==
  /\ Below
  /\ current # 1
  /\ failed = "reset" /\ Waiting = << >> /\ ~ shut
  /\ failed' = "dropped"
  /\ UNCHANGED <<sent, ended, shut, readerVars>>

\* The reader below is called and gives r.
Called(r) ==
  /\ taken' = taken + r.n
  /\ current' = r.current
  /\ failed' = IF r.err = "error" /\ ~ shut THEN "told" ELSE failed

NotCalled == UNCHANGED <<taken, current, failed>>

-----------------------------------------------------------------------------
(* BufferedReader *)

\* s is returned by a call that was asked for n bytes.
Return(s, n) ==
  /\ out' = out \o s
  /\ spare' = n - Len(s)
  /\ res' = "nil" /\ werr' = "nil"

Fail(err, gone) ==
  /\ res' = err /\ werr' = "nil"
  /\ lost' = lost \cup Range(Content(gone))
  /\ UNCHANGED <<out, spare, buffer>>

\* An empty MultiBuffer is stored as nil.
Stored(mb) == IF MbIsEmpty(mb) THEN << >> ELSE mb

\* Mutant of ReadInto: what did not fit is not kept after a read below.
ReadForgets(n) ==
  /\ wpc = "idle"
  /\ \/ /\ ~ MbIsEmpty(buffer)
        /\ Return(SplitBytes(buffer, n).out, n)
        /\ buffer' = Stored(SplitBytes(buffer, n).mb)
        /\ UNCHANGED lost
        /\ NotCalled
     \/ /\ MbIsEmpty(buffer)
        /\ \E r \in Reads :
             /\ Called(r)
             /\ IF r.err # "nil" THEN Fail(r.err, r.mb)
                ELSE /\ Return(SplitBytes(r.mb, n).out, n)
                     /\ UNCHANGED <<buffer, lost>>
  /\ UNCHANGED <<sent, ended, shut, wpc, size>>

\* Read, and ReadByte: what is buffered, or else one read below; bytes that come
\* with an error are dropped.
ReadInto(n) ==
  /\ wpc = "idle"
  /\ \/ /\ ~ MbIsEmpty(buffer)
        /\ Return(SplitBytes(buffer, n).out, n)
        /\ buffer' = Stored(SplitBytes(buffer, n).mb)
        /\ UNCHANGED lost
        /\ NotCalled
     \/ /\ MbIsEmpty(buffer)
        /\ \E r \in Reads :
             /\ Called(r)
             /\ IF r.err # "nil" THEN Fail(r.err, r.mb)
                ELSE /\ Return(SplitBytes(r.mb, n).out, n)
                     /\ buffer' = Stored(SplitBytes(r.mb, n).mb)
                     /\ UNCHANGED lost
  /\ UNCHANGED <<sent, ended, shut, wpc, size>>

\* ReadMultiBuffer gives all that is buffered, or what the read below gives, the
\* error included.
ReadMultiBuffer ==
  /\ wpc = "idle"
  /\ \/ /\ ~ MbIsEmpty(buffer)
        /\ Return(Content(buffer), MbLen(buffer))
        /\ NotCalled
     \/ /\ MbIsEmpty(buffer)
        /\ \E r \in Reads :
             /\ Called(r)
             /\ out' = out \o Content(r.mb)
             /\ spare' = 0
             /\ res' = r.err /\ werr' = "nil"
  /\ buffer' = << >>
  /\ UNCHANGED <<sent, ended, shut, lost, wpc, size>>

\* ReadAtMost returns an error only if there are no bytes with it.
ReadAtMost(n) ==
  /\ wpc = "idle"
  /\ \/ /\ ~ MbIsEmpty(buffer)
        /\ Return(Content(SplitSize(buffer, n).r), n)
        /\ buffer' = Stored(SplitSize(buffer, n).mb)
        /\ UNCHANGED lost
        /\ NotCalled
     \/ /\ MbIsEmpty(buffer)
        /\ \E r \in Reads :
             /\ Called(r)
             /\ IF MbIsEmpty(r.mb) /\ r.err # "nil" THEN Fail(r.err, << >>)
                ELSE /\ Return(Content(SplitSize(r.mb, n).r), n)
                     /\ buffer' = Stored(SplitSize(r.mb, n).mb)
                     /\ UNCHANGED lost
  /\ UNCHANGED <<sent, ended, shut, wpc, size>>

-----------------------------------------------------------------------------
(* WriteTo *)

\* The writer takes mb, and WriteTo goes on or ends as the read of mb says, or it takes
\* a part of mb and fails, which ends WriteTo, without an error if the cause is io.EOF.
Written(mb, err) ==
  \/ /\ out' = out \o Content(mb)
     /\ wpc' = IF err = "nil" THEN "copy" ELSE "idle"
     /\ res' = IF err = "error" THEN "error" ELSE "nil"
     /\ werr' = "nil"
     /\ UNCHANGED lost
  \/ \E n \in 0 .. MbLen(mb) - 1, cause \in {"error", "EOF"} :
       /\ out' = out \o SubSeq(Content(mb), 1, n)
       /\ lost' = lost \cup Range(SubSeq(Content(mb), n + 1, MbLen(mb)))
       /\ wpc' = "idle"
       /\ res' = IF cause = "EOF" THEN "nil" ELSE "error"
       /\ werr' = cause

\* writeToInternal writes what is buffered first.
WriteToStart ==
  /\ wpc = "idle"
  /\ size' = MbLen(buffer)
  /\ Written(buffer, "nil")
  /\ buffer' = << >>
  /\ NotCalled
  /\ UNCHANGED <<sent, ended, shut, spare>>

\* One turn of copyInternal; EOF ends WriteTo without an error.
WriteToCopy ==
  /\ wpc = "copy"
  /\ \E r \in Reads :
       /\ Called(r)
       /\ size' = size + Len(Content(r.mb))
       /\ Written(r.mb, r.err)
  /\ UNCHANGED <<sent, ended, shut, buffer, spare>>

Next ==
  \/ Send
  \/ End
  \/ Reset
  \/ CloseConn
  \/ NotReady
  \/ \E n \in 0 .. Size + 1 : ReadInto(n) \/ ReadAtMost(n)
  \/ ReadMultiBuffer
  \/ WriteToStart
  \/ WriteToCopy

Spec == Init /\ [][Next]_vars

-----------------------------------------------------------------------------
(* Properties *)

\* A readv never has no buffer to fill, which would look like the end of the
\* stream, and never more than the code's limit.
TypeOK ==
  /\ current \in 1 .. MaxBuffers
  /\ taken \in 0 .. sent /\ sent <= MaxBytes
  /\ lost \subseteq 1 .. sent
  /\ res \in {"nil", "EOF", "error"} /\ werr \in {"nil", "EOF", "error"}
  /\ failed \in {"no", "reset", "told", "dropped"} /\ shut \in BOOLEAN
  /\ size \in 0 .. MaxBytes

\* The caller gets the bytes in the order in which the peer sent them, over any mix
\* of the reads, however readv and the splits cut them; what is neither with the
\* caller, nor buffered, nor lost is still in the connection.
InOrder ==
  out \o Content(buffer) \o Waiting = SetToSortSeq(1 .. sent \ lost, <)

\* EOF is returned only when nothing is left, neither buffered nor in the connection, and
\* the peer has ended the stream or reset it; a reset gives EOF only after a call has
\* returned its error, or after a readv has dropped the errno.
EofIsTheEnd ==
  res = "EOF" => /\ taken = sent /\ MbIsEmpty(buffer)
                 /\ ended \/ failed \in {"told", "dropped"}


\* No call returns more bytes than it was asked for.
AtMost == spare >= 0
==============================================================================
