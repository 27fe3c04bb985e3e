--------------------------- MODULE BufferedWriter ----------------------------
(***************************************************************************)
(* buf/writer.go, BufferedWriter, with buf/copy.go.  Clients call Write,   *)
(* WriteMultiBuffer, Flush and SetBuffered, each of them one critical      *)
(* section; one of them runs ReadFrom, which copies from a reader in many  *)
(* sections, and one calls Close, which flushes in one section and then    *)
(* closes the underlying writer.  That writer, the sink, may fail, having  *)
(* taken a part of what it was given.                                      *)
(*                                                                         *)
(* The bytes are numbered in the order in which the critical sections      *)
(* take them.                                                              *)
(***************************************************************************)
EXTENDS Buf

CONSTANTS
  MaxBytes,      \* bound: bytes written in all
  MaxFaults      \* bound: failed calls of the sink

VARIABLES
  buffer,     \* the buffer, or Nil
  buffered,
  bytesWriter,  \* is the sink an io.Writer too?
  sink,       \* the bytes the sink has taken
  closed,     \* is the sink closed?
  written,    \* how many bytes the clients have handed over
  lost,       \* the bytes that no one has any more
  faults,
  res,        \* did the last call to return give an error?
  cpc, size, copied,   \* ReadFrom: where it is, its SizeCounter, its bytes
  kpc, mark   \* Close: where it is, how many bytes had been written when it flushed

writerVars == <<buffer, buffered, sink, lost, faults>>
copyVars == <<cpc, size, copied>>
closeVars == <<closed, kpc, mark>>
vars == <<writerVars, copyVars, closeVars, bytesWriter, written, res>>

Nil == [v |-> << >>, start |-> 0, end |-> 0, unmanaged |-> FALSE]

Init ==
  /\ buffer = New
  /\ buffered = TRUE
  /\ bytesWriter \in BOOLEAN
  /\ sink = << >>
  /\ closed = FALSE
  /\ written = 0
  /\ lost = {}
  /\ faults = 0
  /\ res = "nil"
  /\ cpc = "idle" /\ size = 0 /\ copied = {}
  /\ kpc = "idle" /\ mark = 0

\* The writer inside a critical section: in is the input that is left, and the
\* sink takes calls more calls before one fails, which takes part bytes.
Entered(in, calls, part) ==
  [buffer |-> buffer, buffered |-> buffered, sink |-> sink, lost |-> lost,
   in |-> in, calls |-> calls, part |-> part, err |-> FALSE]

\* What a call of the sink with s does: WriteAllBytes, or WriteMultiBuffer of a
\* BufferToBytesWriter or SequentialWriter.
Put(w, s) ==
  IF w.calls > 0 THEN [w EXCEPT !.sink = @ \o s, !.calls = @ - 1]
  ELSE [w EXCEPT !.sink = @ \o SubSeq(s, 1, Least(w.part, Len(s))),
                 !.lost = @ \cup {s[i] : i \in w.part + 1 .. Len(s)},
                 !.err = TRUE]

\* Mutant of flushInternal: the buffer is given up only once the sink has taken it.
flushKeeping(w) ==
  IF IsEmpty(w.buffer) THEN w
  ELSE LET v == Put(w, Bytes(w.buffer)) IN IF v.err THEN v ELSE [v EXCEPT !.buffer = Nil]

flushInternal(w) ==
  IF IsEmpty(w.buffer) THEN w ELSE Put([w EXCEPT !.buffer = Nil], Bytes(w.buffer))

\* One turn of the loop of Write and of the one of WriteMultiBuffer.
Fill(w, i) ==
  LET b == IF w.buffer = Nil THEN New ELSE w.buffer
      v == [w EXCEPT !.buffer = Write(b, w.in),
                     !.in = SubSeq(w.in, Room(b, w.in) + 1, Len(w.in))]
  IN  IF w.in = << >> \/ w.err THEN w
      ELSE IF ~ w.buffered \/ IsFull(v.buffer) THEN flushInternal(v)
      ELSE v

\* Write, or WriteMultiBuffer, of all of the input; direct says that an unbuffered
\* writer can hand it to the sink as it is.
WriteBytes(w, direct) ==
  IF ~ w.buffered /\ direct THEN Put([w EXCEPT !.in = << >>], w.in)
  ELSE FoldLeft(Fill, w, w.in)


\* A critical section ends; the input it did not take is lost with the error.
Exit(w) ==
  /\ buffer' = w.buffer
  /\ buffered' = w.buffered
  /\ sink' = w.sink
  /\ lost' = w.lost \cup Range(w.in)
  /\ faults' = faults + IF w.err THEN 1 ELSE 0
  /\ res' = IF w.err THEN "error" ELSE "nil"

\* A call of the sink never fails here: as many calls as a section can make.
Healthy == MaxBytes + 1

\* How the sink behaves in a critical section.  A closed sink takes nothing.
SinkFaults ==
  IF closed THEN {[calls |-> 0, part |-> 0]}
  ELSE {[calls |-> Healthy, part |-> 0]}
       \cup IF faults < MaxFaults THEN [calls : 0 .. 1, part : 0 .. 1] ELSE {}

\* A critical section that is given n bytes.
Section(n, Op(_)) ==
  /\ written + n <= MaxBytes
  /\ written' = written + n
  /\ \E f \in SinkFaults :
       LET w == Entered([i \in 1 .. n |-> written + i], f.calls, f.part)
       IN  Exit(Op(w))
  /\ UNCHANGED bytesWriter

\* Write, and WriteByte; an empty Write returns at once.
WriteCall ==
  /\ \E n \in 1 .. Size + 1 : Section(n, LAMBDA w : WriteBytes(w, bytesWriter))
  /\ UNCHANGED <<copyVars, closeVars>>

WriteMultiBufferCall ==
  /\ \E n \in 1 .. Size + 1 : Section(n, LAMBDA w : WriteBytes(w, TRUE))
  /\ UNCHANGED <<copyVars, closeVars>>

Flush ==
  /\ Section(0, flushInternal)
  /\ UNCHANGED <<copyVars, closeVars>>

SetTo(w, f) ==
  LET v == [w EXCEPT !.buffered = f] IN IF f THEN v ELSE flushInternal(v)

SetBuffered(f) ==
  /\ Section(0, LAMBDA w : SetTo(w, f))
  /\ UNCHANGED <<copyVars, closeVars>>

-----------------------------------------------------------------------------
(* ReadFrom *)

\* ReadFrom stops buffering, and gives up if that fails.
ReadFrom ==
  /\ cpc = "idle"
  /\ Section(0, LAMBDA w : SetTo(w, FALSE))
  /\ cpc' = IF res' = "error" THEN "failed" ELSE "copy"
  /\ UNCHANGED <<size, copied, closeVars>>

\* copyInternal reads n bytes, counts them and writes them; last says that the
\* read gave EOF too.
CopyData(n, last) ==
  /\ cpc = "copy"
  /\ Section(n, LAMBDA w : WriteBytes(w, TRUE))
  /\ size' = size + n
  /\ copied' = copied \cup (written + 1 .. written + n)
  /\ cpc' = IF res' = "error" THEN "failed" ELSE IF last THEN "done" ELSE "copy"
  /\ UNCHANGED closeVars

\* A read gives no bytes and an error, which is EOF or another one.
CopyEnd ==
  /\ cpc = "copy"
  /\ cpc' \in {"done", "failed"}
  /\ res' = IF cpc' = "done" THEN "nil" ELSE "error"
  /\ UNCHANGED <<writerVars, bytesWriter, size, copied, closeVars, written>>

-----------------------------------------------------------------------------
(* Close *)

CloseFlush ==
  /\ kpc = "idle"
  /\ Section(0, flushInternal)
  /\ mark' = written
  /\ kpc' = IF res' = "error" THEN "failed" ELSE "flushed"
  /\ UNCHANGED <<copyVars, closed>>

CloseSink ==
  /\ kpc = "flushed"
  /\ closed' = TRUE
  /\ kpc' = "closed"
  /\ res' \in {"nil", "error"}
  /\ UNCHANGED <<writerVars, bytesWriter, copyVars, written, mark>>

Next ==
  \/ WriteCall
  \/ WriteMultiBufferCall
  \/ Flush
  \/ \E f \in BOOLEAN : SetBuffered(f)
  \/ ReadFrom
  \/ \E n \in 1 .. Size, last \in BOOLEAN : CopyData(n, last)
  \/ CopyEnd
  \/ CloseFlush
  \/ CloseSink

Spec == Init /\ [][Next]_vars

-----------------------------------------------------------------------------
(* Properties *)

TypeOK ==
  /\ buffer = Nil \/ Len(buffer.v) = Size
  /\ {buffered, bytesWriter, closed} \subseteq BOOLEAN
  /\ written \in 0 .. MaxBytes
  /\ lost \subseteq 1 .. written
  /\ Range(sink) \subseteq 1 .. written
  /\ res \in {"nil", "error"}
  /\ cpc \in {"idle", "copy", "done", "failed"}
  /\ size \in 0 .. MaxBytes
  /\ kpc \in {"idle", "flushed", "failed", "closed"}

\* However the clients switch buffering on and off, flush and copy, the sink gets
\* the bytes in the order in which they were written, none of them twice and none
\* left out but the ones that a failed call has lost.
Stream ==
  sink \o Bytes(buffer) = SetToSortSeq(1 .. written \ lost, <)


\* Without buffering nothing is left in the buffer when a call returns, and with
\* buffering the buffer never stays full.
NothingHeldBack ==
  /\ ~ buffered => IsEmpty(buffer)
  /\ Len(buffer.v) > 0 => ~ IsFull(buffer)

\* Close, when it succeeds, has delivered all that was written before its flush,
\* except for what an earlier error has lost.
CloseDelivers ==
  kpc = "closed" => \A i \in 1 .. Len(Bytes(buffer)) : Bytes(buffer)[i] > mark

\* A ReadFrom that reached the end of its reader returns the number of bytes it
\* has written, whatever else was written and switched in between.
ReadFromCounts ==
  cpc = "done" => size = Cardinality(copied)
==============================================================================
