------------------------------- MODULE BufOps -------------------------------
(***************************************************************************)
(* Any sequence of operations on one Buffer of buf/buffer.go, and any      *)
(* sequence of operations on a MultiBufferContainer of multi_buffer.go and *)
(* of the package functions on its MultiBuffer.  The bytes written are     *)
(* numbered 1, 2, ..., so that a byte tells when it was written.           *)
(***************************************************************************)
EXTENDS Buf

CONSTANT MaxBytes   \* bound: bytes written in all

VARIABLES
  written,  \* how many bytes were written
  b,        \* the buffer
  last,     \* the last byte that was read or cut off at the front
  moved,    \* positions outside of the content since the buffer was empty: "back", "grown"
  mb,       \* the container's MultiBuffer
  out,      \* the bytes handed out, in order
  dropped,  \* the bytes that an operation is meant to drop
  unmerged, \* the bytes that Compact lost
  spare     \* how many bytes less than asked for the last operation handed out

\* A slice of n bytes to write.
Fresh(n) == [i \in 1 .. n |-> written + i]

-----------------------------------------------------------------------------
(* A Buffer *)

Farthest == 2 * Size   \* bound: where Resize may put the end

\* The last byte in front of the window when it begins at start.
CutOff(start) == IF b.start < start /\ start <= Len(b.v) THEN b.v[start] ELSE last

\* New, NewExisted and FromBytes.
BufferInit ==
  /\ \E n \in 0 .. Size :
       LET s == [i \in 1 .. n |-> i]
       IN  written = n /\ b \in {NewExisted(s), FromBytes(s)} \cup IF n = 0 THEN {New} ELSE {}
  /\ last = 0
  /\ moved = {}

DoWrite(n) ==
  /\ InArray(b)
  /\ written + n <= MaxBytes
  /\ b' = Write(b, Fresh(n))
  /\ written' = written + n
  /\ UNCHANGED <<last, moved>>

DoWriteByte ==
  /\ InArray(b)
  /\ written < MaxBytes
  /\ b' = WriteByte(b, written + 1)
  /\ written' = written + 1
  /\ UNCHANGED <<last, moved>>

\* The reader gives n of the size bytes it is asked for.
DoReadFullFrom(size, n) ==
  /\ n <= size
  /\ written + n <= MaxBytes
  /\ b' = ReadFullFrom(b, size, Fresh(n))
  /\ written' = written + n
  /\ UNCHANGED <<last, moved>>

DoReadFrom(n) ==
  /\ CanExtend(b, n)
  /\ written + n <= MaxBytes
  /\ b' = ReadSome(b, Fresh(n))
  /\ written' = written + n
  /\ UNCHANGED <<last, moved>>

DoExtend(n) ==
  /\ CanExtend(b, n)
  /\ written + n <= MaxBytes
  /\ b' = Extend(b, Fresh(n))
  /\ written' = written + n
  /\ UNCHANGED <<last, moved>>

DoReadBytes(n) ==
  /\ CanRead(b, n) /\ b.start + n <= Len(b.v)
  /\ b' = ReadBytes(b, n)
  /\ last' = CutOff(b.start + n)
  /\ UNCHANGED <<written, moved>>

\* A read to the end clears the buffer.
DoRead(n) ==
  /\ ~ IsEmpty(b) /\ InArray(b)
  /\ b' = Read(b, n)
  /\ last' = CutOff(b.start + Taken(b, n))
  /\ moved' = IF IsEmpty(b') THEN {} ELSE moved
  /\ UNCHANGED written

\* Where the positions of Resize and Advance leave the content.
Outside(from, to) == (IF from < 0 THEN {"back"} ELSE {}) \cup (IF to > Length(b) THEN {"grown"} ELSE {})

DoAdvance(from) ==
  /\ b' = Advance(b, from)
  /\ last' = CutOff(b'.start)
  /\ moved' = moved \cup Outside(Position(b, from), Length(b))
  /\ UNCHANGED written

DoResize(from, to) ==
  /\ CanResize(b, from, to)
  /\ b.start + Position(b, to) <= Farthest
  /\ b' = Resize(b, from, to)
  /\ last' = CutOff(b'.start)
  /\ moved' = moved \cup Outside(Position(b, from), Position(b, to))
  /\ UNCHANGED written

DoClear ==
  /\ b' = Clear(b)
  /\ moved' = {}
  /\ UNCHANGED <<written, last>>

\* Release leaves an unmanaged buffer as it is.
DoRelease ==
  /\ b' = Release(b)
  /\ moved' = IF b.unmanaged THEN moved ELSE {}
  /\ UNCHANGED <<written, last>>

Sizes == 0 .. Size
Positions == (0 - Size) .. Size

BufferNext ==
  \/ \E n \in Sizes :
       DoWrite(n) \/ DoReadFrom(n) \/ DoExtend(n) \/ DoReadBytes(n) \/ DoRead(n)
  \/ \E size, n \in Sizes : DoReadFullFrom(size, n)
  \/ \E from \in Positions : DoAdvance(from)
  \/ \E from, to \in Positions : DoResize(from, to)
  \/ DoWriteByte
  \/ DoClear
  \/ DoRelease

-----------------------------------------------------------------------------
(* A MultiBufferContainer *)

MultiInit ==
  /\ mb = << >>
  /\ written = 0
  /\ out = << >>
  /\ dropped = {}
  /\ unmerged = {}
  /\ spare = 0

\* Bytes s leave the container through an operation that was asked for n.
Hand(s, n) ==
  /\ out' = out \o s
  /\ spare' = n - Len(s)

\* MultiBufferContainer.Write.
WriteBytes(n) ==
  /\ written + n <= MaxBytes
  /\ mb' = MergeBytes(mb, Fresh(n))
  /\ written' = written + n
  /\ UNCHANGED <<out, dropped, unmerged, spare>>

\* MultiBufferContainer.WriteMultiBuffer of a buffer with n bytes and one with a byte.
WriteMulti(n) ==
  /\ written + n + 1 <= MaxBytes
  /\ mb' = MergeMulti(mb, <<Write(New, Fresh(n)), FromBytes(<<written + n + 1>>)>>)
  /\ written' = written + n + 1
  /\ UNCHANGED <<out, dropped, unmerged, spare>>

\* The MultiBuffer that ReadFrom returned, also the one it returns with an error.
ReadStream(n) ==
  /\ written + n <= MaxBytes
  /\ mb' = MergeMulti(mb, MbReadFrom(Fresh(n)))
  /\ written' = written + n
  /\ UNCHANGED <<out, dropped, unmerged, spare>>

\* WriteMultiBuffer returns what was not tried, and SequentialWriter releases that too.
WriteOut(k, n, sequential) ==
  LET w == MbWrite(mb, k, n)
  IN  /\ k < Len(mb) => n <= Length(mb[k + 1])
      /\ Hand(w.out, MbLen(mb))
      /\ mb' = IF sequential THEN << >> ELSE w.mb
      /\ dropped' = dropped \cup Range(w.lost) \cup IF sequential THEN Range(Content(w.mb)) ELSE {}
      /\ UNCHANGED <<written, unmerged>>

\* MultiBufferContainer.Read gives EOF if there is nothing to read.
ReadInto(n) ==
  /\ ~ MbIsEmpty(mb)
  /\ mb' = SplitBytes(mb, n).mb
  /\ Hand(SplitBytes(mb, n).out, n)
  /\ UNCHANGED <<written, dropped, unmerged>>

ReadMultiBuffer ==
  /\ mb' = << >>
  /\ Hand(Content(mb), MbLen(mb))
  /\ UNCHANGED <<written, dropped, unmerged>>

TakeSize(n) ==
  /\ mb' = SplitSize(mb, n).mb
  /\ Hand(Content(SplitSize(mb, n).r), n)
  /\ UNCHANGED <<written, dropped, unmerged>>

\* SplitFirst, and SplitMulti at an index.
TakeMulti(i) ==
  /\ i \in 1 .. Len(mb)
  /\ mb' = SplitMulti(mb, i).r
  /\ Hand(Content(SplitMulti(mb, i).mb), MbLen(mb))
  /\ UNCHANGED <<written, dropped, unmerged>>

\* SplitFirstBytes: what of the first buffer does not fit into n bytes is dropped.
TakeFirstBytes(n) ==
  /\ mb # << >>
  /\ LET s == Bytes(mb[1])
     IN  /\ Hand(SubSeq(s, 1, Least(n, Len(s))), n)
         /\ dropped' = dropped \cup {s[i] : i \in n + 1 .. Len(s)}
  /\ mb' = Tail(mb)
  /\ UNCHANGED <<written, unmerged>>

\* The buffers as MergeBytes makes them: a regular buffer that was never cut has as
\* much room as its content leaves of Size.
Uncut == \A i \in 1 .. Len(mb) : ~ mb[i].unmanaged /\ mb[i].start = 0

\* Compact looks at lengths and not at room: what does not fit behind a buffer whose
\* front was cut is released.
CompactAll ==
  /\ ~ Compact(mb).panic
  /\ mb' = Compact(mb).mb
  /\ unmerged' = unmerged \cup (Range(Content(mb)) \ Range(Content(mb')))
  /\ UNCHANGED <<written, out, dropped, spare>>

\* Close releases everything.
Close ==
  /\ dropped' = dropped \cup Range(Content(mb))
  /\ mb' = << >>
  /\ UNCHANGED <<written, out, unmerged, spare>>

Amounts == 0 .. 2 * Size

MultiNext ==
  \/ \E n \in Amounts : WriteBytes(n) \/ ReadInto(n) \/ TakeSize(n) \/ TakeFirstBytes(n)
  \/ \E n \in 0 .. Size : WriteMulti(n)
  \/ \E n \in 0 .. MaxBytes : ReadStream(n)
  \/ \E i \in 1 .. Len(mb) : TakeMulti(i)
  \/ \E k \in 0 .. Len(mb), n \in 0 .. Size, sequential \in BOOLEAN : WriteOut(k, n, sequential)
  \/ ReadMultiBuffer
  \/ CompactAll
  \/ Close

-----------------------------------------------------------------------------
(* Properties *)

BufferTypeOK ==
  /\ b.v \in Seq(0 .. MaxBytes)
  /\ Len(b.v) <= Size
  /\ b.start \in Int /\ b.end \in Int
  /\ b.unmanaged \in BOOLEAN
  /\ written \in 0 .. MaxBytes
  /\ last \in 0 .. MaxBytes
  /\ moved \subseteq {"back", "grown"}

\* After every sequence of operations the window is one, which Check sees to, and it
\* lies within the array unless a Resize has grown it, so that otherwise no slice
\* expression of the buffer panics.
Window == 0 <= b.start /\ b.start <= b.end /\ ("grown" \notin moved => InArray(b))

\* Unless a Resize has grown it, the content is what was written, in that order: no
\* byte twice, and nothing that the array held before it came from the pool.  And
\* unless a position in front of the content has moved the start back, it lies behind
\* everything that was read.
Fifo ==
  LET s == Bytes(b)
  IN  "grown" \notin moved =>
        /\ \A i \in 1 .. Len(s) : 0 < s[i] /\ s[i] <= written
        /\ \A i, j \in 1 .. Len(s) : i < j => s[i] < s[j]
        /\ "back" \notin moved => \A i \in 1 .. Len(s) : last < s[i]

\* BytesTo, BytesRange and BytesFrom cut the content into what it consists of, at
\* positions that count from either end.
Slices ==
  InArray(b) =>
  \A i, j \in Positions :
    0 <= Position(b, i) /\ CanResize(b, i, j) /\ Position(b, j) <= Length(b) =>
      BytesTo(b, i) \o BytesRange(b, i, j) \o BytesFrom(b, j) = Bytes(b)

MultiTypeOK ==
  /\ \A i \in 1 .. Len(mb) :
       /\ 0 <= mb[i].start /\ mb[i].start <= mb[i].end /\ mb[i].end <= Len(mb[i].v)
       /\ Len(mb[i].v) <= Size
  /\ written \in 0 .. MaxBytes
  /\ dropped \subseteq 1 .. written /\ unmerged \subseteq 1 .. written
  /\ spare \in Int

\* Every byte comes out once, in the order it went in, however writes, reads, splits
\* and Compact cut and move the buffers: what was handed out and what is left are all
\* that was written, but for the bytes an operation is meant to drop and those that
\* Compact lost; and Compact loses nothing of buffers that were never cut.  Of cut ones
\* it does, although its comment says "merging all content of the given one together".
Stream ==
  /\ out \o Content(mb) = SetToSortSeq(1 .. written \ (dropped \cup unmerged), <)
  /\ Uncut => Content(Compact(mb).mb) = Content(mb)

\* No operation hands out more bytes than it was asked for: SplitBytes fits its
\* slice and SplitSize returns at most size bytes.
AtMost == spare >= 0

\* Copy gives the bytes that SplitBytes would give and leaves them where they are, and
\* ReadAllToBytes gives all that the reader had.
Copies ==
  \A n \in Amounts :
    /\ CopyTo(mb, n) = SubSeq(Content(mb), 1, Least(n, MbLen(mb)))
    /\ ReadAllToBytes(Fresh(n)) = Fresh(n)
=============================================================================
