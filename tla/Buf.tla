-------------------------------- MODULE Buf ---------------------------------
(***************************************************************************)
(* The values of package buf.  buf/buffer.go: a Buffer is an array v and   *)
(* the window start .. end of it that holds the content.  The operations   *)
(* are operators from Buffer to Buffer, and the conditions under which the *)
(* code panics are operators of their own.  A byte is a number and Stale   *)
(* is what an array that comes from the pool holds.                        *)
(* buf/multi_buffer.go: a MultiBuffer is a sequence of Buffers; functions  *)
(* that return several values return a record.                             *)
(***************************************************************************)
EXTENDS Integers, SequencesExt

CONSTANT Size   \* the size of a regular buffer

ASSUME SizeAssumption == Size \in Nat \ {0}

Stale == 0

Least(m, n) == IF m < n THEN m ELSE n

\* New and StackNew.
New == [v |-> [i \in 1 .. Size |-> Stale], start |-> 0, end |-> 0, unmanaged |-> FALSE]

\* NewExisted panics unless the array of s has at least Size bytes; s is its content.
NewExisted(s) ==
  [v |-> [i \in 1 .. Size |-> IF i <= Len(s) THEN s[i] ELSE Stale],
   start |-> 0, end |-> Len(s), unmanaged |-> FALSE]

FromBytes(s) == [v |-> s, start |-> 0, end |-> Len(s), unmanaged |-> TRUE]

\* A slice expression up to the end of the window panics unless this holds.
InArray(b) == b.end <= Len(b.v)

\* Bytes and Len; a released buffer has no array and no content.
Bytes(b) == SubSeq(b.v, b.start + 1, b.end)
Length(b) == b.end - b.start
IsEmpty(b) == Length(b) = 0
IsFull(b) == b.end = Len(b.v)

Clear(b) == [b EXCEPT !.start = 0, !.end = 0]

\* Release keeps an unmanaged buffer as it is.
Release(b) == IF b.unmanaged THEN b ELSE [Clear(b) EXCEPT !.v = << >>]

\* Check makes sure that 0 <= start <= end.
Check(b) ==
  LET start == IF b.start < 0 THEN 0 ELSE b.start
      end == IF b.end < 0 THEN 0 ELSE b.end
  IN  [b EXCEPT !.start = Least(start, end), !.end = end]

\* A negative position counts from the end of the content; nothing keeps it within.
Position(b, i) == IF i < 0 THEN i + Length(b) ELSE i

\* Resize panics unless from <= to.
CanResize(b, from, to) == Position(b, from) <= Position(b, to)

Resize(b, from, to) ==
  Check([b EXCEPT !.end = b.start + Position(b, to),
                  !.start = b.start + Position(b, from)])

Advance(b, from) == Check([b EXCEPT !.start = @ + Position(b, from)])

BytesTo(b, to) ==
  LET i == Position(b, to) IN SubSeq(b.v, b.start + 1, b.start + IF i < 0 THEN 0 ELSE i)

BytesFrom(b, from) == SubSeq(b.v, b.start + Position(b, from) + 1, b.end)

BytesRange(b, from, to) ==
  SubSeq(b.v, b.start + Position(b, from) + 1, b.start + Position(b, to))

\* The array with s copied into it behind position at, as far as it fits.
Copied(v, at, s) ==
  [i \in 1 .. Len(v) |-> IF at < i /\ i <= at + Len(s) THEN s[i - at] ELSE v[i]]

\* What Write takes: as many bytes as there is room for.
Room(b, s) == Least(Len(s), Len(b.v) - b.end)

\* Write and WriteString; Room(b, s) bytes are written.
Write(b, s) ==
  LET n == Room(b, s)
  IN  [b EXCEPT !.v = Copied(b.v, b.end, SubSeq(s, 1, n)), !.end = b.end + n]

\* WriteByte, which fails on a full buffer.
WriteByte(b, x) ==
  IF IsFull(b) THEN b ELSE [b EXCEPT !.v[b.end + 1] = x, !.end = b.end + 1]

\* Extend panics without room for n bytes; the caller fills the extension with s.
CanExtend(b, n) == b.end + n <= Len(b.v)
Extend(b, s) == [b EXCEPT !.v = Copied(b.v, b.end, s), !.end = b.end + Len(s)]

\* ReadFrom, of a reader that gives s, no more than there is room for.
ReadSome(b, s) == Extend(b, s)

\* ReadFullFrom fails without room for size bytes; s is what the reader gave it,
\* shorter than size at the end of its input.
ReadFullFrom(b, size, s) == IF CanExtend(b, size) THEN Extend(b, s) ELSE b

\* ReadByte and ReadBytes give EOF, and move nothing, if there are too few bytes.
CanRead(b, n) == n <= Length(b)
ReadBytes(b, n) == [b EXCEPT !.start = b.start + n]

\* Read into n bytes takes Taken(b, n) of them.
Taken(b, n) == Least(n, Length(b))

\* Mutant of Read: a partial read does not move the start.
ReadAgain(b, n) == IF Taken(b, n) = Length(b) THEN Clear(b) ELSE b

\* An empty buffer gives EOF; one that is read to its end is cleared.
Read(b, n) ==
  IF IsEmpty(b) THEN b
  ELSE IF Taken(b, n) = Length(b) THEN Clear(b)
  ELSE [b EXCEPT !.start = b.start + Taken(b, n)]

-----------------------------------------------------------------------------
(* MultiBuffer *)

\* The bytes of all the buffers, and Len.
Content(mb) == FlattenSeq([i \in 1 .. Len(mb) |-> Bytes(mb[i])])
MbLen(mb) == FoldLeft(LAMBDA n, b : n + Length(b), 0, mb)
MbIsEmpty(mb) == \A i \in 1 .. Len(mb) : IsEmpty(mb[i])

\* MergeMulti; the source is left empty.
MergeMulti(dest, src) == dest \o src

\* New buffers that hold s, each but the last one full.
Chunks(s) ==
  [i \in 1 .. (Len(s) + Size - 1) \div Size |->
     Write(New, SubSeq(s, (i - 1) * Size + 1, Least(i * Size, Len(s))))]

\* MergeBytes fills the last buffer first.
MergeBytes(dest, s) ==
  IF dest # << >> /\ ~ IsFull(Last(dest))
  THEN Append(Front(dest), Write(Last(dest), s))
         \o Chunks(SubSeq(s, Room(Last(dest), s) + 1, Len(s)))
  ELSE dest \o Chunks(s)

\* ReadFrom a reader that gives s and then the end or an error: ReadFullFrom of Size bytes
\* for each buffer, and one that stays empty is released.
MbReadFrom(s) ==
  [i \in 1 .. (Len(s) + Size - 1) \div Size |->
     ReadFullFrom(New, Size, SubSeq(s, (i - 1) * Size + 1, Least(i * Size, Len(s))))]

\* Copy into n bytes; it stops at the first buffer that does not fit.
CopyTo(mb, n) ==
  LET Step(acc, b) ==
        LET t == Taken(b, n - Len(acc.out))
        IN  IF acc.stop THEN acc
            ELSE [out |-> acc.out \o SubSeq(Bytes(b), 1, t), stop |-> t < Length(b)]
  IN  FoldLeft(Step, [out |-> << >>, stop |-> FALSE], mb).out

\* WriteMultiBuffer to a writer that takes k buffers and of the next one, for which it
\* gives an error, n bytes: that buffer is released like the others.
MbWrite(mb, k, n) ==
  [out |-> Content(SubSeq(mb, 1, k)) \o IF k < Len(mb) THEN BytesTo(mb[k + 1], n) ELSE << >>,
   lost |-> IF k < Len(mb) THEN BytesFrom(mb[k + 1], n) ELSE << >>,
   mb |-> SubSeq(mb, k + 2, Len(mb))]

\* Mutant of SplitBytes: a buffer that has bytes left is released too.
SplitBytesDropping(mb, n) ==
  LET Step(acc, b) ==
        IF acc.stop THEN [acc EXCEPT !.mb = Append(@, b)]
        ELSE LET t == Taken(b, n - Len(acc.out))
             IN  [mb |-> << >>, out |-> acc.out \o SubSeq(Bytes(b), 1, t), stop |-> t < Length(b)]
  IN  FoldLeft(Step, [mb |-> << >>, out |-> << >>, stop |-> FALSE], mb)

\* SplitBytes reads into a slice of n bytes, out, and releases what it has read to
\* its end; it stops at the first buffer with bytes left.
SplitBytes(mb, n) ==
  LET Step(acc, b) ==
        IF acc.stop THEN [acc EXCEPT !.mb = Append(@, b)]
        ELSE LET t == Taken(b, n - Len(acc.out))
                 rest == Read(b, n - Len(acc.out))
             IN  [mb |-> IF IsEmpty(rest) THEN << >> ELSE <<rest>>,
                  out |-> acc.out \o SubSeq(Bytes(b), 1, t),
                  stop |-> ~ IsEmpty(rest)]
  IN  FoldLeft(Step, [mb |-> << >>, out |-> << >>, stop |-> FALSE], mb)

\* ReadAllToBytes, without an error.
ReadAllToBytes(s) == SplitBytes(MbReadFrom(s), MbLen(MbReadFrom(s))).out

\* SplitSize: at most size bytes, r, from the front; only the first buffer is cut.
SplitSize(mb, size) ==
  LET Step(acc, b) ==
        IF acc.stop \/ MbLen(acc.r) + Length(b) > size
        THEN [acc EXCEPT !.mb = Append(@, b), !.stop = TRUE]
        ELSE [acc EXCEPT !.r = Append(@, b)]
  IN  IF mb # << >> /\ Length(mb[1]) > size
      THEN [mb |-> <<Advance(mb[1], size)>> \o Tail(mb),
            r |-> <<Extend(New, BytesTo(mb[1], size))>>, stop |-> TRUE]
      ELSE FoldLeft(Step, [mb |-> << >>, r |-> << >>, stop |-> FALSE], mb)

\* SplitMulti; an index out of range leaves everything in the first part.
SplitMulti(mb, i) ==
  IF i \in 0 .. Len(mb) - 1 THEN [mb |-> SubSeq(mb, 1, i), r |-> SubSeq(mb, i + 1, Len(mb))]
  ELSE [mb |-> mb, r |-> << >>]

\* Compact moves each buffer into the one before it if the lengths allow it, as far as
\* there is room, and panics when it meets an empty buffer that it would move.
Compact(mb) ==
  LET Step(acc, b) ==
        IF Length(Last(acc.mb)) + Length(b) > Size THEN [acc EXCEPT !.mb = Append(@, b)]
        ELSE [mb |-> Append(Front(acc.mb), Write(Last(acc.mb), Bytes(b))),
              panic |-> acc.panic \/ IsEmpty(b)]
  IN  IF mb = << >> THEN [mb |-> mb, panic |-> FALSE]
      ELSE FoldLeft(Step, [mb |-> <<Head(mb)>>, panic |-> FALSE], Tail(mb))
=============================================================================
