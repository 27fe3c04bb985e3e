-------------------------------- MODULE MCBuf --------------------------------
(***************************************************************************)
(* Package buf for TLC: a Buffer, a MultiBufferContainer, a BufferedWriter *)
(* and a BufferedReader, one of which is used in each behaviour, part      *)
(* saying which.  They share no state.                                     *)
(***************************************************************************)
EXTENDS Buf

VARIABLES
  part,
  bWritten, b, last, moved, mWritten, mb, dropped, unmerged, mOut, mSpare,
  buffer, buffered, bytesWriter, sink, closed, written, lost, faults, res,
  cpc, size, copied, kpc, mark,
  sent, ended, taken, failed, shut, current, rBuffer, out, rLost, spare, rRes, werr, wpc, rSize

bufferVars == <<bWritten, b, last, moved>>
multiVars == <<mWritten, mb, dropped, unmerged, mOut, mSpare>>
writerVars == <<buffer, buffered, bytesWriter, sink, closed, written, lost, faults, res,
                cpc, size, copied, kpc, mark>>
readerVars == <<sent, ended, taken, failed, shut, current, rBuffer, out, rLost, spare, rRes,
                werr, wpc, rSize>>
vars == <<part, bufferVars, multiVars, writerVars, readerVars>>

Single == INSTANCE BufOps WITH MaxBytes <- 5, out <- mOut, spare <- mSpare, written <- bWritten

Multi == INSTANCE BufOps WITH MaxBytes <- 5, out <- mOut, spare <- mSpare, written <- mWritten

Writer == INSTANCE BufferedWriter WITH MaxBytes <- 5, MaxFaults <- 1

Reader == INSTANCE BufferedReader WITH MaxBytes <- 6, MaxBuffers <- 3, DataWithEOF <- TRUE,
            buffer <- rBuffer, lost <- rLost, res <- rRes, size <- rSize

Init ==
  /\ Single!BufferInit
  /\ Multi!MultiInit
  /\ Writer!Init
  /\ Reader!Init
  /\ part \in {"buffer", "multi", "writer", "reader"}
  /\ part # "buffer" => b = New

SingleNext == part = "buffer" /\ Single!BufferNext /\ UNCHANGED <<part, multiVars, writerVars, readerVars>>
MultiNext == part = "multi" /\ Multi!MultiNext /\ UNCHANGED <<part, bufferVars, writerVars, readerVars>>
WriterNext == part = "writer" /\ Writer!Next /\ UNCHANGED <<part, bufferVars, multiVars, readerVars>>
ReaderNext == part = "reader" /\ Reader!Next /\ UNCHANGED <<part, bufferVars, multiVars, writerVars>>

Next == SingleNext \/ MultiNext \/ WriterNext \/ ReaderNext

Spec == Init /\ [][Next]_vars

-----------------------------------------------------------------------------
(* Properties *)

\* Buffer: over any sequence of operations, with Resize and Advance at any position,
\* 0 <= start <= end; until a Resize grows the content the window is within the array,
\* so that no slice expression panics, and shows bytes that were written, in order,
\* and until a position in front of the content moves the start back none that was
\* consumed.  BytesTo, BytesRange and BytesFrom cut the content into what it consists of.
\* MultiBuffer: writes, reads and splits lose, repeat and reorder nothing, Compact
\* loses nothing of buffers that were never cut, SplitBytes and SplitSize give at most
\* what they are asked for, and Copy and ReadAllToBytes give what they should.
BytesKept ==
  /\ part = "buffer" => Single!BufferTypeOK /\ Single!Window /\ Single!Fifo /\ Single!Slices
  /\ part = "multi" => Multi!MultiTypeOK /\ Multi!Stream /\ Multi!AtMost /\ Multi!Copies

\* BufferedWriter: the sink gets the bytes in order, none twice, and all but the ones
\* that a failed call has lost, however clients switch buffering on and off, copy
\* and close; nothing is held back without buffering, a Close that succeeds has
\* delivered what was written before, and ReadFrom returns the count of its bytes.
WriterStream ==
  \/ part # "writer"
  \/ /\ Writer!TypeOK
     /\ Writer!Stream
     /\ Writer!NothingHeldBack
     /\ Writer!CloseDelivers
     /\ Writer!ReadFromCounts

\* BufferedReader: the caller gets the bytes in the order in which they were sent,
\* never more than it asked for, and EOF only when nothing is left and the peer has
\* ended the stream, or reset it and the errno was returned before or dropped by readv;
\* a readv always has a buffer to fill, or it would look like the end of the stream.
ReaderStream ==
  \/ part # "reader"
  \/ /\ Reader!TypeOK
     /\ Reader!InOrder
     /\ Reader!EofIsTheEnd
     /\ Reader!AtMost

==============================================================================
