-------------------------------- MODULE Pipe --------------------------------
(***************************************************************************)
(* The in-memory pipe of transport/pipe: any number of goroutines call     *)
(* WriteMultiBuffer and ReadMultiBuffer[Timeout] on the two ends, others   *)
(* call Close, Interrupt, ReturnAnError and Recover.  A step of the model  *)
(* is what a goroutine does between two points where another may run: one  *)
(* critical section of the pipe's mutex, one Notifier.Signal, or the       *)
(* branch that a select takes.                                             *)
(*                                                                         *)
(* A MultiBuffer is the sequence of its bytes, each named by the writer    *)
(* that sent it and its place in what that writer sent; the empty sequence *)
(* is nil.  A Notifier (signal/notifier.go) is a channel of capacity one,  *)
(* so its state is whether the token is there; done (signal/done) is       *)
(* whether its channel is closed.                                          *)
(***************************************************************************)
EXTENDS Integers, Sequences, FiniteSets

CONSTANTS
  Writers,    \* goroutines that call WriteMultiBuffer
  Readers,    \* goroutines that call ReadMultiBuffer or ReadMultiBufferTimeout
  Limits,     \* the size limits New may be given; a negative one is no limit
  Chunks,     \* the lengths of a MultiBuffer handed to WriteMultiBuffer
  MaxBytes    \* bound: the number of bytes a writer sends in all

ASSUME PipeAssumption ==
  /\ Writers \cap Readers = {}
  /\ Limits \subseteq Int
  /\ Chunks \subseteq Nat
  /\ MaxBytes \in Nat

VARIABLES
  option,       \* pipeOption, fixed by New
  state,        \* open, closed or errord
  data,         \* the buffered bytes
  readSignal,   \* is the token of the readers' Notifier there?
  writeSignal,  \* is the token of the writers' Notifier there?
  done,         \* is the done channel closed?
  errChan,      \* does the error channel, of capacity one, hold an error?
  pc,           \* where each goroutine is
  mb,           \* the MultiBuffer each writer is writing
  ret,          \* what each reader's last call returned, or is about to return
  sent,         \* history: the number of bytes each writer has handed over
  accepted,     \* history: the bytes merged into data, in order
  delivered,    \* history: the bytes readers took out of data, in order
  lost,         \* history: the bytes Interrupt released
  refused,      \* history: the bytes of writes that failed
  discarded     \* history: the bytes of writes that overflowed and were dropped

pipeVars == <<option, state, data, readSignal, writeSignal, done, errChan>>
callVars == <<pc, mb, ret, sent>>
histVars == <<accepted, delivered, lost, refused, discarded>>
vars == <<pipeVars, callVars, histVars>>

Procs == Writers \cup Readers

Byte == Writers \X (1 .. MaxBytes)

\* The bytes that occur in a sequence.
Bytes(s) == {s[i] : i \in 1 .. Len(s)}

Option == [limit : Limits, discardOverflow : BOOLEAN]

-----------------------------------------------------------------------------
\* Mutant of isFull: a limit of zero is taken for no limit.
isFullUnlessZero(curSize) == option.limit > 0 /\ curSize > option.limit

\* pipeOption.isFull: the size may pass the limit once, by the last write.
isFull(curSize) == option.limit >= 0 /\ curSize > option.limit

\* pipe.getState, for a writer and for a reader.
writeState ==
  CASE state = "open" -> IF isFull(Len(data)) THEN "errBufferFull" ELSE "nil"
    [] state = "closed" -> "ErrClosedPipe"
    [] OTHER -> "ErrClosedPipe"

\* Mutants of readState: a full buffer stops readers too; closed is EOF at once.
readStateOfFull ==
  CASE state = "open" -> IF isFull(Len(data)) THEN "errBufferFull" ELSE "nil"
    [] state = "closed" -> IF data # << >> THEN "nil" ELSE "EOF"
    [] OTHER -> "ErrClosedPipe"

readStateUndrained ==
  CASE state = "open" -> "nil" [] state = "closed" -> "EOF" [] OTHER -> "ErrClosedPipe"

readState ==
  CASE state = "open" -> "nil"
    [] state = "closed" -> IF data # << >> THEN "nil" ELSE "EOF"
    [] OTHER -> "ErrClosedPipe"

Goto(p, label) == pc' = [pc EXCEPT ![p] = label]

\* New: the options are arbitrary, nothing is buffered, every call is to come.
Init ==
  /\ option \in Option
  /\ state = "open"
  /\ data = << >>
  /\ readSignal = FALSE
  /\ writeSignal = FALSE
  /\ done = FALSE
  /\ errChan = FALSE
  /\ pc = [p \in Procs |-> "idle"]
  /\ mb = [w \in Writers |-> << >>]
  /\ ret = [r \in Readers |-> "nil"]
  /\ sent = [w \in Writers |-> 0]
  /\ accepted = << >>
  /\ delivered = << >>
  /\ lost = << >>
  /\ refused = {}
  /\ discarded = {}

-----------------------------------------------------------------------------
(* Writers *)

\* A call of WriteMultiBuffer with n fresh bytes; an empty one returns at once.
WriteCall(w, n) ==
  /\ pc[w] = "idle"
  /\ sent[w] + n <= MaxBytes
  /\ sent' = [sent EXCEPT ![w] = @ + n]
  /\ mb' = [mb EXCEPT ![w] = [i \in 1 .. n |-> <<w, sent[w] + i>>]]
  /\ IF n = 0 THEN UNCHANGED pc ELSE Goto(w, "try")
  /\ UNCHANGED <<pipeVars, ret, histVars>>

\* writeMultiBufferInternal puts the bytes into data; the caller goes on to
\* signal the readers whether data was nil (err = nil) or not (errSlowDown).
WriteAccept(w) ==
  /\ pc[w] = "try"
  /\ writeState = "nil"
  /\ data' = data \o mb[w]
  /\ accepted' = accepted \o mb[w]
  /\ mb' = [mb EXCEPT ![w] = << >>]
  /\ Goto(w, "signal")
  /\ UNCHANGED <<option, state, readSignal, writeSignal, done, errChan, ret,
                 sent, delivered, lost, refused, discarded>>

\* The buffer is full and the pipe discards overflow: released, and no error.
WriteDiscard(w) ==
  /\ pc[w] = "try"
  /\ writeState = "errBufferFull"
  /\ option.discardOverflow
  /\ discarded' = discarded \cup Bytes(mb[w])
  /\ mb' = [mb EXCEPT ![w] = << >>]
  /\ Goto(w, "idle")
  /\ UNCHANGED <<pipeVars, ret, sent, accepted, delivered, lost, refused>>

\* The pipe is closed or errord: the bytes are released, the readers signalled.
WriteRefuse(w) ==
  /\ pc[w] = "try"
  /\ writeState = "ErrClosedPipe"
  /\ refused' = refused \cup Bytes(mb[w])
  /\ mb' = [mb EXCEPT ![w] = << >>]
  /\ Goto(w, "signal")
  /\ UNCHANGED <<pipeVars, ret, sent, accepted, delivered, lost, discarded>>

\* Mutant of WriteBlock: the bytes are merged before the writer waits.
WriteBlockMerged(w) ==
  /\ pc[w] = "try"
  /\ writeState = "errBufferFull"
  /\ ~ option.discardOverflow
  /\ data' = data \o mb[w]
  /\ accepted' = accepted \o mb[w]
  /\ Goto(w, "select")
  /\ UNCHANGED <<option, state, readSignal, writeSignal, done, errChan, mb, ret, sent,
                 delivered, lost, refused, discarded>>

\* The buffer is full and the writer goes to wait for room.
WriteBlock(w) ==
  /\ pc[w] = "try"
  /\ writeState = "errBufferFull"
  /\ ~ option.discardOverflow
  /\ Goto(w, "select")
  /\ UNCHANGED <<pipeVars, mb, ret, sent, histVars>>

\* Mutant of WriteSignal and of ReadSignal: the call returns without signalling.
ReturnUnsignalled(p) ==
  /\ pc[p] = "signal"
  /\ Goto(p, "idle")
  /\ UNCHANGED <<pipeVars, mb, ret, sent, histVars>>

\* Mutant of WriteDone and of ReadDone: the select has no case for done.
NoDoneCase(p) == FALSE

\* readSignal.Signal(), and the call returns.
WriteSignal(w) ==
  /\ pc[w] = "signal"
  /\ readSignal' = TRUE
  /\ Goto(w, "idle")
  /\ UNCHANGED <<option, state, data, writeSignal, done, errChan, mb, ret,
                 sent, histVars>>

\* The select of a writer that found the buffer full: the token of writeSignal
\* makes it try again; done makes it return, the bytes not released.
WriteWake(w) ==
  /\ pc[w] = "select"
  /\ writeSignal
  /\ writeSignal' = FALSE
  /\ Goto(w, "try")
  /\ UNCHANGED <<option, state, data, readSignal, done, errChan, mb, ret,
                 sent, histVars>>

WriteDone(w) ==
  /\ pc[w] = "select"
  /\ done
  /\ refused' = refused \cup Bytes(mb[w])
  /\ mb' = [mb EXCEPT ![w] = << >>]
  /\ Goto(w, "idle")
  /\ UNCHANGED <<pipeVars, ret, sent, accepted, delivered, lost, discarded>>

-----------------------------------------------------------------------------
(* Readers *)

\* A call of ReadMultiBuffer or of ReadMultiBufferTimeout: they differ only in
\* which of ReadError and ReadTimeout may end the call, so the branch that ends
\* it tells which one it was.
ReadCall(r) ==
  /\ pc[r] = "idle"
  /\ Goto(r, "try")
  /\ UNCHANGED <<pipeVars, mb, ret, sent, histVars>>

\* readMultiBufferInternal takes all of data.
ReadTake(r) ==
  /\ pc[r] = "try"
  /\ readState = "nil"
  /\ data # << >>
  /\ delivered' = delivered \o data
  /\ data' = << >>
  /\ ret' = [ret EXCEPT ![r] = "data"]
  /\ Goto(r, "signal")
  /\ UNCHANGED <<option, state, readSignal, writeSignal, done, errChan, mb,
                 sent, accepted, lost, refused, discarded>>

\* readMultiBufferInternal fails, with EOF or ErrClosedPipe.
ReadFail(r) ==
  /\ pc[r] = "try"
  /\ readState # "nil"
  /\ ret' = [ret EXCEPT ![r] = readState]
  /\ Goto(r, "signal")
  /\ UNCHANGED <<pipeVars, mb, sent, histVars>>

\* Neither data nor an error: the reader goes to wait.
ReadBlock(r) ==
  /\ pc[r] = "try"
  /\ readState = "nil"
  /\ data = << >>
  /\ Goto(r, "select")
  /\ UNCHANGED <<pipeVars, mb, ret, sent, histVars>>

\* writeSignal.Signal(), and the call returns.
ReadSignal(r) ==
  /\ pc[r] = "signal"
  /\ writeSignal' = TRUE
  /\ Goto(r, "idle")
  /\ UNCHANGED <<option, state, data, readSignal, done, errChan, mb, ret,
                 sent, histVars>>

\* The select of a reader: the token of readSignal or the closed done channel
\* make it try again; an error of errChan (of ReadMultiBuffer) or the
\* timer (of ReadMultiBufferTimeout) make it return.
ReadWake(r) ==
  /\ pc[r] = "select"
  /\ readSignal
  /\ readSignal' = FALSE
  /\ Goto(r, "try")
  /\ UNCHANGED <<option, state, data, writeSignal, done, errChan, mb, ret,
                 sent, histVars>>

ReadDone(r) ==
  /\ pc[r] = "select"
  /\ done
  /\ Goto(r, "try")
  /\ UNCHANGED <<pipeVars, mb, ret, sent, histVars>>

ReadError(r) ==
  /\ pc[r] = "select"
  /\ errChan
  /\ errChan' = FALSE
  /\ ret' = [ret EXCEPT ![r] = "injected"]
  /\ Goto(r, "idle")
  /\ UNCHANGED <<option, state, data, readSignal, writeSignal, done, mb,
                 sent, histVars>>

ReadTimeout(r) ==
  /\ pc[r] = "select"
  /\ ret' = [ret EXCEPT ![r] = "ErrReadTimeout"]
  /\ Goto(r, "idle")
  /\ UNCHANGED <<pipeVars, mb, sent, histVars>>

-----------------------------------------------------------------------------
(* The other calls, from any goroutine that holds an end of the pipe *)

\* Mutant of Interrupt: the released data stay in the pipe.
InterruptKeepingData ==
  /\ state = "open"
  /\ state' = "errord"
  /\ lost' = data
  /\ done' = TRUE
  /\ UNCHANGED <<option, data, readSignal, writeSignal, errChan, callVars,
                 accepted, delivered, refused, discarded>>

\* pipe.Close: nothing the second time; the buffered data stay readable.
Close ==
  /\ state = "open"
  /\ state' = "closed"
  /\ done' = TRUE
  /\ UNCHANGED <<option, data, readSignal, writeSignal, errChan, callVars, histVars>>

\* pipe.Interrupt: nothing on a closed pipe; the buffered data are released.
Interrupt ==
  /\ state = "open"
  /\ state' = "errord"
  /\ lost' = data
  /\ data' = << >>
  /\ done' = TRUE
  /\ UNCHANGED <<option, readSignal, writeSignal, errChan, callVars,
                 accepted, delivered, refused, discarded>>

\* ReturnAnError sends on errChan and blocks while an error is pending.
ReturnAnError ==
  /\ ~ errChan
  /\ errChan' = TRUE
  /\ UNCHANGED <<option, state, data, readSignal, writeSignal, done, callVars, histVars>>

\* Recover takes the pending error, if there is one.
Recover ==
  /\ errChan
  /\ errChan' = FALSE
  /\ UNCHANGED <<option, state, data, readSignal, writeSignal, done, callVars, histVars>>

-----------------------------------------------------------------------------
WriterStep(w) ==
  \/ WriteAccept(w) \/ WriteDiscard(w) \/ WriteRefuse(w) \/ WriteBlock(w)
  \/ WriteSignal(w) \/ WriteWake(w) \/ WriteDone(w)

ReaderStep(r) ==
  \/ ReadTake(r) \/ ReadFail(r) \/ ReadBlock(r) \/ ReadSignal(r)
  \/ ReadWake(r) \/ ReadDone(r)

Next ==
  \/ \E w \in Writers : WriterStep(w) \/ \E n \in Chunks : WriteCall(w, n)
  \/ \E r \in Readers : ReadCall(r) \/ ReaderStep(r) \/ ReadError(r) \/ ReadTimeout(r)
  \/ Close \/ Interrupt \/ ReturnAnError \/ Recover

Spec == Init /\ [][Next]_vars

\* A goroutine inside a call keeps running; no timer need fire and no error be
\* injected.  The reading side keeps calling until it is told that the pipe has
\* ended, as the loop of buf.Copy does.
Fairness ==
  /\ \A w \in Writers : WF_vars(WriterStep(w))
  /\ \A r \in Readers :
       /\ WF_vars(ReaderStep(r))
       /\ WF_vars(ret[r] \notin {"EOF", "ErrClosedPipe"} /\ ReadCall(r))

FairSpec == Spec /\ Fairness

-----------------------------------------------------------------------------
(* Properties *)

TypeOK ==
  /\ option \in Option
  /\ state \in {"open", "closed", "errord"}
  /\ data \in Seq(Byte)
  /\ readSignal \in BOOLEAN
  /\ writeSignal \in BOOLEAN
  /\ done \in BOOLEAN
  /\ errChan \in BOOLEAN
  /\ pc \in [Procs -> {"idle", "try", "signal", "select"}]
  /\ mb \in [Writers -> Seq(Byte)]
  /\ ret \in [Readers -> {"nil", "data", "EOF", "ErrClosedPipe", "injected", "ErrReadTimeout"}]
  /\ sent \in [Writers -> 0 .. MaxBytes]
  /\ accepted \in Seq(Byte)
  /\ delivered \in Seq(Byte)
  /\ lost \in Seq(Byte)
  /\ refused \subseteq Byte
  /\ discarded \subseteq Byte

\* What writers put in is what readers take out, in the same order and each
\* byte once, followed by what is still buffered; only an Interrupt cuts the
\* stream, at its end (readMultiBufferInternal, writeMultiBufferInternal).
Fifo ==
  /\ accepted = delivered \o data \o lost
  /\ lost # << >> => state = "errord" /\ data = << >>

\* Every byte handed to WriteMultiBuffer is in one place: still with its writer,
\* accepted once, refused with an error, or discarded on overflow.  So a write
\* that returned ErrClosedPipe delivers nothing, and a retried one nothing twice.
ExactlyOnce ==
  /\ \A i, j \in 1 .. Len(accepted) : accepted[i] = accepted[j] => i = j
  /\ \A w \in Writers, n \in 1 .. MaxBytes :
       LET places == {k \in 1 .. 4 :
                        <<w, n>> \in <<Bytes(mb[w]), Bytes(accepted), refused, discarded>>[k]}
       IN  Cardinality(places) = IF n <= sent[w] THEN 1 ELSE 0

\* With a size limit, no more is buffered than the limit and one write.
Bounded ==
  (option.limit >= 0 /\ data # << >>) =>
     \E n \in Chunks : Len(data) <= option.limit + n

\* A reader that waits while bytes are buffered has a wake-up on its way: the
\* token, the closed done channel, a writer about to signal, or another reader
\* that was woken for these bytes and will take them.
ReaderWakeup ==
  \A r \in Readers :
    (pc[r] = "select" /\ data # << >>) =>
       \/ readSignal
       \/ done
       \/ \E w \in Writers : pc[w] = "signal"
       \/ \E q \in Readers : pc[q] = "try"

\* A writer that waits for room is never forgotten: something is buffered, so the
\* next read will signal, or the token is there, or a reader is about to signal,
\* or another writer was woken and will fill the buffer, or done is closed.
WriterWakeup ==
  \A w \in Writers :
    pc[w] = "select" =>
       \/ data # << >>
       \/ writeSignal
       \/ done
       \/ \E r \in Readers : pc[r] = "signal"
       \/ \E v \in Writers : pc[v] = "try"

\* No wake-up is lost, on either side of the pipe.
NoLostWakeup == ReaderWakeup /\ WriterWakeup

\* The pipe implements the stream its users rely on.  Close and Interrupt are
\* final and nothing is accepted after them, a read takes all there is and in
\* order, and a reader is told EOF only once everything accepted was delivered.
PipeStream ==
  INSTANCE Stream WITH written <- accepted, read <- delivered, status <- state,
                       eof <- \E r \in Readers : ret[r] = "EOF"

ImplementsStream == PipeStream!Spec

\* A write always returns while the reading side keeps reading or the pipe ends.
WritersReturn ==
  \A w \in Writers : pc[w] # "idle" ~> pc[w] = "idle"

\* A byte that was accepted is delivered unless the pipe is interrupted.
Delivery ==
  \A i \in 1 .. MaxBytes :
    Len(accepted) >= i ~> (Len(delivered) >= i \/ state = "errord")

\* Once the pipe ended, every reader that keeps reading is told so.
EndReachesReaders ==
  \A r \in Readers : done ~> ret[r] \in {"EOF", "ErrClosedPipe"}

\* Nothing gets stuck: accepted bytes are delivered, writes return, and reads learn of
\* the end of the pipe.
CallsEnd == Delivery /\ WritersReturn /\ EndReachesReaders
=============================================================================
