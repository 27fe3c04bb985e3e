----------------------------- MODULE PipeProofs -----------------------------
(***************************************************************************)
(* Proofs about Pipe, for any sets of readers and writers, any limits, any *)
(* chunk lengths and any number of bytes.                                  *)
(***************************************************************************)
EXTENDS Pipe, SequenceTheorems, FiniteSetTheorems, TLAPS

USE SMTT(30), ZenonT(30)

\* The bytes of one more write, as WriteCall numbers them, are a MultiBuffer.
LEMMA ChunkType ==
  ASSUME NEW w \in Writers, NEW k \in 0 .. MaxBytes, NEW n \in Nat, k + n <= MaxBytes
  PROVE  [i \in 1 .. n |-> <<w, k + i>>] \in Seq(Byte)
<1>1. \A i \in 1 .. n : <<w, k + i>> \in Byte
  BY PipeAssumption DEF Byte
<1>2. QED
  BY <1>1

\* The bytes of a MultiBuffer are bytes.
LEMMA BytesType ==
  ASSUME NEW s \in Seq(Byte)
  PROVE  Bytes(s) \subseteq Byte
BY DEF Bytes

LEMMA ConcatBytes ==
  ASSUME NEW a \in Seq(Byte), NEW b \in Seq(Byte), NEW c \in Seq(Byte)
  PROVE  (a \o b) \o c = a \o (b \o c)
OBVIOUS

LEMMA InitTypeOK == Init => TypeOK
<1>1. 0 \in 0 .. MaxBytes
  BY PipeAssumption
<1>2. << >> \in Seq(Byte)
  OBVIOUS
<1> SUFFICES ASSUME Init PROVE TypeOK
  OBVIOUS
<1>3. /\ mb \in [Writers -> Seq(Byte)] /\ sent \in [Writers -> 0 .. MaxBytes]
      /\ pc \in [Procs -> {"idle", "try", "signal", "select"}]
      /\ ret \in [Readers -> {"nil", "data", "EOF", "ErrClosedPipe", "injected", "ErrReadTimeout"}]
  BY <1>1, <1>2, Zenon DEF Init
<1>4. refused \subseteq Byte /\ discarded \subseteq Byte
  BY Zenon DEF Init
<1>5. QED
  BY <1>2, <1>3, <1>4, Zenon DEF Init, TypeOK

LEMMA NextTypeOK == TypeOK /\ [Next]_vars => TypeOK'
<1> SUFFICES ASSUME TypeOK, [Next]_vars PROVE TypeOK'
  OBVIOUS
<1> USE PipeAssumption DEF TypeOK, Goto, Procs
<1>1. ASSUME NEW w \in Writers, NEW n \in Chunks, WriteCall(w, n) PROVE TypeOK'
  <2>1. [i \in 1 .. n |-> <<w, sent[w] + i>>] \in Seq(Byte)
    BY <1>1, ChunkType, Zenon DEF WriteCall
  <2>2. sent[w] + n \in 0 .. MaxBytes
    BY <1>1 DEF WriteCall
  <2>3. QED
    BY <1>1, <2>1, <2>2, Zenon DEF WriteCall, pipeVars, histVars
<1>2. ASSUME NEW w \in Writers, WriterStep(w) PROVE TypeOK'
  <2>1. Bytes(mb[w]) \subseteq Byte
    BY BytesType
  <2>2. CASE WriteAccept(w)
    BY <2>2, <2>1 DEF WriteAccept
  <2>3. CASE WriteDiscard(w)
    BY <2>3, <2>1 DEF WriteDiscard, pipeVars
  <2>4. CASE WriteRefuse(w)
    BY <2>4, <2>1 DEF WriteRefuse, pipeVars
  <2>5. CASE WriteBlock(w)
    BY <2>5 DEF WriteBlock, pipeVars, histVars
  <2>6. CASE WriteSignal(w)
    BY <2>6 DEF WriteSignal, histVars
  <2>7. CASE WriteWake(w)
    BY <2>7, Zenon DEF WriteWake, histVars
  <2>8. CASE WriteDone(w)
    BY <2>8, <2>1 DEF WriteDone, pipeVars
  <2>9. QED
    BY <1>2, <2>2, <2>3, <2>4, <2>5, <2>6, <2>7, <2>8, Zenon DEF WriterStep
<1>3. ASSUME NEW r \in Readers,
             ReadCall(r) \/ ReaderStep(r) \/ ReadError(r) \/ ReadTimeout(r)
      PROVE  TypeOK'
  <2>1. CASE ReadCall(r)
    BY <2>1 DEF ReadCall, pipeVars, histVars
  <2>2. CASE ReadTake(r)
    BY <2>2 DEF ReadTake
  <2>3. CASE ReadFail(r)
    BY <2>3 DEF ReadFail, readState, pipeVars, histVars
  <2>4. CASE ReadBlock(r)
    BY <2>4 DEF ReadBlock, pipeVars, histVars
  <2>5. CASE ReadSignal(r)
    BY <2>5 DEF ReadSignal, histVars
  <2>6. CASE ReadWake(r)
    BY <2>6, Zenon DEF ReadWake, histVars
  <2>7. CASE ReadDone(r)
    BY <2>7 DEF ReadDone, pipeVars, histVars
  <2>8. CASE ReadError(r)
    BY <2>8, Zenon DEF ReadError, histVars
  <2>9. CASE ReadTimeout(r)
    BY <2>9 DEF ReadTimeout, pipeVars, histVars
  <2>10. QED
    BY <1>3, <2>1, <2>2, <2>3, <2>4, <2>5, <2>6, <2>7, <2>8, <2>9 DEF ReaderStep
<1>4. CASE Close
  BY <1>4 DEF Close, callVars, histVars
<1>5. CASE Interrupt
  BY <1>5 DEF Interrupt, callVars
<1>6. CASE ReturnAnError
  BY <1>6 DEF ReturnAnError, callVars, histVars
<1>7. CASE Recover
  BY <1>7, Zenon DEF Recover, callVars, histVars
<1>8. CASE UNCHANGED vars
  BY <1>8 DEF vars, pipeVars, callVars, histVars
<1>9. QED
  BY <1>1, <1>2, <1>3, <1>4, <1>5, <1>6, <1>7, <1>8, Zenon DEF Next

\* Every state of the pipe and of its callers is of the type the code declares.
THEOREM TypeCorrect == Spec => []TypeOK
BY InitTypeOK, NextTypeOK, PTL DEF Spec

-----------------------------------------------------------------------------
(* The inductive invariant.  Fifo needs that done and state agree only for    *)
(* ReaderWakeup, WriterWakeup needs that a pending write is not empty, the    *)
(* bound that its length is one of Chunks, and the stream that a reader that  *)
(* was told EOF was told so by a closed and empty pipe.                       *)

DoneInv == done <=> state # "open"

MbInv ==
  \A w \in Writers :
    pc[w] \in {"try", "select"} => mb[w] # << >> /\ Len(mb[w]) \in Chunks

EofInv ==
  \A r \in Readers :
    ret[r] = "EOF" => state = "closed" /\ data = << >> /\ pc[r] # "select"

IInv ==
  /\ TypeOK /\ DoneInv /\ MbInv /\ EofInv
  /\ Fifo /\ Bounded /\ ReaderWakeup /\ WriterWakeup

\* What a step does to the stream: nothing, unless it is one of four.
LEMMA StreamFrame ==
  [Next]_vars =>
    \/ UNCHANGED <<state, done, data, accepted, delivered, lost>>
    \/ \E w \in Writers : WriteAccept(w)
    \/ \E r \in Readers : ReadTake(r)
    \/ Close
    \/ Interrupt
BY DEF Next, vars, pipeVars, callVars, histVars, WriterStep, ReaderStep, WriteCall,
       WriteDiscard, WriteRefuse, WriteBlock, WriteSignal, WriteWake, WriteDone,
       ReadCall, ReadFail, ReadBlock, ReadSignal, ReadWake, ReadDone, ReadError,
       ReadTimeout, ReturnAnError, Recover

LEMMA DoneStep == DoneInv /\ [Next]_vars => DoneInv'
BY StreamFrame DEF DoneInv, WriteAccept, ReadTake, Close, Interrupt

LEMMA FifoStep == TypeOK /\ Fifo /\ [Next]_vars => Fifo'
<1> SUFFICES ASSUME TypeOK, Fifo, [Next]_vars PROVE Fifo'
  OBVIOUS
<1> USE DEF TypeOK, Fifo
<1>1. CASE UNCHANGED <<state, done, data, accepted, delivered, lost>>
  BY <1>1
<1>2. ASSUME NEW w \in Writers, WriteAccept(w) PROVE Fifo'
  <2> state = "open"
    BY <1>2 DEF WriteAccept, writeState
  <2>1. lost = << >> /\ lost' = lost /\ state' = state
    BY <1>2 DEF WriteAccept
  <2>2. accepted' = (delivered \o data) \o mb[w]
    BY <1>2, <2>1, ConcatEmptySeq DEF WriteAccept
  <2>3. accepted' = delivered \o (data \o mb[w])
    <3>1. data \in Seq(Byte) /\ delivered \in Seq(Byte) /\ mb[w] \in Seq(Byte)
      OBVIOUS
    <3>2. (delivered \o data) \o mb[w] = delivered \o (data \o mb[w])
      BY <3>1, ConcatBytes, Zenon
    <3>3. QED
      BY <2>2, <3>2
  <2>4. delivered' \o data' \o lost' = delivered \o (data \o mb[w])
    <3>1. delivered' = delivered /\ data' = data \o mb[w] /\ lost' = << >>
      BY <1>2, <2>1 DEF WriteAccept
    <3>2. delivered \o (data \o mb[w]) \in Seq(Byte)
      OBVIOUS
    <3>3. QED
      BY <3>1, <3>2, ConcatEmptySeq, ConcatProperties, Zenon
  <2>5. QED
    BY <2>1, <2>3, <2>4, Zenon
<1>3. ASSUME NEW r \in Readers, ReadTake(r) PROVE Fifo'
  <2>1. lost = << >> /\ lost' = lost /\ accepted' = accepted
    BY <1>3 DEF ReadTake
  <2>2. accepted = delivered \o data
    BY <2>1, ConcatEmptySeq, ConcatProperties
  <2>3. delivered' \o data' \o lost' = delivered \o data
    BY <1>3, <2>1, ConcatEmptySeq, ConcatProperties DEF ReadTake
  <2>4. QED
    BY <2>1, <2>2, <2>3, Zenon
<1>4. CASE Close
  BY <1>4 DEF Close, histVars
<1>5. CASE Interrupt
  <2>1. lost = << >> /\ lost' = data /\ data' = << >> /\ state' = "errord"
        /\ accepted' = accepted /\ delivered' = delivered
    BY <1>5 DEF Interrupt
  <2>2. accepted = delivered \o data
    BY <2>1, ConcatEmptySeq, ConcatProperties
  <2>3. delivered' \o data' \o lost' = delivered \o data
    BY <2>1, ConcatEmptySeq
  <2>4. QED
    BY <2>1, <2>2, <2>3
<1>6. QED
  BY <1>1, <1>2, <1>3, <1>4, <1>5, StreamFrame, Zenon

LEMMA MbStep == TypeOK /\ MbInv /\ [Next]_vars => MbInv'
<1> SUFFICES ASSUME TypeOK, MbInv, [Next]_vars, NEW v \in Writers,
                    (pc[v] \in {"try", "select"})'
             PROVE  (mb[v] # << >> /\ Len(mb[v]) \in Chunks)'
  BY DEF MbInv
<1> USE PipeAssumption DEF TypeOK, MbInv, Goto, Procs
<1>1. ASSUME NEW w \in Writers, NEW n \in Chunks, WriteCall(w, n)
      PROVE  (mb[v] # << >> /\ Len(mb[v]) \in Chunks)'
  <2>1. CASE v = w
    <3>1. n # 0
      BY <1>1, <2>1 DEF WriteCall
    <3>2. mb'[v] = [i \in 1 .. n |-> <<w, sent[w] + i>>]
      BY <1>1, <2>1 DEF WriteCall
    <3>3. Len(mb'[v]) = n
      BY <3>2
    <3>4. QED
      BY <3>1, <3>3
  <2>2. CASE v # w
    BY <1>1, <2>2 DEF WriteCall
  <2>3. QED
    BY <2>1, <2>2
<1>2. ASSUME NEW w \in Writers, WriterStep(w)
      PROVE  (mb[v] # << >> /\ Len(mb[v]) \in Chunks)'
  BY <1>2 DEF WriterStep, WriteAccept, WriteDiscard, WriteRefuse, WriteBlock,
              WriteSignal, WriteWake, WriteDone
<1>3. ASSUME NEW r \in Readers,
             ReadCall(r) \/ ReaderStep(r) \/ ReadError(r) \/ ReadTimeout(r)
      PROVE  (mb[v] # << >> /\ Len(mb[v]) \in Chunks)'
  BY <1>3 DEF ReaderStep, ReadCall, ReadTake, ReadFail, ReadBlock, ReadSignal,
              ReadWake, ReadDone, ReadError, ReadTimeout
<1>4. CASE Close \/ Interrupt \/ ReturnAnError \/ Recover \/ UNCHANGED vars
  BY <1>4 DEF Close, Interrupt, ReturnAnError, Recover, vars, callVars
<1>5. QED
  BY <1>1, <1>2, <1>3, <1>4 DEF Next

LEMMA EofStep == TypeOK /\ EofInv /\ [Next]_vars => EofInv'
<1> SUFFICES ASSUME TypeOK, EofInv, [Next]_vars, NEW q \in Readers, ret'[q] = "EOF"
             PROVE  (state = "closed" /\ data = << >> /\ pc[q] # "select")'
  BY DEF EofInv
<1> USE PipeAssumption DEF TypeOK, EofInv, Goto, Procs
<1>1. CASE ret[q] = "EOF"
  <2>1. state = "closed" /\ data = << >> /\ pc[q] # "select"
    BY <1>1
  <2>2. (state = "closed" /\ data = << >>)'
    BY <2>1, StreamFrame DEF WriteAccept, writeState, ReadTake, Close, Interrupt
  <2>3. pc'[q] # "select"
    BY <2>1 DEF Next, vars, callVars, WriterStep, ReaderStep, WriteCall, WriteAccept,
       WriteDiscard, WriteRefuse, WriteBlock, WriteSignal, WriteWake, WriteDone, ReadCall,
       ReadTake, ReadFail, ReadBlock, readState, ReadSignal, ReadWake, ReadDone, ReadError,
       ReadTimeout, Close, Interrupt, ReturnAnError, Recover
  <2>4. QED
    BY <2>2, <2>3
<1>2. CASE ret[q] # "EOF"
  <2>1. PICK r \in Readers : ReadFail(r) /\ r = q
    BY <1>2 DEF Next, vars, callVars, WriterStep, ReaderStep, WriteCall, WriteAccept,
       WriteDiscard, WriteRefuse, WriteBlock, WriteSignal, WriteWake, WriteDone, ReadCall,
       ReadTake, ReadFail, ReadBlock, ReadSignal, ReadWake, ReadDone, ReadError,
       ReadTimeout, Close, Interrupt, ReturnAnError, Recover
  <2>2. readState = "EOF"
    BY <2>1 DEF ReadFail
  <2>3. state = "closed" /\ data = << >>
    BY <2>2 DEF readState
  <2>4. QED
    BY <2>1, <2>3 DEF ReadFail, pipeVars
<1>3. QED
  BY <1>1, <1>2

LEMMA BoundedStep == TypeOK /\ MbInv /\ Bounded /\ [Next]_vars => Bounded'
<1> SUFFICES ASSUME TypeOK, MbInv, Bounded, [Next]_vars, (option.limit >= 0 /\ data # << >>)'
             PROVE  \E n \in Chunks : Len(data') <= option'.limit + n
  BY DEF Bounded
<1> USE PipeAssumption DEF TypeOK, Bounded, Option
<1>0. option' = option
  BY DEF Next, vars, pipeVars, callVars, WriterStep, ReaderStep, WriteCall, WriteAccept,
     WriteDiscard, WriteRefuse, WriteBlock, WriteSignal, WriteWake, WriteDone, ReadCall,
     ReadTake, ReadFail, ReadBlock, ReadSignal, ReadWake, ReadDone, ReadError,
     ReadTimeout, Close, Interrupt, ReturnAnError, Recover
<1> option.limit \in Int /\ option.limit >= 0 /\ option'.limit = option.limit
  BY <1>0, Zenon
<1>1. CASE data' = data
  BY <1>0, <1>1
<1>2. ASSUME NEW w \in Writers, WriteAccept(w)
      PROVE  \E n \in Chunks : Len(data') <= option'.limit + n
  <2>1. ~ isFull(Len(data))
    BY <1>2 DEF WriteAccept, writeState
  <2>2. Len(data) <= option.limit
    BY <2>1 DEF isFull
  <2>3. Len(mb[w]) \in Chunks
    BY <1>2 DEF MbInv, WriteAccept
  <2>4. Len(data') = Len(data) + Len(mb[w])
    BY <1>2, ConcatProperties DEF WriteAccept
  <2>5. QED
    BY <2>2, <2>3, <2>4
<1>3. QED
  BY <1>1, <1>2, StreamFrame DEF ReadTake, Close, Interrupt

\* Who signals the readers: the wake-up owed to a waiting reader is kept.
LEMMA ReaderWakeupStep ==
  TypeOK /\ DoneInv /\ ReaderWakeup /\ [Next]_vars => ReaderWakeup'
<1> SUFFICES ASSUME TypeOK, DoneInv, ReaderWakeup, [Next]_vars,
                    NEW r \in Readers, pc'[r] = "select", data' # << >>
             PROVE  \/ readSignal'
                    \/ done'
                    \/ \E w \in Writers : pc'[w] = "signal"
                    \/ \E q \in Readers : pc'[q] = "try"
  BY DEF ReaderWakeup
<1> DEFINE Owed == \/ readSignal'
                   \/ done'
                   \/ \E w \in Writers : pc'[w] = "signal"
                   \/ \E q \in Readers : pc'[q] = "try"
<1> USE PipeAssumption DEF TypeOK, ReaderWakeup, Goto, Procs
<1>1. ASSUME NEW w \in Writers, NEW n \in Chunks, WriteCall(w, n) PROVE Owed
  BY <1>1, Zenon DEF WriteCall, pipeVars
<1>2. ASSUME NEW w \in Writers, WriterStep(w) PROVE Owed
  <2>1. CASE WriteAccept(w)
    BY <2>1 DEF WriteAccept
  <2>2. CASE WriteDiscard(w) \/ WriteBlock(w) \/ WriteDone(w)
    BY <2>2, Zenon DEF WriteDiscard, WriteBlock, WriteDone, pipeVars
  <2>3. CASE WriteRefuse(w)
    BY <2>3 DEF WriteRefuse
  <2>4. CASE WriteSignal(w)
    BY <2>4 DEF WriteSignal
  <2>5. CASE WriteWake(w)
    BY <2>5, Zenon DEF WriteWake
  <2>6. QED
    BY <1>2, <2>1, <2>2, <2>3, <2>4, <2>5 DEF WriterStep
<1>3. ASSUME NEW q \in Readers,
             ReadCall(q) \/ ReaderStep(q) \/ ReadError(q) \/ ReadTimeout(q)
      PROVE  Owed
  <2>1. CASE ReadCall(q) \/ ReadWake(q) \/ ReadDone(q)
    BY <2>1 DEF ReadCall, ReadWake, ReadDone
  <2>2. CASE ReadTake(q)
    BY <2>2 DEF ReadTake
  <2>3. CASE ReadFail(q)
    BY <2>3 DEF ReadFail, readState, DoneInv, pipeVars
  <2>4. CASE ReadBlock(q)
    BY <2>4 DEF ReadBlock, pipeVars
  <2>5. CASE ReadSignal(q) \/ ReadError(q) \/ ReadTimeout(q)
    BY <2>5, Zenon DEF ReadSignal, ReadError, ReadTimeout, pipeVars
  <2>6. QED
    BY <1>3, <2>1, <2>2, <2>3, <2>4, <2>5 DEF ReaderStep
<1>4. CASE Close \/ Interrupt \/ ReturnAnError \/ Recover \/ UNCHANGED vars
  BY <1>4, Zenon DEF Close, Interrupt, ReturnAnError, Recover, vars, callVars, pipeVars
<1>5. QED
  BY <1>1, <1>2, <1>3, <1>4 DEF Next

\* The wake-up owed to a waiting writer is kept.
LEMMA WriterWakeupStep ==
  TypeOK /\ DoneInv /\ MbInv /\ WriterWakeup /\ [Next]_vars => WriterWakeup'
<1> SUFFICES ASSUME TypeOK, DoneInv, MbInv, WriterWakeup, [Next]_vars,
                    NEW v \in Writers, pc'[v] = "select"
             PROVE  \/ data' # << >>
                    \/ writeSignal'
                    \/ done'
                    \/ \E r \in Readers : pc'[r] = "signal"
                    \/ \E w \in Writers : pc'[w] = "try"
  BY DEF WriterWakeup
<1> DEFINE Owed == \/ data' # << >>
                   \/ writeSignal'
                   \/ done'
                   \/ \E r \in Readers : pc'[r] = "signal"
                   \/ \E w \in Writers : pc'[w] = "try"
<1> USE PipeAssumption DEF TypeOK, WriterWakeup, Goto, Procs
<1>1. ASSUME NEW w \in Writers, NEW n \in Chunks, WriteCall(w, n) PROVE Owed
  BY <1>1, Zenon DEF WriteCall, pipeVars
<1>2. ASSUME NEW w \in Writers, WriterStep(w) PROVE Owed
  <2>1. CASE WriteAccept(w)
    <3>1. mb[w] # << >> /\ mb[w] \in Seq(Byte) /\ data \in Seq(Byte)
      BY <2>1 DEF WriteAccept, MbInv
    <3>2. data' = data \o mb[w]
      BY <2>1 DEF WriteAccept
    <3>3. data' # << >>
      BY <3>1, <3>2
    <3>4. QED
      BY <3>3
  <2>2. CASE WriteDiscard(w)
    <3>1. data # << >> /\ data' = data
      BY <2>2 DEF WriteDiscard, writeState, isFull, pipeVars, Option
    <3>2. QED
      BY <3>1
  <2>3. CASE WriteBlock(w)
    <3>1. data # << >> /\ data' = data
      BY <2>3 DEF WriteBlock, writeState, isFull, pipeVars, Option
    <3>2. QED
      BY <3>1
  <2>4. CASE WriteRefuse(w)
    BY <2>4 DEF WriteRefuse, writeState, DoneInv, pipeVars
  <2>5. CASE WriteSignal(w)
    BY <2>5, Zenon DEF WriteSignal
  <2>6. CASE WriteWake(w)
    BY <2>6 DEF WriteWake
  <2>7. CASE WriteDone(w)
    BY <2>7 DEF WriteDone, pipeVars
  <2>8. QED
    BY <1>2, <2>1, <2>2, <2>3, <2>4, <2>5, <2>6, <2>7 DEF WriterStep
<1>3. ASSUME NEW r \in Readers,
             ReadCall(r) \/ ReaderStep(r) \/ ReadError(r) \/ ReadTimeout(r)
      PROVE  Owed
  BY <1>3, Zenon DEF ReaderStep, ReadCall, ReadTake, ReadFail, ReadBlock, ReadSignal,
              ReadWake, ReadDone, ReadError, ReadTimeout, pipeVars
<1>4. CASE Close \/ Interrupt \/ ReturnAnError \/ Recover \/ UNCHANGED vars
  BY <1>4, Zenon DEF Close, Interrupt, ReturnAnError, Recover, vars, callVars, pipeVars
<1>5. QED
  BY <1>1, <1>2, <1>3, <1>4 DEF Next

LEMMA InitIInv == Init => IInv
<1> SUFFICES ASSUME Init PROVE IInv
  OBVIOUS
<1>1. TypeOK
  BY InitTypeOK
<1>2. DoneInv /\ MbInv /\ EofInv /\ Bounded /\ ReaderWakeup /\ WriterWakeup
  BY PipeAssumption DEF Init, DoneInv, MbInv, EofInv, Bounded, ReaderWakeup, WriterWakeup, Procs
<1>3. Fifo
  BY DEF Init, Fifo
<1>4. QED
  BY <1>1, <1>2, <1>3 DEF IInv

LEMMA InductiveInvariant == Spec => []IInv
<1>1. IInv /\ [Next]_vars => IInv'
  BY NextTypeOK, DoneStep, MbStep, EofStep, FifoStep, BoundedStep, ReaderWakeupStep,
     WriterWakeupStep DEF IInv
<1>2. QED
  BY <1>1, InitIInv, PTL DEF Spec

\* The pipe is a FIFO: accepted bytes come out once, in order, cut only by Interrupt.
THEOREM FifoCorrect == Spec => []Fifo
BY InductiveInvariant, PTL DEF IInv

\* A pipe with a limit never buffers more than the limit and one write.
THEOREM BoundCorrect == Spec => []Bounded
BY InductiveInvariant, PTL DEF IInv

\* No wake-up is lost: neither a reader's nor a writer's, however many there are.
THEOREM WakeupCorrect == Spec => []NoLostWakeup
BY InductiveInvariant, PTL DEF IInv, NoLostWakeup

-----------------------------------------------------------------------------
(* Refinement: every step of the pipe is a step of Stream or leaves it alone. *)

EofTold == \E r \in Readers : ret[r] = "EOF"

LEMMA StreamInit == Init => PipeStream!Init
BY DEF Init, PipeStream!Init

LEMMA StreamStep == IInv /\ [Next]_vars => [PipeStream!Next]_(PipeStream!vars)
<1> SUFFICES ASSUME IInv, [Next]_vars PROVE [PipeStream!Next]_(PipeStream!vars)
  OBVIOUS
<1> USE DEF IInv, TypeOK
<1>1. ASSUME NEW w \in Writers, WriteAccept(w) PROVE PipeStream!Write
  <2>1. state = "open" /\ state' = state
    BY <1>1 DEF WriteAccept, writeState
  <2>2. mb[w] # << >> /\ mb[w] \in Seq(Byte) /\ accepted \in Seq(Byte)
    BY <1>1 DEF WriteAccept, MbInv
  <2>3. accepted' = accepted \o mb[w]
    BY <1>1 DEF WriteAccept
  <2>4. /\ Len(accepted') > Len(accepted)
        /\ \A i \in 1 .. Len(accepted) : accepted'[i] = accepted[i]
    BY <2>2, <2>3
  <2>5. delivered' = delivered /\ EofTold' = EofTold
    BY <1>1 DEF WriteAccept, EofTold
  <2>6. QED
    BY <2>1, <2>4, <2>5 DEF PipeStream!Write, EofTold
<1>2. ASSUME NEW r \in Readers, ReadTake(r) PROVE PipeStream!Read
  <2>1. state # "errord" /\ state' = state
    BY <1>2 DEF ReadTake, readState
  <2>2. lost = << >> /\ accepted = delivered \o data
    <3>1. lost = << >>
      BY <2>1 DEF Fifo
    <3>2. delivered \o data \in Seq(Byte)
      OBVIOUS
    <3>3. QED
      BY <3>1, <3>2, ConcatEmptySeq DEF Fifo
  <2>3. delivered' = accepted' /\ accepted' = accepted /\ delivered # accepted
    BY <1>2, <2>2, ConcatEqualIffEmpty DEF ReadTake
  <2>4. ~ EofTold /\ ~ EofTold'
    BY <1>2 DEF ReadTake, EofInv, EofTold
  <2>5. QED
    BY <2>1, <2>3, <2>4 DEF PipeStream!Read, EofTold
<1>3. ASSUME Close \/ Interrupt PROVE PipeStream!End
  BY <1>3 DEF Close, Interrupt, PipeStream!End, callVars, histVars
<1>4. ASSUME UNCHANGED <<state, done, data, accepted, delivered, lost>>
      PROVE  [PipeStream!Next]_(PipeStream!vars)
  <2>1. CASE EofTold' = EofTold
    BY <1>4, <2>1 DEF PipeStream!vars, EofTold
  <2>2. CASE EofTold' /\ ~ EofTold
    <3>1. PICK q \in Readers : ret'[q] = "EOF"
      BY <2>2 DEF EofTold
    <3>2. state' = "closed" /\ data' = << >>
      BY <3>1, EofStep DEF EofInv
    <3>3. state = "closed" /\ data = << >> /\ lost = << >>
      BY <1>4, <3>2 DEF Fifo
    <3>4. accepted = delivered
      BY <3>3, ConcatEmptySeq DEF Fifo
    <3>5. QED
      BY <1>4, <2>2, <3>3, <3>4 DEF PipeStream!AnnounceEnd, PipeStream!Next, EofTold
  <2>3. CASE EofTold /\ ~ EofTold'
    <3>1. PICK q \in Readers : ret[q] = "EOF"
      BY <2>3 DEF EofTold
    <3>2. ret'[q] = "EOF"
      BY <3>1 DEF EofInv, Next, vars, callVars, WriterStep, ReaderStep, WriteCall,
         WriteAccept, WriteDiscard, WriteRefuse, WriteBlock, WriteSignal, WriteWake,
         WriteDone, ReadCall, ReadTake, ReadFail, readState, ReadBlock, ReadSignal,
         ReadWake, ReadDone, ReadError, ReadTimeout, Close, Interrupt, ReturnAnError, Recover
    <3>3. QED
      BY <2>3, <3>2 DEF EofTold
  <2>4. QED
    BY <2>1, <2>2, <2>3 DEF EofTold
<1>5. QED
  BY <1>1, <1>2, <1>3, <1>4, StreamFrame DEF PipeStream!Next

\* The pipe, with its buffers, signals and waiting, implements Stream.
THEOREM StreamImplemented == Spec => ImplementsStream
<1>1. QED
  BY InductiveInvariant, StreamInit, StreamStep, PTL
  DEF Spec, ImplementsStream, PipeStream!Spec

-----------------------------------------------------------------------------
(* ExactlyOnce.  Its inductive form says which writer's bytes a MultiBuffer    *)
(* holds, and that a writer between two calls holds none.                     *)

Distinct(s) == \A i, j \in 1 .. Len(s) : s[i] = s[j] => i = j

\* The n-th byte of w is in one of the four places if it was sent, in none if not.
Placed(w, n) ==
  LET b == <<w, n>> IN
  /\ n <= sent[w] <=> b \in Bytes(mb[w]) \cup Bytes(accepted) \cup refused \cup discarded
  /\ b \in Bytes(mb[w]) => b \notin Bytes(accepted) \cup refused \cup discarded
  /\ b \in Bytes(accepted) => b \notin refused \cup discarded
  /\ b \notin refused \cap discarded

OnceInv ==
  /\ Distinct(accepted)
  /\ \A w \in Writers :
       /\ pc[w] \in {"idle", "signal"} => mb[w] = << >>
       /\ Distinct(mb[w])
       /\ \A b \in Bytes(mb[w]) : b[1] = w
       /\ \A n \in 1 .. MaxBytes : Placed(w, n)

LEMMA EmptyBytes == Bytes(<< >>) = {}
BY DEF Bytes

LEMMA BytesConcat ==
  ASSUME NEW a \in Seq(Byte), NEW b \in Seq(Byte)
  PROVE  Bytes(a \o b) = Bytes(a) \cup Bytes(b)
<1>1. /\ Len(a) \in Nat /\ Len(b) \in Nat /\ Len(a \o b) = Len(a) + Len(b)
      /\ \A i \in 1 .. Len(a) + Len(b) :
           (a \o b)[i] = IF i <= Len(a) THEN a[i] ELSE b[i - Len(a)]
  BY ConcatProperties
<1>2. ASSUME NEW x \in Bytes(a \o b) PROVE x \in Bytes(a) \cup Bytes(b)
  <2>1. PICK i \in 1 .. Len(a) + Len(b) : x = (a \o b)[i]
    BY <1>1, <1>2 DEF Bytes
  <2>2. CASE i <= Len(a)
    BY <1>1, <2>1, <2>2 DEF Bytes
  <2>3. CASE ~ (i <= Len(a))
    <3>1. i - Len(a) \in 1 .. Len(b) /\ x = b[i - Len(a)]
      BY <1>1, <2>1, <2>3
    <3>2. QED
      BY <3>1 DEF Bytes
  <2>4. QED
    BY <2>2, <2>3
<1>3. ASSUME NEW x \in Bytes(a) PROVE x \in Bytes(a \o b)
  <2>1. PICK i \in 1 .. Len(a) : x = a[i]
    BY <1>3 DEF Bytes
  <2>2. i \in 1 .. Len(a \o b) /\ x = (a \o b)[i]
    BY <1>1, <2>1
  <2>3. QED
    BY <2>2 DEF Bytes
<1>4. ASSUME NEW x \in Bytes(b) PROVE x \in Bytes(a \o b)
  <2>1. PICK i \in 1 .. Len(b) : x = b[i]
    BY <1>4 DEF Bytes
  <2>2. Len(a) + i \in 1 .. Len(a \o b) /\ x = (a \o b)[Len(a) + i]
    BY <1>1, <2>1
  <2>3. QED
    BY <2>2 DEF Bytes
<1>5. QED
  BY <1>2, <1>3, <1>4

LEMMA DistinctConcat ==
  ASSUME NEW a \in Seq(Byte), NEW b \in Seq(Byte), Distinct(a), Distinct(b),
         Bytes(a) \cap Bytes(b) = {}
  PROVE  Distinct(a \o b)
<1>1. /\ Len(a) \in Nat /\ Len(b) \in Nat /\ Len(a \o b) = Len(a) + Len(b)
      /\ \A i \in 1 .. Len(a) + Len(b) :
           (a \o b)[i] = IF i <= Len(a) THEN a[i] ELSE b[i - Len(a)]
  BY ConcatProperties
<1> SUFFICES ASSUME NEW i \in 1 .. Len(a) + Len(b), NEW j \in 1 .. Len(a) + Len(b),
                    (a \o b)[i] = (a \o b)[j]
             PROVE  i = j
  BY <1>1 DEF Distinct
<1>2. \A k \in 1 .. Len(a), m \in 1 .. Len(b) : a[k] # b[m]
  BY Zenon DEF Bytes
<1>3. CASE i <= Len(a) /\ j <= Len(a)
  BY <1>1, <1>3 DEF Distinct
<1>4. CASE ~ (i <= Len(a)) /\ ~ (j <= Len(a))
  <2>1. i - Len(a) \in 1 .. Len(b) /\ j - Len(a) \in 1 .. Len(b)
    BY <1>1, <1>4
  <2>2. b[i - Len(a)] = b[j - Len(a)]
    BY <1>1, <1>4
  <2>3. i - Len(a) = j - Len(a)
    BY <2>1, <2>2 DEF Distinct
  <2>4. QED
    BY <1>1, <2>3
<1>5. CASE i <= Len(a) /\ ~ (j <= Len(a))
  BY <1>1, <1>2, <1>5
<1>6. CASE ~ (i <= Len(a)) /\ j <= Len(a)
  BY <1>1, <1>2, <1>6
<1>7. QED
  BY <1>3, <1>4, <1>5, <1>6

\* The bytes of a call are the next n of the writer.
LEMMA ChunkBytes ==
  ASSUME NEW w \in Writers, NEW k \in Nat, NEW n \in Nat, NEW chunk,
         chunk = [i \in 1 .. n |-> <<w, k + i>>]
  PROVE  /\ Distinct(chunk)
         /\ Bytes(chunk) = {<<w, m>> : m \in k + 1 .. k + n}
<1>1. Len(chunk) = n /\ \A i \in 1 .. n : chunk[i] = <<w, k + i>>
  OBVIOUS
<1>2. Distinct(chunk)
  BY <1>1 DEF Distinct
<1>3. ASSUME NEW m \in k + 1 .. k + n PROVE <<w, m>> \in Bytes(chunk)
  <2>1. m - k \in 1 .. n /\ chunk[m - k] = <<w, m>>
    BY <1>1
  <2>2. QED
    BY <1>1, <2>1, Zenon DEF Bytes
<1>4. ASSUME NEW x \in Bytes(chunk) PROVE x \in {<<w, m>> : m \in k + 1 .. k + n}
  <2>1. PICK i \in 1 .. n : x = <<w, k + i>>
    BY <1>1, <1>4 DEF Bytes
  <2>2. k + i \in k + 1 .. k + n
    OBVIOUS
  <2>3. QED
    BY <2>1, <2>2
<1>5. QED
  BY <1>2, <1>3, <1>4, Zenon

\* Steps that move no byte, and bring no writer to the end of a call.
OnceFrame ==
  /\ UNCHANGED <<mb, sent, accepted, refused, discarded>>
  /\ \A w \in Writers : pc'[w] \in {"idle", "signal"} => pc[w] \in {"idle", "signal"}

\* A step of w that moves the bytes of its MultiBuffer to one of the other places.
Moves(w) ==
  /\ mb' = [mb EXCEPT ![w] = << >>]
  /\ sent' = sent
  /\ \A v \in Writers : v # w => pc'[v] = pc[v]
  /\ \/ accepted' = accepted \o mb[w] /\ UNCHANGED <<refused, discarded>>
     \/ refused' = refused \cup Bytes(mb[w]) /\ UNCHANGED <<accepted, discarded>>
     \/ discarded' = discarded \cup Bytes(mb[w]) /\ UNCHANGED <<accepted, refused>>

LEMMA OnceFrameStep ==
  TypeOK /\ [Next]_vars =>
    \/ OnceFrame
    \/ \E w \in Writers : Moves(w) \/ \E n \in Chunks : WriteCall(w, n)
<1> SUFFICES ASSUME TypeOK, [Next]_vars
             PROVE  \/ OnceFrame
                    \/ \E w \in Writers : Moves(w) \/ \E n \in Chunks : WriteCall(w, n)
  OBVIOUS
<1> USE PipeAssumption DEF TypeOK, Goto, Procs, pipeVars, callVars, histVars
<1>1. ASSUME NEW w \in Writers, WriteAccept(w) \/ WriteDiscard(w) \/ WriteRefuse(w) \/ WriteDone(w)
      PROVE  Moves(w)
  BY <1>1 DEF Moves, WriteAccept, WriteDiscard, WriteRefuse, WriteDone
<1>2. ASSUME NEW w \in Writers, WriteBlock(w) \/ WriteSignal(w) \/ WriteWake(w)
      PROVE  OnceFrame
  BY <1>2 DEF OnceFrame, WriteBlock, WriteSignal, WriteWake
<1>3. ASSUME NEW r \in Readers,
             ReadCall(r) \/ ReaderStep(r) \/ ReadError(r) \/ ReadTimeout(r)
      PROVE  OnceFrame
  BY <1>3 DEF OnceFrame, ReaderStep, ReadCall, ReadTake, ReadFail, ReadBlock, ReadSignal,
              ReadWake, ReadDone, ReadError, ReadTimeout
<1>4. CASE Close \/ Interrupt \/ ReturnAnError \/ Recover \/ UNCHANGED vars
  BY <1>4 DEF OnceFrame, Close, Interrupt, ReturnAnError, Recover, vars
<1>5. QED
  BY <1>1, <1>2, <1>3, <1>4 DEF Next, WriterStep

LEMMA InitOnce == Init => OnceInv
<1> SUFFICES ASSUME Init PROVE OnceInv
  OBVIOUS
<1>1. Distinct(<< >>)
  BY DEF Distinct
<1>2. QED
  BY <1>1, EmptyBytes DEF Init, OnceInv, Placed

LEMMA MovesOnce ==
  ASSUME TypeOK, OnceInv, NEW w \in Writers, Moves(w)
  PROVE  OnceInv'
<1> DEFINE B == Bytes(mb[w])
<1>1. mb[w] \in Seq(Byte) /\ accepted \in Seq(Byte)
  BY DEF TypeOK
<1>2. mb'[w] = << >> /\ \A v \in Writers : v # w => mb'[v] = mb[v]
  BY DEF Moves, TypeOK
<1>3. Bytes(mb'[w]) = {} /\ \A v \in Writers : v # w => Bytes(mb'[v]) = Bytes(mb[v])
  BY <1>2, EmptyBytes
<1>4. Bytes(accepted \o mb[w]) = Bytes(accepted) \cup B
  BY <1>1, BytesConcat
<1>5. \A b \in B : b = <<w, b[2]>> /\ b[2] \in 1 .. MaxBytes
  <2>1. \A b \in B : b \in Byte /\ b[1] = w
    BY <1>1, BytesType DEF OnceInv
  <2>2. QED
    BY <2>1 DEF Byte
<1>6. B \cap Bytes(accepted) = {}
  BY <1>5 DEF OnceInv, Placed
<1>7. Distinct(accepted')
  <2>1. Distinct(accepted \o mb[w])
    BY <1>1, <1>6, DistinctConcat DEF OnceInv
  <2>2. QED
    BY <2>1, Zenon DEF Moves, OnceInv
<1>8. ASSUME NEW v \in Writers
      PROVE  (/\ pc[v] \in {"idle", "signal"} => mb[v] = << >>
              /\ Distinct(mb[v])
              /\ \A b \in Bytes(mb[v]) : b[1] = v)'
  <2>1. Distinct(<< >>)
    BY DEF Distinct
  <2>2. CASE v = w
    BY <1>2, <1>3, <2>1, <2>2
  <2>3. CASE v # w
    BY <1>2, <2>3 DEF OnceInv, Moves
  <2>4. QED
    BY <2>2, <2>3
<1>9. ASSUME NEW v \in Writers, NEW n \in 1 .. MaxBytes PROVE Placed(v, n)'
  <2> DEFINE b == <<v, n>>
  <2>1. Placed(v, n) /\ sent' = sent
    BY DEF OnceInv, Moves
  <2>2. \/ /\ Bytes(accepted') = Bytes(accepted) \cup B
           /\ refused' = refused /\ discarded' = discarded
        \/ /\ Bytes(accepted') = Bytes(accepted)
           /\ refused' = refused \cup B /\ discarded' = discarded
        \/ /\ Bytes(accepted') = Bytes(accepted)
           /\ refused' = refused /\ discarded' = discarded \cup B
    BY <1>4, Zenon DEF Moves
  <2>3. CASE v = w
    BY <1>3, <2>1, <2>2, <2>3 DEF Placed
  <2>4. CASE v # w
    <3>1. b \notin B
      BY <1>5, <2>4
    <3>2. QED
      BY <1>3, <2>1, <2>2, <2>4, <3>1 DEF Placed
  <2>5. QED
    BY <2>3, <2>4
<1>10. QED
  BY <1>7, <1>8, <1>9, Zenon DEF OnceInv

LEMMA CallOnce ==
  ASSUME TypeOK, OnceInv, NEW w \in Writers, NEW n \in Chunks, WriteCall(w, n)
  PROVE  OnceInv'
<1> DEFINE chunk == [i \in 1 .. n |-> <<w, sent[w] + i>>]
           B == {<<w, m>> : m \in sent[w] + 1 .. sent[w] + n}
<1>1. n \in Nat /\ sent[w] \in 0 .. MaxBytes /\ sent[w] + n <= MaxBytes /\ MaxBytes \in Nat
  BY PipeAssumption DEF TypeOK, WriteCall
<1>2. mb[w] = << >>
  BY DEF OnceInv, WriteCall
<1>3. mb'[w] = chunk /\ \A v \in Writers : v # w => mb'[v] = mb[v]
  BY DEF WriteCall, TypeOK
<1>4. Distinct(mb'[w]) /\ Bytes(mb'[w]) = B
  <2>1. sent[w] \in Nat
    BY <1>1
  <2>2. Distinct(chunk) /\ Bytes(chunk) = B
    BY <1>1, <2>1, ChunkBytes, Zenon
  <2>3. QED
    BY <1>3, <2>2
<1>5. sent'[w] = sent[w] + n /\ \A v \in Writers : v # w => sent'[v] = sent[v]
  BY <1>1 DEF WriteCall, TypeOK
<1>6. UNCHANGED <<accepted, refused, discarded>>
  BY DEF WriteCall, histVars
<1>7. (pc[w] \in {"idle", "signal"})' => n = 0
  BY DEF WriteCall, Goto, TypeOK, Procs
<1>8. \A v \in Writers : v # w => pc'[v] = pc[v]
  BY DEF WriteCall, Goto, TypeOK, Procs
<1>9. ASSUME NEW v \in Writers
      PROVE  (/\ pc[v] \in {"idle", "signal"} => mb[v] = << >>
              /\ Distinct(mb[v])
              /\ \A b \in Bytes(mb[v]) : b[1] = v)'
  <2>1. CASE v = w
    <3>1. n = 0 => chunk = << >>
      OBVIOUS
    <3>2. \A b \in B : b[1] = w
      OBVIOUS
    <3>3. QED
      BY <1>3, <1>4, <1>7, <2>1, <3>1, <3>2
  <2>2. CASE v # w
    BY <1>3, <1>8, <2>2 DEF OnceInv
  <2>3. QED
    BY <2>1, <2>2
<1>10. ASSUME NEW v \in Writers, NEW k \in 1 .. MaxBytes PROVE Placed(v, k)'
  <2>1. Placed(v, k)
    BY DEF OnceInv
  <2>2. CASE v = w
    <3>1. <<w, k>> \in B <=> k \in sent[w] + 1 .. sent[w] + n
      OBVIOUS
    <3>2. <<w, k>> \notin Bytes(mb[w])
      BY <1>2, EmptyBytes
    <3>3. k <= sent'[w] <=> k <= sent[w] \/ <<w, k>> \in B
      BY <1>1, <1>5, <3>1
    <3>4. <<w, k>> \in B => ~ (k <= sent[w])
      BY <1>1, <3>1
    <3>5. QED
      BY <1>4, <1>6, <2>1, <2>2, <3>2, <3>3, <3>4 DEF Placed
  <2>3. CASE v # w
    BY <1>3, <1>5, <1>6, <2>1, <2>3 DEF Placed
  <2>4. QED
    BY <2>2, <2>3
<1>11. QED
  BY <1>6, <1>9, <1>10 DEF OnceInv

LEMMA OnceStep == TypeOK /\ OnceInv /\ [Next]_vars => OnceInv'
<1> SUFFICES ASSUME TypeOK, OnceInv, [Next]_vars PROVE OnceInv'
  OBVIOUS
<1>1. CASE OnceFrame
  <2>1. Distinct(accepted')
    BY <1>1 DEF OnceInv, OnceFrame
  <2>2. ASSUME NEW w \in Writers
        PROVE  (/\ pc[w] \in {"idle", "signal"} => mb[w] = << >>
                /\ Distinct(mb[w])
                /\ \A b \in Bytes(mb[w]) : b[1] = w)'
    BY <1>1 DEF OnceInv, OnceFrame
  <2>3. ASSUME NEW w \in Writers, NEW n \in 1 .. MaxBytes PROVE Placed(w, n)'
    BY <1>1 DEF OnceInv, OnceFrame, Placed
  <2>4. QED
    BY <2>1, <2>2, <2>3 DEF OnceInv
<1>2. QED
  BY <1>1, OnceFrameStep, MovesOnce, CallOnce

\* Placed says of four sets what ExactlyOnce says by counting.
LEMMA OnceCounts == OnceInv => ExactlyOnce
<1> SUFFICES ASSUME OnceInv PROVE ExactlyOnce
  OBVIOUS
<1>1. ASSUME NEW w \in Writers, NEW n \in 1 .. MaxBytes
      PROVE  Cardinality({k \in 1 .. 4 :
               <<w, n>> \in <<Bytes(mb[w]), Bytes(accepted), refused, discarded>>[k]})
             = IF n <= sent[w] THEN 1 ELSE 0
  <2> DEFINE b == <<w, n>>
             In(k) == b \in <<Bytes(mb[w]), Bytes(accepted), refused, discarded>>[k]
             places == {k \in 1 .. 4 : In(k)}
  <2>1. Placed(w, n)
    BY DEF OnceInv
  <2>2. /\ In(1) <=> b \in Bytes(mb[w])
        /\ In(2) <=> b \in Bytes(accepted)
        /\ In(3) <=> b \in refused
        /\ In(4) <=> b \in discarded
    OBVIOUS
  <2>3. /\ n <= sent[w] <=> In(1) \/ In(2) \/ In(3) \/ In(4)
        /\ ~ (In(1) /\ In(2)) /\ ~ (In(1) /\ In(3)) /\ ~ (In(1) /\ In(4))
        /\ ~ (In(2) /\ In(3)) /\ ~ (In(2) /\ In(4)) /\ ~ (In(3) /\ In(4))
    BY <2>1, <2>2 DEF Placed
  <2> HIDE DEF In
  <2>4. \A k \in 1 .. 4 : k = 1 \/ k = 2 \/ k = 3 \/ k = 4
    OBVIOUS
  <2>5. CASE ~ (n <= sent[w])
    <3>1. places = {}
      BY <2>3, <2>4, <2>5
    <3>2. QED
      BY <2>5, <3>1, FS_EmptySet DEF In
  <2>6. CASE n <= sent[w]
    <3>1. PICK k \in 1 .. 4 : In(k)
      BY <2>3, <2>6
    <3>2. \A j \in 1 .. 4 : In(j) => j = k
      BY <2>3, <2>4, <3>1
    <3>3. places = {k}
      BY <3>1, <3>2
    <3>4. Cardinality(places) = 1
      BY <3>3, FS_Singleton
    <3>5. QED
      BY <2>6, <3>4 DEF In
  <2>7. QED
    BY <2>5, <2>6
<1>2. QED
  BY <1>1 DEF OnceInv, ExactlyOnce, Distinct

\* Every byte handed to WriteMultiBuffer is with its writer, accepted once, refused or
\* discarded, whatever Close, Interrupt and the other writers do meanwhile.
THEOREM OnceCorrect == Spec => []ExactlyOnce
<1>1. Spec => []OnceInv
  BY InitOnce, OnceStep, TypeCorrect, PTL DEF Spec
<1>2. QED
  BY <1>1, OnceCounts, PTL
=============================================================================
