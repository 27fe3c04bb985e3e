----------------------------- MODULE TaskProofs ------------------------------
(***************************************************************************)
(* Proofs about the concurrency helpers that MCTask runs: Periodic for any *)
(* number of goroutines, timers, failed executions and calls of Close, and *)
(* CallbackSerializer for any callbacks and any number of them scheduled.  *)
(***************************************************************************)
EXTENDS Periodic, CallbackSerializer, SequenceTheorems, FiniteSetTheorems, TLAPS

USE SMTT(30), ZenonT(30)

-----------------------------------------------------------------------------
(* Periodic *)

-----------------------------------------------------------------------------
(* The inductive invariant of OneChain: a task that nobody has closed and that *)
(* says it does not run has no chain left, so that Start begins the only one.  *)

AtMostOne(S) == \A x, y \in S : x = y

ChainInv ==
  /\ failures \in Nat /\ closeCalls \in Nat
  /\ failures = 0 => \A p \in Threads : pc[p] \notin {"failed", "failed again"}
  /\ ~ restart /\ failures = 0 =>
       AtMostOne(Chains) /\ (~ running /\ closeCalls = 0 => Chains = {})

PeriodicIInv == PeriodicTypeOK /\ RunningIsAlive /\ ChainInv

LEMMA PeriodicInitIInv == PeriodicInit => PeriodicIInv
<1> SUFFICES ASSUME PeriodicInit PROVE PeriodicIInv
  OBVIOUS
<1>1. PeriodicTypeOK
  <2>1. {restart, running} \subseteq BOOLEAN
    BY Zenon DEF PeriodicInit
  <2>2. QED
    BY <2>1 DEF PeriodicInit, PeriodicTypeOK
<1>2. Chains = {}
  BY DEF PeriodicInit, Chains
<1>3. RunningIsAlive /\ ChainInv
  BY <1>2 DEF PeriodicInit, RunningIsAlive, ChainInv, AtMostOne
<1>4. QED
  BY <1>1, <1>3 DEF PeriodicIInv

LEMMA NextTypeOK == PeriodicTypeOK /\ [PeriodicNext]_periodicVars => PeriodicTypeOK'
<1> SUFFICES ASSUME PeriodicTypeOK, [PeriodicNext]_periodicVars PROVE PeriodicTypeOK'
  OBVIOUS
<1>1. {restart', running'} \subseteq BOOLEAN
  BY DEF PeriodicTypeOK, PeriodicNext, periodicVars, taskVars, Work, Start, Fire, hasClosed, ExecuteFails,
         ExecuteSucceeds, StopFailed, Arm, Close
<1>2. armed' \subseteq Timers /\ timer' \in Timers \cup {None}
  BY DEF PeriodicTypeOK, PeriodicNext, periodicVars, taskVars, Work, Start, Fire, hasClosed, ExecuteFails,
         ExecuteSucceeds, StopFailed, Arm, Close
<1>3. /\ pc' \in [Threads -> {"idle", "check", "execute", "arm", "failed", "failed again"}]
      /\ role' \in [Threads -> {"start", "timer"}]
  BY DEF PeriodicTypeOK, PeriodicNext, periodicVars, taskVars, Work, Start, Fire, hasClosed, ExecuteFails,
         ExecuteSucceeds, StopFailed, Arm, Close, Goto
<1>4. QED
  BY <1>1, <1>2, <1>3 DEF PeriodicTypeOK

LEMMA AliveStep == PeriodicTypeOK /\ RunningIsAlive /\ [PeriodicNext]_periodicVars => RunningIsAlive'
<1> SUFFICES ASSUME PeriodicTypeOK, RunningIsAlive, [PeriodicNext]_periodicVars PROVE RunningIsAlive'
  OBVIOUS
<1> USE DEF PeriodicTypeOK, RunningIsAlive, Chains, Goto
<1>1. ASSUME NEW p \in Threads, Start(p) PROVE RunningIsAlive'
  BY <1>1 DEF Start
<1>2. ASSUME NEW p \in Threads, Fire(p) PROVE RunningIsAlive'
  BY <1>2 DEF Fire
<1>3. ASSUME NEW p \in Threads, hasClosed(p) PROVE RunningIsAlive'
  BY <1>3 DEF hasClosed
<1>4. ASSUME NEW p \in Threads, ExecuteFails(p) PROVE RunningIsAlive'
  BY <1>4 DEF ExecuteFails
<1>5. ASSUME NEW p \in Threads, ExecuteSucceeds(p) PROVE RunningIsAlive'
  BY <1>5 DEF ExecuteSucceeds
<1>6. ASSUME NEW p \in Threads, StopFailed(p) PROVE RunningIsAlive'
  BY <1>6 DEF StopFailed
<1>7. ASSUME NEW p \in Threads, Arm(p) PROVE RunningIsAlive'
  BY <1>7 DEF Arm
<1>8. CASE Close
  BY <1>8 DEF Close
<1>9. CASE UNCHANGED periodicVars
  BY <1>9 DEF periodicVars, taskVars
<1>10. QED
  BY <1>1, <1>2, <1>3, <1>4, <1>5, <1>6, <1>7, <1>8, <1>9 DEF PeriodicNext, Work

\* What a step does to the chains.  Threads and Timers name things of different
\* kinds, goroutines and timers.
LEMMA ChainMoves ==
  ASSUME Threads \cap Timers = {}, PeriodicTypeOK, NEW p \in Threads
  PROVE  /\ Start(p) => Chains' = Chains \cup {p}
         /\ Fire(p) => \E t \in Chains : Chains' = (Chains \ {t}) \cup {p}
         /\ hasClosed(p) => Chains' \subseteq Chains
         /\ ExecuteSucceeds(p) => Chains' = Chains
         /\ Arm(p) => p \in Chains /\ \E t : Chains' \subseteq (Chains \ {p}) \cup {t}
<1> USE DEF PeriodicTypeOK, Chains, Goto
<1>1. Start(p) => Chains' = Chains \cup {p}
  BY DEF Start
<1>2. ASSUME Fire(p) PROVE \E t \in Chains : Chains' = (Chains \ {t}) \cup {p}
  <2>1. PICK t \in armed : armed' = armed \ {t}
    BY <1>2 DEF Fire
  <2>2. t \in Chains /\ t \notin Threads
    BY <2>1
  <2>3. Chains' = (Chains \ {t}) \cup {p}
    BY <1>2, <2>1, <2>2 DEF Fire
  <2>4. QED
    BY <2>2, <2>3
<1>3. hasClosed(p) => Chains' \subseteq Chains
  BY DEF hasClosed
<1>4. ExecuteSucceeds(p) => Chains' = Chains
  BY DEF ExecuteSucceeds
<1>5. ASSUME Arm(p) PROVE p \in Chains /\ \E t : Chains' \subseteq (Chains \ {p}) \cup {t}
  <2>1. p \in Chains /\ p \notin armed
    BY <1>5 DEF Arm
  <2>2. PICK t : armed' \subseteq armed \cup {t}
    BY <1>5 DEF Arm
  <2>3. Chains' \subseteq (Chains \ {p}) \cup {t}
    BY <1>5, <2>1, <2>2 DEF Arm
  <2>4. QED
    BY <2>1, <2>3
<1>6. QED
  BY <1>1, <1>2, <1>3, <1>4, <1>5

LEMMA Successor == \A n \in Nat : n + 1 \in Nat /\ n + 1 # 0
OBVIOUS

LEMMA ChainStep ==
  ASSUME Threads \cap Timers = {}, PeriodicTypeOK, ChainInv, [PeriodicNext]_periodicVars
  PROVE  ChainInv'
<1> USE DEF ChainInv, AtMostOne
<1> DEFINE NoneFailed == failures = 0 =>
             \A q \in Threads : pc[q] \notin {"failed", "failed again"}
<1>1. ASSUME NEW p \in Threads, Start(p) PROVE ChainInv'
  <2>1. NoneFailed'
    BY <1>1 DEF Start, Goto, PeriodicTypeOK
  <2>2. Chains' = Chains \cup {p}
    BY <1>1, ChainMoves
  <2>3. QED
    BY <1>1, <2>1, <2>2 DEF Start
<1>2. ASSUME NEW p \in Threads, Fire(p) PROVE ChainInv'
  <2>1. NoneFailed'
    BY <1>2 DEF Fire, Goto, PeriodicTypeOK
  <2>2. PICK t \in Chains : Chains' = (Chains \ {t}) \cup {p}
    BY <1>2, ChainMoves
  <2>3. QED
    BY <1>2, <2>1, <2>2 DEF Fire
<1>3. ASSUME NEW p \in Threads, hasClosed(p) PROVE ChainInv'
  <2>1. NoneFailed'
    BY <1>3 DEF hasClosed, Goto, PeriodicTypeOK
  <2>2. Chains' \subseteq Chains
    BY <1>3, ChainMoves
  <2>3. QED
    BY <1>3, <2>1, <2>2 DEF hasClosed
<1>4. ASSUME NEW p \in Threads, ExecuteFails(p) PROVE ChainInv'
  <2>1. failures' = failures + 1 /\ closeCalls' = closeCalls
    BY <1>4 DEF ExecuteFails
  <2>2. failures' \in Nat /\ failures' # 0 /\ closeCalls' \in Nat
    BY <2>1, Successor, Zenon
  <2>3. QED
    BY <2>2
<1>5. ASSUME NEW p \in Threads, ExecuteSucceeds(p) PROVE ChainInv'
  <2>1. NoneFailed'
    BY <1>5 DEF ExecuteSucceeds, Goto, PeriodicTypeOK
  <2>2. Chains' = Chains
    BY <1>5, ChainMoves
  <2>3. QED
    BY <1>5, <2>1, <2>2 DEF ExecuteSucceeds
<1>6. ASSUME NEW p \in Threads, StopFailed(p) PROVE ChainInv'
  BY <1>6 DEF StopFailed
<1>7. ASSUME NEW p \in Threads, Arm(p) PROVE ChainInv'
  <2>1. NoneFailed'
    BY <1>7 DEF Arm, Goto, PeriodicTypeOK
  <2>2. p \in Chains
    BY <1>7, ChainMoves
  <2>3. PICK t : Chains' \subseteq (Chains \ {p}) \cup {t}
    BY <1>7, ChainMoves
  <2>4. QED
    BY <1>7, <2>1, <2>2, <2>3 DEF Arm
<1>8. CASE Close
  <2>1. Chains' \subseteq Chains
    BY <1>8 DEF Close, Chains
  <2>2. /\ closeCalls' = closeCalls + 1 /\ failures' = failures
        /\ restart' = restart /\ pc' = pc
    BY <1>8 DEF Close
  <2>3. closeCalls' \in Nat /\ closeCalls' # 0
    BY <2>2, Successor, Zenon
  <2>4. QED
    BY <2>1, <2>2, <2>3
<1>9. CASE UNCHANGED periodicVars
  BY <1>9 DEF periodicVars, taskVars, Chains
<1>10. QED
  BY <1>1, <1>2, <1>3, <1>4, <1>5, <1>6, <1>7, <1>8, <1>9 DEF PeriodicNext, Work

\* A set with no two elements has at most one.
LEMMA ChainCounts == ChainInv => SingleChain
<1> SUFFICES ASSUME ChainInv, ~ restart, failures = 0 PROVE Cardinality(Chains) <= 1
  BY DEF SingleChain
<1>1. AtMostOne(Chains)
  BY DEF ChainInv
<1>2. CASE Chains = {}
  BY <1>2, FS_EmptySet
<1>3. CASE Chains # {}
  <2>1. PICK x : Chains = {x}
    BY <1>1, <1>3 DEF AtMostOne
  <2>2. Cardinality(Chains) = 1
    BY <2>1, FS_Singleton
  <2>3. QED
    BY <2>2
<1>4. QED
  BY <1>2, <1>3

\* A periodic task that says it runs is alive, and without restarts and failures it
\* runs in a single chain of executions and timers.
THEOREM ChainCorrect ==
  ASSUME Threads \cap Timers = {}
  PROVE  PeriodicSpec => []OneChain
<1>1. PeriodicIInv /\ [PeriodicNext]_periodicVars => PeriodicIInv'
  BY NextTypeOK, AliveStep, ChainStep DEF PeriodicIInv
<1>2. PeriodicIInv => OneChain
  BY ChainCounts DEF PeriodicIInv, OneChain
<1>3. QED
  BY <1>1, <1>2, PeriodicInitIInv, PTL DEF PeriodicSpec

-----------------------------------------------------------------------------
(* CallbackSerializer *)

-----------------------------------------------------------------------------
(* Sequences: how the three parts of the buffer's contents move past each other. *)

LEMMA AppendLast ==
  ASSUME NEW a \in Seq(Callbacks), NEW b \in Seq(Callbacks), NEW x \in Callbacks
  PROVE  Append(a \o b, x) = a \o Append(b, x)
OBVIOUS

LEMMA MoveHead ==
  ASSUME NEW a \in Seq(Callbacks), NEW b \in Seq(Callbacks), b # << >>
  PROVE  a \o b = (a \o <<Head(b)>>) \o Tail(b)
OBVIOUS

LEMMA OneMore ==
  ASSUME NEW a \in Seq(Callbacks), NEW b \in Seq(Callbacks), Len(b) <= 1, b # << >>
  PROVE  Len(a \o b) = Len(a) + 1 /\ \A i \in 1 .. Len(a) : (a \o b)[i] = a[i]
<1>1. \A n \in Nat : n # 0 /\ n <= 1 => n = 1
  OBVIOUS
<1>2. Len(b) \in Nat /\ Len(b) # 0
  BY EmptySeq
<1>3. Len(b) = 1
  BY <1>1, <1>2, Zenon
<1>4. QED
  BY <1>3, ConcatProperties

LEMMA PrefixOfConcat ==
  ASSUME NEW a \in Seq(Callbacks), NEW b \in Seq(Callbacks), NEW i \in 1 .. Len(a)
  PROVE  (a \o b)[i] = a[i] /\ Len(a) <= Len(a \o b)
OBVIOUS

-----------------------------------------------------------------------------
(* The buffer: each of its operations keeps its type and Fifo. *)

LEMMA PutSound ==
  ASSUME Buffer!TypeOK, Buffer!Fifo, NEW f \in Callbacks, Buffer!Put(f)
  PROVE  Buffer!TypeOK' /\ Buffer!Fifo'
<1> USE DEF Buffer!TypeOK, Buffer!Fifo, Buffer!Put
<1>1. CASE backlog = << >> /\ c = << >>
  <2>1. put = got
    BY <1>1, ConcatEmptySeq
  <2>2. c' = <<f>> /\ backlog' = << >> /\ got' = got /\ put' = Append(got, f)
    BY <1>1, <2>1
  <2>3. got' \o c' \o backlog' = Append(got, f)
    BY <2>2
  <2>4. c' \in Seq(Callbacks) /\ Len(c') <= 1
    BY <2>2
  <2>5. QED
    BY <1>1, <2>2, <2>3, <2>4
<1>2. CASE ~ (backlog = << >> /\ c = << >>)
  <2>1. c' = c /\ backlog' = Append(backlog, f) /\ got' = got /\ put' = Append(put, f)
    BY <1>2
  <2>2. Append((got \o c) \o backlog, f) = (got \o c) \o Append(backlog, f)
    <3>1. got \o c \in Seq(Callbacks) /\ backlog \in Seq(Callbacks)
      OBVIOUS
    <3>2. QED
      BY <3>1, AppendLast, Zenon
  <2>3. QED
    BY <1>2, <2>1, <2>2
<1>3. QED
  BY <1>1, <1>2, Zenon

LEMMA ReceiveSound ==
  ASSUME Buffer!TypeOK, Buffer!Fifo, Buffer!Receive(Run)
  PROVE  Buffer!TypeOK' /\ Buffer!Fifo'
<1> USE DEF Buffer!TypeOK, Buffer!Fifo, Buffer!Receive
<1>1. Buffer!TypeOK'
  OBVIOUS
<1>2. got' \o c' = got \o c
  BY ConcatEmptySeq
<1>3. QED
  BY <1>1, <1>2

LEMMA LoadSound ==
  ASSUME Buffer!TypeOK, Buffer!Fifo, Buffer!Load(Run)
  PROVE  Buffer!TypeOK' /\ Buffer!Fifo'
<1> USE DEF Buffer!TypeOK, Buffer!Fifo, Buffer!Load
<1>1. closes' \in Nat
  <2>1. closes' \in {closes, closes + 1}
    OBVIOUS
  <2>2. QED
    BY <2>1
<1>2. CASE backlog # << >> /\ c = << >>
  <2>1. put = got \o backlog
    BY <1>2, ConcatEmptySeq
  <2>2. got' \o c' \o backlog' = (got \o <<Head(backlog)>>) \o Tail(backlog)
    BY <1>2, Zenon
  <2>3. c' \in Seq(Callbacks) /\ Len(c') <= 1 /\ backlog' \in Seq(Callbacks)
    <3>1. Head(backlog) \in Callbacks /\ Tail(backlog) \in Seq(Callbacks)
      BY <1>2
    <3>2. c' = <<Head(backlog)>> /\ backlog' = Tail(backlog)
      BY <1>2
    <3>3. QED
      BY <3>1, <3>2
  <2>4. QED
    BY <1>1, <1>2, <2>1, <2>2, <2>3, MoveHead, Zenon
<1>3. CASE ~ (backlog # << >> /\ c = << >>)
  BY <1>1, <1>3, Zenon
<1>4. QED
  BY <1>2, <1>3, Zenon

LEMMA CloseSound ==
  ASSUME Buffer!TypeOK, Buffer!Fifo, Buffer!Close
  PROVE  Buffer!TypeOK' /\ Buffer!Fifo'
<1> USE DEF Buffer!TypeOK, Buffer!Fifo, Buffer!Close
<1>1. closed' \in BOOLEAN /\ closing' \in BOOLEAN
  BY Zenon
<1>2. closes' \in Nat
  OBVIOUS
<1>3. QED
  BY <1>1, <1>2

-----------------------------------------------------------------------------
(* The inductive invariant.  ClosedOnce rests on run being the only consumer: *)
(* the Load that closes the channel is the last one, since Load leaves closed *)
(* as it is and would close it again.                                         *)

Received == {"load", "call", "rangeload", "rangecall"}
Draining == {"range", "rangeload", "rangecall", "done"}

\* run owes the buffer a Load between a receive and its Load, and it is run that
\* sets closing.
RunInv ==
  /\ owes = IF at \in {"load", "rangeload"} THEN {Run} ELSE {}
  /\ closing <=> at \in Draining

\* run has executed what it received, but for the callback it is about to call.
ExecutedInv ==
  /\ Len(got) = Len(executed) + (IF at \in Received THEN 1 ELSE 0)
  /\ \A i \in 1 .. Len(executed) : executed[i] = got[i]

\* A channel that Load closed is empty, and so is the one run drains before Load.
CloseInv ==
  /\ closed => closes = 1
  /\ closes = 1 /\ ~ closed => c = << >> /\ owes = {}
  /\ at = "rangeload" => c = << >>
  /\ at = "done" => c = << >> /\ closes = 1

SerializerIInv == BufferSound /\ Fates /\ RunInv /\ ExecutedInv /\ CloseInv

LEMMA SerializerInitIInv == SerializerInit => SerializerIInv
<1> SUFFICES ASSUME SerializerInit PROVE SerializerIInv
  OBVIOUS
<1> USE DEF SerializerInit, Buffer!Init
<1>1. closed \in BOOLEAN /\ closing \in BOOLEAN /\ cancelled \in BOOLEAN
  BY Zenon
<1>2. SerializerTypeOK
  BY <1>1 DEF SerializerTypeOK, Buffer!TypeOK
<1>3. Buffer!Fifo
  BY DEF Buffer!Fifo
<1>4. BufferSound
  BY <1>2, <1>3 DEF BufferSound, Buffer!NoStrandedBacklog, Buffer!CloseIsComing,
                    Buffer!ClosedOnce, Buffer!NothingAfterClose
<1>5. Fates /\ RunInv /\ ExecutedInv /\ CloseInv
  BY DEF Fates, RunInv, ExecutedInv, CloseInv, Received, Draining
<1>6. QED
  BY <1>4, <1>5 DEF SerializerIInv

\* TrySchedule and ScheduleOr, when Put accepts the callback.
LEMMA AcceptStep ==
  ASSUME SerializerIInv, NEW f \in Callbacks, f \notin Scheduled, Buffer!Put(f),
         UNCHANGED <<cancelled, at, executed, failed, dropped>>
  PROVE  SerializerIInv'
<1> USE DEF SerializerIInv, BufferSound, SerializerTypeOK
<1>1. Buffer!TypeOK' /\ Buffer!Fifo'
  BY PutSound
<1>2. SerializerTypeOK'
  BY <1>1
<1>3. /\ ~ closing /\ ~ closing' /\ closes' = closes /\ closed' = closed /\ got' = got
      /\ owes' = owes /\ put' = Append(put, f)
  BY DEF Buffer!Put
<1>4. closes = 0
  BY <1>3 DEF Buffer!NothingAfterClose, Buffer!TypeOK
<1>5. BufferSound'
  <2>1. Buffer!NoStrandedBacklog'
    BY DEF Buffer!Put, Buffer!NoStrandedBacklog
  <2>2. QED
    BY <1>1, <1>2, <1>3, <1>4, <2>1 DEF Buffer!CloseIsComing, Buffer!ClosedOnce,
                                        Buffer!NothingAfterClose
<1>6. RunInv' /\ ExecutedInv' /\ CloseInv'
  BY <1>3, <1>4 DEF RunInv, ExecutedInv, CloseInv, Draining
<1>7. Fates'
  <2>1. put \in Seq(Callbacks)
    BY DEF Buffer!TypeOK
  <2>2. /\ Len(put') = Len(put) + 1
        /\ \A i \in 1 .. Len(put) : put'[i] = put[i] /\ put[i] # f
        /\ put'[Len(put) + 1] = f
    BY <1>3, <2>1 DEF Scheduled
  <2>3. f \notin failed /\ f \notin dropped
    BY DEF Scheduled
  <2>4. QED
    BY <2>1, <2>2, <2>3 DEF Fates
<1>8. QED
  BY <1>5, <1>6, <1>7

\* TrySchedule and ScheduleOr, when Put fails.
LEMMA RefuseStep ==
  ASSUME SerializerIInv, NEW f \in Callbacks, f \notin Scheduled,
         UNCHANGED <<bufVars, cancelled, at, executed>>,
         \/ failed' = failed \cup {f} /\ dropped' = dropped
         \/ dropped' = dropped \cup {f} /\ failed' = failed
  PROVE  SerializerIInv'
<1> USE DEF SerializerIInv, bufVars
<1>1. BufferSound' /\ RunInv' /\ ExecutedInv' /\ CloseInv'
  BY DEF BufferSound, SerializerTypeOK, Buffer!TypeOK, Buffer!Fifo, Buffer!NoStrandedBacklog,
         Buffer!CloseIsComing, Buffer!ClosedOnce, Buffer!NothingAfterClose, RunInv,
         ExecutedInv, CloseInv
<1>2. Fates'
  BY DEF Fates, Scheduled
<1>3. QED
  BY <1>1, <1>2

\* The steps of run that leave the buffer alone.
LEMMA LocalStep ==
  ASSUME SerializerIInv, LoopTest \/ SelectDone \/ Cancel \/ Call \/ RangeEnd
  PROVE  SerializerIInv'
<1> USE DEF SerializerIInv
<1>1. UNCHANGED <<bufVars, failed, dropped>>
  BY DEF LoopTest, SelectDone, Cancel, Call, RangeEnd
<1>2. Buffer!TypeOK' /\ Buffer!Fifo' /\ Fates'
  BY <1>1 DEF bufVars, BufferSound, SerializerTypeOK, Buffer!TypeOK, Buffer!Fifo, Fates
<1>3. /\ Buffer!NoStrandedBacklog' /\ Buffer!CloseIsComing'
      /\ Buffer!ClosedOnce' /\ Buffer!NothingAfterClose'
  BY <1>1 DEF bufVars, BufferSound, Buffer!NoStrandedBacklog, Buffer!CloseIsComing,
              Buffer!ClosedOnce, Buffer!NothingAfterClose
<1>4. cancelled' \in BOOLEAN
  BY Zenon DEF LoopTest, SelectDone, Cancel, Call, RangeEnd, BufferSound, SerializerTypeOK
<1>5. ASSUME LoopTest \/ SelectDone \/ Cancel PROVE SerializerIInv'
  <2>1. SerializerTypeOK'
    BY <1>1, <1>2, <1>4, <1>5 DEF BufferSound, SerializerTypeOK, LoopTest, SelectDone, Cancel
  <2>2. RunInv' /\ ExecutedInv' /\ CloseInv'
    BY <1>1, <1>5 DEF bufVars, RunInv, ExecutedInv, CloseInv, Received, Draining, LoopTest,
                      SelectDone, Cancel
  <2>3. QED
    BY <1>2, <1>3, <2>1, <2>2 DEF BufferSound
<1>6. ASSUME Call PROVE SerializerIInv'
  <2>1. /\ got \in Seq(Callbacks) /\ executed \in Seq(Callbacks)
        /\ Len(got) = Len(executed) + 1 /\ got[Len(got)] \in Callbacks
    BY <1>6 DEF BufferSound, SerializerTypeOK, Buffer!TypeOK, ExecutedInv, Call, Received
  <2>2. /\ executed' \in Seq(Callbacks) /\ Len(executed') = Len(got)
        /\ \A i \in 1 .. Len(executed') : executed'[i] = got[i]
    BY <1>6, <2>1 DEF Call, ExecutedInv
  <2>3. SerializerTypeOK'
    BY <1>1, <1>2, <1>4, <1>6, <2>2 DEF BufferSound, SerializerTypeOK, Call
  <2>4. ExecutedInv'
    BY <1>1, <1>6, <2>1, <2>2 DEF bufVars, ExecutedInv, Received, Call
  <2>5. RunInv' /\ CloseInv'
    BY <1>1, <1>6 DEF bufVars, RunInv, CloseInv, Draining, Call
  <2>6. QED
    BY <1>2, <1>3, <2>3, <2>4, <2>5 DEF BufferSound
<1>7. ASSUME RangeEnd PROVE SerializerIInv'
  <2>1. SerializerTypeOK'
    BY <1>1, <1>2, <1>4, <1>7 DEF BufferSound, SerializerTypeOK, RangeEnd
  <2>2. closes = 1
    BY <1>7 DEF RangeEnd, BufferSound, SerializerTypeOK, Buffer!TypeOK, Buffer!ClosedOnce
  <2>3. RunInv' /\ ExecutedInv' /\ CloseInv'
    BY <1>1, <1>7, <2>2 DEF bufVars, RunInv, ExecutedInv, CloseInv, Received, Draining, RangeEnd
  <2>4. QED
    BY <1>2, <1>3, <2>1, <2>3 DEF BufferSound
<1>8. QED
  BY <1>5, <1>6, <1>7

\* The receives of the select and of the range loop.
LEMMA ReceiveStep ==
  ASSUME SerializerIInv, SelectCallback \/ RangeCallback
  PROVE  SerializerIInv'
<1> USE DEF SerializerIInv, BufferSound, SerializerTypeOK
<1>1. /\ at \in {"select", "range"} /\ at' = IF at = "select" THEN "load" ELSE "rangeload"
      /\ Buffer!Receive(Run) /\ UNCHANGED <<cancelled, executed, failed, dropped>>
  BY DEF SelectCallback, RangeCallback
<1>2. Buffer!TypeOK' /\ Buffer!Fifo'
  BY <1>1, ReceiveSound
<1>3. SerializerTypeOK'
  BY <1>1, <1>2
<1>4. c # << >> /\ c' = << >> /\ got' = got \o c /\ owes' = owes \cup {Run}
      /\ UNCHANGED <<closes, closed, closing, backlog, put>>
  BY <1>1 DEF Buffer!Receive
<1>5. BufferSound'
  BY <1>2, <1>3, <1>4 DEF Buffer!NoStrandedBacklog, Buffer!CloseIsComing,
                          Buffer!ClosedOnce, Buffer!NothingAfterClose
<1>6. ExecutedInv'
  <2>1. got \in Seq(Callbacks) /\ c \in Seq(Callbacks) /\ Len(c) <= 1
    BY DEF Buffer!TypeOK
  <2>2. Len(got') = Len(got) + 1 /\ \A i \in 1 .. Len(got) : got'[i] = got[i]
    BY <1>4, <2>1, OneMore, Zenon
  <2>3. Len(got) = Len(executed)
    BY <1>1 DEF ExecutedInv, Received
  <2>4. QED
    BY <1>1, <2>2, <2>3 DEF ExecutedInv, Received
<1>7. RunInv'
  BY <1>1, <1>4 DEF RunInv, Draining
<1>8. CloseInv'
  <2>1. closes = 1 => closed
    BY <1>4 DEF CloseInv
  <2>2. QED
    BY <1>1, <1>4, <2>1 DEF CloseInv
<1>9. Fates'
  BY <1>1, <1>4 DEF Fates
<1>10. QED
  BY <1>5, <1>6, <1>7, <1>8, <1>9

\* Load, after either receive: it may be the one that closes the channel.
LEMMA LoadStep ==
  ASSUME SerializerIInv, LoadNext
  PROVE  SerializerIInv'
<1> USE DEF SerializerIInv, BufferSound, SerializerTypeOK
<1>1. /\ at \in {"load", "rangeload"} /\ at' = IF at = "load" THEN "call" ELSE "rangecall"
      /\ Buffer!Load(Run) /\ UNCHANGED <<cancelled, executed, failed, dropped>>
  BY DEF LoadNext
<1>2. Buffer!TypeOK' /\ Buffer!Fifo'
  BY <1>1, LoadSound
<1>3. SerializerTypeOK'
  BY <1>1, <1>2
<1>4. owes = {Run} /\ owes' = {} /\ (closing <=> at = "rangeload")
      /\ UNCHANGED <<closed, closing, put, got>>
  BY <1>1 DEF Buffer!Load, RunInv, Draining
<1>5. closes # 0 => closes = 1 /\ closed /\ closing /\ backlog = << >>
  BY <1>4 DEF CloseInv, Buffer!TypeOK, Buffer!ClosedOnce, Buffer!NothingAfterClose
<1>6. CASE backlog # << >>
  <2>1. closes = 0 /\ closes' = 0 /\ c' # << >>
    <3>1. closes = 0 /\ closes' = closes
      BY <1>1, <1>5, <1>6 DEF Buffer!Load
    <3>2. CASE c = << >>
      <4>1. c' = <<Head(backlog)>>
        BY <1>1, <1>6, <3>2 DEF Buffer!Load
      <4>2. QED
        BY <3>1, <4>1
    <3>3. CASE c # << >>
      BY <1>1, <1>6, <3>1, <3>3 DEF Buffer!Load
    <3>4. QED
      BY <3>2, <3>3
  <2>2. ~ closed
    BY <2>1 DEF CloseInv
  <2>3. BufferSound' /\ CloseInv'
    BY <1>1, <1>2, <1>3, <1>4, <2>1, <2>2
    DEF Buffer!NoStrandedBacklog, Buffer!CloseIsComing, Buffer!ClosedOnce,
        Buffer!NothingAfterClose, CloseInv
  <2>4. QED
    BY <1>1, <1>4, <2>3 DEF RunInv, ExecutedInv, Fates, Received, Draining
<1>7. CASE backlog = << >>
  <2>1. c' = c /\ backlog' = << >> /\ closes' = IF closing /\ ~ closed THEN closes + 1 ELSE closes
    BY <1>1, <1>7 DEF Buffer!Load
  <2>2. closing => closes' = 1 /\ c = << >>
    <3>1. closing /\ closed => closes = 1
      BY DEF CloseInv
    <3>2. closing /\ ~ closed => closes = 0
      BY <1>5
    <3>3. QED
      BY <1>1, <1>4, <2>1, <3>1, <3>2 DEF CloseInv
  <2>3. ~ closing => closes' = 0 /\ closes = 0 /\ ~ closed
    BY <1>5, <2>1 DEF CloseInv
  <2>4. BufferSound' /\ CloseInv'
    BY <1>1, <1>2, <1>3, <1>4, <2>1, <2>2, <2>3
    DEF Buffer!NoStrandedBacklog, Buffer!CloseIsComing, Buffer!ClosedOnce,
        Buffer!NothingAfterClose, CloseInv
  <2>5. QED
    BY <1>1, <1>4, <2>4 DEF RunInv, ExecutedInv, Fates, Received, Draining
<1>8. QED
  BY <1>6, <1>7

LEMMA CloseStep ==
  ASSUME SerializerIInv, CloseBuffer
  PROVE  SerializerIInv'
<1> USE DEF SerializerIInv, BufferSound, SerializerTypeOK
<1>1. /\ at = "close" /\ at' = "range"
      /\ Buffer!Close /\ UNCHANGED <<cancelled, executed, failed, dropped>>
  BY DEF CloseBuffer
<1>2. Buffer!TypeOK' /\ Buffer!Fifo'
  BY <1>1, CloseSound
<1>3. SerializerTypeOK'
  BY <1>1, <1>2
<1>4. ~ closing /\ closing' /\ UNCHANGED <<c, backlog, owes, put, got>>
  BY <1>1 DEF Buffer!Close
<1>5. closes = 0 /\ ~ closed
  BY <1>4 DEF Buffer!TypeOK, Buffer!NothingAfterClose, CloseInv
<1>6. IF backlog = << >> THEN closed' /\ closes' = 1 ELSE ~ closed' /\ closes' = 0
  BY <1>1, <1>5 DEF Buffer!Close
<1>7. BufferSound' /\ CloseInv'
  BY <1>1, <1>2, <1>3, <1>4, <1>6
  DEF Buffer!NoStrandedBacklog, Buffer!CloseIsComing, Buffer!ClosedOnce,
      Buffer!NothingAfterClose, CloseInv
<1>8. QED
  BY <1>1, <1>4, <1>7 DEF RunInv, ExecutedInv, Fates, Received, Draining

LEMMA NextIInv == SerializerIInv /\ [SerializerNext]_serializerVars => SerializerIInv'
<1> SUFFICES ASSUME SerializerIInv, [SerializerNext]_serializerVars PROVE SerializerIInv'
  OBVIOUS
<1>1. ASSUME NEW f \in Callbacks, TrySchedule(f) \/ ScheduleOr(f) PROVE SerializerIInv'
  <2>1. CASE Buffer!Put(f) /\ UNCHANGED <<cancelled, at, executed, failed, dropped>>
    BY <1>1, <2>1, AcceptStep DEF TrySchedule, ScheduleOr
  <2>2. CASE closing /\ UNCHANGED <<bufVars, cancelled, at, executed>>
    BY <1>1, <2>2, RefuseStep DEF TrySchedule, ScheduleOr, Buffer!Put
  <2>3. QED
    BY <1>1, <2>1, <2>2 DEF TrySchedule, ScheduleOr
<1>2. CASE UNCHANGED serializerVars
  <2>1. BufferSound'
    BY <1>2 DEF serializerVars, bufVars, SerializerIInv, BufferSound, SerializerTypeOK, Buffer!TypeOK, Buffer!Fifo,
       Buffer!NoStrandedBacklog, Buffer!CloseIsComing, Buffer!ClosedOnce,
       Buffer!NothingAfterClose
  <2>2. Fates' /\ RunInv' /\ ExecutedInv' /\ CloseInv'
    BY <1>2 DEF serializerVars, bufVars, SerializerIInv, Fates, RunInv, ExecutedInv, CloseInv
  <2>3. QED
    BY <2>1, <2>2 DEF SerializerIInv
<1>3. QED
  BY <1>1, <1>2, LocalStep, ReceiveStep, LoadStep, CloseStep DEF SerializerNext, RunStep

LEMMA InductiveInvariant == SerializerSpec => []SerializerIInv
BY SerializerInitIInv, NextIInv, PTL DEF SerializerSpec

\* The unbounded buffer keeps its promises to a single consumer: the order, no
\* value stranded in the backlog, no close that never comes and no second close.
THEOREM BufferCorrect == SerializerSpec => []BufferSound
<1>1. SerializerIInv => BufferSound
  BY DEF SerializerIInv
<1>2. QED
  BY <1>1, InductiveInvariant, PTL

\* A scheduled callback has one fate, in whatever order callbacks are scheduled, the
\* context is cancelled and run drains the buffer.
THEOREM FateCorrect == SerializerSpec => []OneFate
<1>1. SerializerIInv => OneFate
  BY DEF SerializerIInv, OneFate
<1>2. QED
  BY <1>1, InductiveInvariant, PTL

-----------------------------------------------------------------------------
(* Refinement: every step of the serializer is a step of Executor or leaves it *)
(* alone.                                                                      *)

LEMMA ExecutorInit == SerializerInit => Serializer!Init
BY DEF SerializerInit, Buffer!Init, Serializer!Init

\* The callback that Call executes is the next of those that were accepted.
LEMMA CallExecutes == SerializerIInv /\ Call => Serializer!Execute
<1> SUFFICES ASSUME SerializerIInv, Call PROVE Serializer!Execute
  OBVIOUS
<1>1. /\ got \in Seq(Callbacks) /\ c \in Seq(Callbacks) /\ backlog \in Seq(Callbacks)
      /\ put = (got \o c) \o backlog /\ Len(executed) \in Nat
  BY DEF SerializerIInv, BufferSound, SerializerTypeOK, Buffer!TypeOK, Buffer!Fifo
<1>2. Len(got) = Len(executed) + 1
  BY DEF SerializerIInv, ExecutedInv, Received, Call
<1>3. Len(got) \in 1 .. Len(got)
  BY <1>1, <1>2
<1>4. got \o c \in Seq(Callbacks) /\ (got \o c)[Len(got)] = got[Len(got)]
      /\ Len(got) <= Len(got \o c)
  BY <1>1, <1>3, PrefixOfConcat
<1>5. Len(got) \in 1 .. Len(got \o c)
  BY <1>1, <1>3, <1>4
<1>6. put[Len(got)] = (got \o c)[Len(got)] /\ Len(got \o c) <= Len(put)
  BY <1>1, <1>4, <1>5, PrefixOfConcat
<1>7. Len(executed) < Len(put) /\ put[Len(executed) + 1] = got[Len(got)]
  <2>1. Len(put) \in Nat /\ Len(got \o c) \in Nat /\ Len(got) \in Nat
    BY <1>1, <1>4
  <2>2. QED
    BY <1>1, <1>2, <1>4, <1>6, <2>1
<1>8. QED
  BY <1>7 DEF Call, bufVars, Serializer!Execute

\* When the range loop ends, everything that was accepted has been executed.
LEMMA EndFinishes == SerializerIInv /\ RangeEnd => Serializer!Finish
<1> SUFFICES ASSUME SerializerIInv, RangeEnd PROVE Serializer!Finish
  OBVIOUS
<1>1. closing /\ c = << >> /\ backlog = << >>
  BY DEF SerializerIInv, BufferSound, Buffer!NothingAfterClose, RangeEnd
<1>2. got \in Seq(Callbacks) /\ executed \in Seq(Callbacks)
  BY DEF SerializerIInv, BufferSound, SerializerTypeOK, Buffer!TypeOK
<1>3. put = got
  BY <1>1, <1>2, ConcatEmptySeq DEF SerializerIInv, BufferSound, Buffer!Fifo
<1>4. Len(executed) = Len(got) /\ \A i \in 1 .. Len(executed) : executed[i] = got[i]
  BY <1>2 DEF SerializerIInv, ExecutedInv, Received, RangeEnd
<1>5. executed = got
  BY <1>2, <1>4, SeqEqual
<1>6. QED
  BY <1>1, <1>3, <1>5 DEF RangeEnd, bufVars, Serializer!Finish

LEMMA ExecutorStep == SerializerIInv /\ [SerializerNext]_serializerVars => [Serializer!Next]_(Serializer!vars)
<1> SUFFICES ASSUME SerializerIInv, [SerializerNext]_serializerVars PROVE [Serializer!Next]_(Serializer!vars)
  OBVIOUS
<1> USE DEF Serializer!Next, Serializer!vars
<1>1. ASSUME NEW f \in Callbacks, TrySchedule(f) \/ ScheduleOr(f)
      PROVE  [Serializer!Next]_(Serializer!vars)
  BY <1>1 DEF TrySchedule, ScheduleOr, Buffer!Put, bufVars, Serializer!Accept
<1>2. CASE Call
  BY <1>2, CallExecutes
<1>3. CASE RangeEnd
  BY <1>3, EndFinishes
<1>4. CASE CloseBuffer
  BY <1>4 DEF CloseBuffer, Buffer!Close, Serializer!Shut
<1>5. CASE LoopTest \/ SelectDone \/ SelectCallback \/ LoadNext \/ RangeCallback
  BY <1>5 DEF LoopTest, SelectDone, SelectCallback, LoadNext, RangeCallback, bufVars,
              Buffer!Receive, Buffer!Load
<1>6. CASE Cancel \/ UNCHANGED serializerVars
  BY <1>6 DEF Cancel, serializerVars, bufVars
<1>7. QED
  BY <1>1, <1>2, <1>3, <1>4, <1>5, <1>6 DEF SerializerNext, RunStep

\* The serializer, with its buffer and its two loops, implements Executor: callbacks
\* run one at a time in the order they were scheduled, and done is closed after all.
THEOREM ExecutorImplemented == SerializerSpec => ImplementsExecutor
BY InductiveInvariant, ExecutorInit, ExecutorStep, PTL
DEF SerializerSpec, ImplementsExecutor, Serializer!Spec
==============================================================================
