------------------------- MODULE CallbackSerializer -------------------------
(***************************************************************************)
(* concurrent/callback_serializer.go: a goroutine, run, executes callbacks *)
(* that any goroutine schedules through an Unbounded buffer, until the     *)
(* context is cancelled; then it closes the buffer and runs what is left.  *)
(* The buffer is module Unbounded with run as its only consumer.           *)
(***************************************************************************)
EXTENDS Naturals, Sequences

CONSTANTS
  Callbacks,  \* the callbacks, each scheduled at most once
  MaxPuts     \* bound: the number of callbacks scheduled in all

VARIABLES
  c, closes, closed, closing, backlog, owes, put, got,  \* cs.callbacks
  cancelled,  \* is the context cancelled?
  at,         \* where run is
  executed,   \* history: the callbacks that were executed
  failed,     \* history: the callbacks whose onFailure was executed
  dropped     \* history: the callbacks TrySchedule dropped

Run == "run"

Buffer == INSTANCE Unbounded WITH Values <- Callbacks, Consumers <- {Run}

bufVars == <<c, closes, closed, closing, backlog, owes, put, got>>
serializerVars == <<bufVars, cancelled, at, executed, failed, dropped>>

\* The callbacks some goroutine has already scheduled.
Scheduled == {put[i] : i \in 1 .. Len(put)} \cup failed \cup dropped

\* NewCallbackSerializer.
SerializerInit ==
  /\ Buffer!Init
  /\ cancelled = FALSE
  /\ at = "loop"
  /\ executed = << >>
  /\ failed = {}
  /\ dropped = {}

\* The owner of the context cancels it.
Cancel ==
  /\ ~ cancelled
  /\ cancelled' = TRUE
  /\ UNCHANGED <<bufVars, at, executed, failed, dropped>>

\* TrySchedule ignores the error of Put.
TrySchedule(f) ==
  /\ f \notin Scheduled
  /\ \/ Buffer!Put(f) /\ UNCHANGED dropped
     \/ closing /\ dropped' = dropped \cup {f} /\ UNCHANGED bufVars
  /\ UNCHANGED <<cancelled, at, executed, failed>>

\* Mutant of ScheduleOr: onFailure is executed whatever Put returned.
ScheduleAnd(f) ==
  /\ f \notin Scheduled
  /\ Buffer!Put(f) \/ (closing /\ UNCHANGED bufVars)
  /\ failed' = failed \cup {f}
  /\ UNCHANGED <<cancelled, at, executed, dropped>>

\* ScheduleOr executes onFailure inline when Put fails.
ScheduleOr(f) ==
  /\ f \notin Scheduled
  /\ \/ Buffer!Put(f) /\ UNCHANGED failed
     \/ closing /\ failed' = failed \cup {f} /\ UNCHANGED bufVars
  /\ UNCHANGED <<cancelled, at, executed, dropped>>

-----------------------------------------------------------------------------
(* run *)

\* The test of the for loop: into the select, or on to close the buffer.
LoopTest ==
  /\ at = "loop"
  /\ at' = IF cancelled THEN "close" ELSE "select"
  /\ UNCHANGED <<bufVars, cancelled, executed, failed, dropped>>

SelectDone ==
  /\ at = "select"
  /\ cancelled
  /\ at' = "loop"
  /\ UNCHANGED <<bufVars, cancelled, executed, failed, dropped>>

SelectCallback ==
  /\ at = "select"
  /\ Buffer!Receive(Run)
  /\ at' = "load"
  /\ UNCHANGED <<cancelled, executed, failed, dropped>>

\* Load after a receive of the select and of the range loop.
LoadNext ==
  /\ at \in {"load", "rangeload"}
  /\ Buffer!Load(Run)
  /\ at' = IF at = "load" THEN "call" ELSE "rangecall"
  /\ UNCHANGED <<cancelled, executed, failed, dropped>>

\* The callback that was received is executed, to its end.
Call ==
  /\ at \in {"call", "rangecall"}
  /\ executed' = Append(executed, got[Len(got)])
  /\ at' = IF at = "call" THEN "loop" ELSE "range"
  /\ UNCHANGED <<bufVars, cancelled, failed, dropped>>

\* Mutant of CloseBuffer: run returns without draining the buffer.
CloseAndReturn ==
  /\ at = "close"
  /\ Buffer!Close
  /\ at' = "done"
  /\ UNCHANGED <<cancelled, executed, failed, dropped>>

CloseBuffer ==
  /\ at = "close"
  /\ Buffer!Close
  /\ at' = "range"
  /\ UNCHANGED <<cancelled, executed, failed, dropped>>

\* The range loop receives the next callback, or ends when the channel is closed
\* and empty; then done is closed.
RangeCallback ==
  /\ at = "range"
  /\ Buffer!Receive(Run)
  /\ at' = "rangeload"
  /\ UNCHANGED <<cancelled, executed, failed, dropped>>

RangeEnd ==
  /\ at = "range"
  /\ c = << >>
  /\ closes > 0
  /\ at' = "done"
  /\ UNCHANGED <<bufVars, cancelled, executed, failed, dropped>>

RunStep ==
  \/ LoopTest \/ SelectDone \/ SelectCallback \/ LoadNext \/ Call
  \/ CloseBuffer \/ RangeCallback \/ RangeEnd

SerializerNext ==
  \/ Cancel
  \/ \E f \in Callbacks : TrySchedule(f) \/ ScheduleOr(f)
  \/ RunStep

SerializerSpec == SerializerInit /\ [][SerializerNext]_serializerVars

\* run keeps running, and callbacks return.
SerializerFairSpec == SerializerSpec /\ WF_serializerVars(RunStep)

-----------------------------------------------------------------------------
(* Properties *)

SerializerTypeOK ==
  /\ Buffer!TypeOK
  /\ cancelled \in BOOLEAN
  /\ at \in {"loop", "select", "load", "call", "close", "range", "rangeload", "rangecall", "done"}
  /\ executed \in Seq(Callbacks)
  /\ failed \subseteq Callbacks
  /\ dropped \subseteq Callbacks

\* The buffer does for run what it promises to a single consumer: callbacks leave
\* it in the order in which Put accepted them, none lost and none twice; run,
\* blocked on the channel, always has a value or a Load to come while there is a
\* backlog or a close is pending; and the channel is closed once, by Close or by
\* Load, with nothing sent into it afterwards.
BufferSound ==
  /\ SerializerTypeOK
  /\ Buffer!Fifo
  /\ Buffer!NoStrandedBacklog /\ Buffer!CloseIsComing
  /\ Buffer!ClosedOnce /\ Buffer!NothingAfterClose

\* The serializer is an executor: callbacks run one at a time in the order they
\* were scheduled, and done is closed only when every one of them has run.
Serializer ==
  INSTANCE Executor WITH Tasks <- Callbacks, accepted <- put, open <- ~ closing,
                         finished <- (at = "done")

ImplementsExecutor == Serializer!Spec

\* ScheduleOr and TrySchedule leave a callback exactly one fate: it is executed
\* (now or before done is closed), or its onFailure is, or it is dropped; never
\* two of these, and no callback is executed twice.
Fates ==
  /\ \A i, j \in 1 .. Len(put) : put[i] = put[j] => i = j
  /\ {put[i] : i \in 1 .. Len(put)} \cap (failed \cup dropped) = {}
  /\ failed \cap dropped = {}

\* Both: each callback has one fate, and the buffer keeps what was accepted in order.
OneFate == BufferSound /\ Fates

\* Cancelling the context shuts the serializer down, with nothing left to run.
CancelShutsDown == cancelled ~> (at = "done" /\ executed = put)

\* A callback that was accepted is executed, cancelled or not.
AcceptedRuns == \A n \in 1 .. MaxPuts : Len(put) >= n ~> Len(executed) >= n

\* Both: accepted callbacks run, and a cancelled serializer shuts down.
Completes == CancelShutsDown /\ AcceptedRuns
=============================================================================
