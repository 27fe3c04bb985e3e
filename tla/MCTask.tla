------------------------------- MODULE MCTask --------------------------------
(***************************************************************************)
(* The concurrency helpers for TLC: a Periodic, an ActivityTimer, a call   *)
(* of task.Run, the two CallbackSerializers and a retry Strategy, one of   *)
(* which is used in each behaviour, part saying which.  They share no      *)
(* state.                                                                  *)
(***************************************************************************)
EXTENDS Periodic, ActivityTimer, CallbackSerializer

CONSTANT Jobs   \* the tasks of Run

VARIABLES
  part,
  token, rDone, rPc, rFailed, first, main, i, result, ctxDone,
  channelSize, ch, caller, loop, bExecuted, accepted, bCancelled,
  kind, totalAttempt, nextDelay, yPc, attempt, accumulatedErrors, given, slept, returned, ons

runVars == <<token, rDone, rPc, rFailed, first, main, i, result, ctxDone>>
boundedVars == <<channelSize, ch, caller, loop, bExecuted, accepted, bCancelled>>
retryVars ==
  <<kind, totalAttempt, nextDelay, yPc, attempt, accumulatedErrors, given, slept, returned, ons>>
mcVars == <<part, periodicVars, timerVars, runVars, serializerVars, boundedVars, retryVars>>

R == INSTANCE TaskRun WITH Tasks <- Jobs, done <- rDone, pc <- rPc, failed <- rFailed

B == INSTANCE Coroutines WITH Callbacks <- Jobs, ChannelSizes <- 0 .. 2,
       executed <- bExecuted, cancelled <- bCancelled

Y == INSTANCE Retry WITH Attempts <- 0 .. 3, Delay <- 3, Modulus <- 8, MaxOns <- 2, pc <- yPc

MCInit ==
  /\ PeriodicInit
  /\ TimerInit
  /\ SerializerInit
  /\ R!Init
  /\ B!Init
  /\ Y!Init
  /\ part \in {"periodic", "timer", "run", "serializer", "bounded", "retry"}
  /\ part # "periodic" => restart
  /\ part # "bounded" => channelSize = 0
  /\ part # "retry" => totalAttempt = 0 /\ kind = "Timed"

\* The others stay as they are while one part works.
OnlyPeriodic ==
  /\ part = "periodic"
  /\ UNCHANGED <<part, timerVars, runVars, serializerVars, boundedVars, retryVars>>
OnlyTimer ==
  /\ part = "timer"
  /\ UNCHANGED <<part, periodicVars, runVars, serializerVars, boundedVars, retryVars>>
OnlyRun ==
  /\ part = "run"
  /\ UNCHANGED <<part, periodicVars, timerVars, serializerVars, boundedVars, retryVars>>
OnlySerializer ==
  /\ part = "serializer"
  /\ UNCHANGED <<part, periodicVars, timerVars, runVars, boundedVars, retryVars>>
OnlyBounded ==
  /\ part = "bounded"
  /\ UNCHANGED <<part, periodicVars, timerVars, runVars, serializerVars, retryVars>>
OnlyRetry ==
  /\ part = "retry"
  /\ UNCHANGED <<part, periodicVars, timerVars, runVars, serializerVars, boundedVars>>

MCNext ==
  \/ OnlyPeriodic /\ PeriodicNext
  \/ OnlyTimer /\ TimerNext
  \/ OnlyRun /\ R!Next
  \/ OnlySerializer /\ SerializerNext
  \/ OnlyBounded /\ B!Next
  \/ OnlyRetry /\ Y!Next

MCSpec == MCInit /\ [][MCNext]_mcVars

\* The fairness of each part.
MCFairSpec ==
  /\ MCSpec
  /\ \A p \in Threads : WF_periodicVars(part = "periodic" /\ (Fire(p) \/ Work(p)))
  /\ WF_timerVars(part = "timer" /\ SetTimeoutSwap(1))
  /\ \A k \in Tasks :
       /\ WF_timerVars(part = "timer" /\ (SetTimeoutUpdate(k) \/ SetTimeoutStart(k)))
       /\ WF_timerVars(part = "timer" /\ CheckTask(k))
  /\ WF_runVars(part = "run" /\ R!Main)
  /\ \A t \in Jobs : WF_runVars(part = "run" /\ R!Goroutine(t))
  /\ WF_serializerVars(part = "serializer" /\ RunStep)
  /\ WF_boundedVars(part = "bounded" /\ B!Loop)
  /\ \A f \in Jobs : WF_boundedVars(part = "bounded" /\ B!Accept(f))

-----------------------------------------------------------------------------
(* Properties *)

\* OneChain of Periodic, TimeoutOnce of ActivityTimer, and OneFate and
\* ImplementsExecutor of CallbackSerializer are checked as these modules state them.

\* Run: nil means that all tasks passed, an error is the first one left.  retry: On
\* gives up after all its attempts, with a cause that says what the last one said.  The
\* serializer with a channel executes in order, each callback once.
ReturnsOutcome ==
  /\ R!TypeOK /\ R!ReturnsOutcome
  /\ B!TypeOK /\ B!InOrder
  /\ Y!TypeOK /\ Y!GivesUpLate

\* Nothing is left behind: Close ends every goroutine and timer of a Periodic, the
\* timeout comes and leaves no check task, Run returns and leaves no goroutine
\* blocked, a cancelled serializer executes what it accepted and ends, the one with a
\* channel executes what is scheduled unless it is cancelled, and then ends.  Until it
\* is closed a Periodic is executed again and again.
Settles ==
  /\ KeepsRunning /\ CloseReleases
  /\ part = "timer" => TimesOut
  /\ Quiesces
  /\ part = "run" => R!AllEnd
  /\ Completes
  /\ B!Executes /\ B!LoopQuits
==============================================================================
