------------------------------ MODULE Periodic -------------------------------
(***************************************************************************)
(* task/periodic.go: a task that executes and then arms a timer for its    *)
(* next execution.  A thread is a goroutine inside checkedExecute, either  *)
(* of a caller of Start or of a timer that went off.  A step is a critical *)
(* section of t.m, or an execution.                                        *)
(***************************************************************************)
EXTENDS Naturals, FiniteSets

CONSTANTS
  Threads,      \* bound: goroutines in the task at one time
  Timers,       \* bound: timers that are armed at one time
  MaxFailures,  \* bound: executions that give an error
  MaxCloses     \* bound: calls of Close

None == "none"

VARIABLES
  restart,    \* is Start called again after Close?
  running,
  timer,      \* t.timer: one of the timers, or None
  armed,      \* the timers that will go off
  pc, role,   \* where each thread is, and whether it is in Start or in a timer
  failures, closeCalls

taskVars == <<restart, running, timer, armed, pc, role>>
periodicVars == <<taskVars, failures, closeCalls>>

PeriodicInit ==
  /\ restart \in BOOLEAN
  /\ running = FALSE
  /\ timer = None
  /\ armed = {}
  /\ pc = [p \in Threads |-> "idle"]
  /\ role = [p \in Threads |-> "timer"]
  /\ failures = 0 /\ closeCalls = 0

Goto(p, label) == pc' = [pc EXCEPT ![p] = label]

\* Mutant of Start: without a look at running.
StartAgain(p) ==
  /\ closeCalls = 0 \/ restart
  /\ pc[p] = "idle"
  /\ running' = TRUE
  /\ role' = [role EXCEPT ![p] = "start"]
  /\ Goto(p, "check")
  /\ UNCHANGED <<restart, timer, armed, failures, closeCalls>>

\* Start; on a task that is running it does nothing.
Start(p) ==
  /\ ~ running
  /\ closeCalls = 0 \/ restart
  /\ pc[p] = "idle"
  /\ running' = TRUE
  /\ role' = [role EXCEPT ![p] = "start"]
  /\ Goto(p, "check")
  /\ UNCHANGED <<restart, timer, armed, failures, closeCalls>>

\* A timer goes off.
Fire(p) ==
  /\ pc[p] = "idle"
  /\ \E t \in armed : armed' = armed \ {t}
  /\ role' = [role EXCEPT ![p] = "timer"]
  /\ Goto(p, "check")
  /\ UNCHANGED <<restart, running, timer, failures, closeCalls>>

hasClosed(p) ==
  /\ pc[p] = "check"
  /\ Goto(p, IF running THEN "execute" ELSE "idle")
  /\ UNCHANGED <<restart, running, timer, armed, role, failures, closeCalls>>

ExecuteFails(p) ==
  /\ pc[p] = "execute"
  /\ failures < MaxFailures
  /\ failures' = failures + 1
  /\ Goto(p, "failed")
  /\ UNCHANGED <<restart, running, timer, armed, role, closeCalls>>

ExecuteSucceeds(p) ==
  /\ pc[p] = "execute"
  /\ Goto(p, "arm")
  /\ UNCHANGED <<restart, running, timer, armed, role, failures, closeCalls>>

\* checkedExecute stops the task after a failure, and Start does so once more.
StopFailed(p) ==
  /\ pc[p] \in {"failed", "failed again"}
  /\ running' = FALSE
  /\ Goto(p, IF pc[p] = "failed" /\ role[p] = "start" THEN "failed again" ELSE "idle")
  /\ UNCHANGED <<restart, timer, armed, role, failures, closeCalls>>

\* The timer for the next execution is armed, unless Close came.
Arm(p) ==
  /\ pc[p] = "arm"
  /\ IF running
     THEN \E t \in Timers \ armed :
            /\ armed' = armed \cup {t}
            /\ timer' = t
     ELSE UNCHANGED <<armed, timer>>
  /\ Goto(p, "idle")
  /\ UNCHANGED <<restart, running, role, failures, closeCalls>>

\* Mutant of Close: only the timer is stopped.
CloseRunning ==
  /\ closeCalls < MaxCloses
  /\ closeCalls' = closeCalls + 1
  /\ timer' = None
  /\ armed' = armed \ {timer}
  /\ UNCHANGED <<restart, running, pc, role, failures>>

Close ==
  /\ closeCalls < MaxCloses
  /\ closeCalls' = closeCalls + 1
  /\ running' = FALSE
  /\ timer' = None
  /\ armed' = armed \ {timer}
  /\ UNCHANGED <<restart, pc, role, failures>>

Work(p) == hasClosed(p) \/ ExecuteSucceeds(p) \/ StopFailed(p) \/ Arm(p)

PeriodicNext ==
  \/ \E p \in Threads : Start(p) \/ Fire(p) \/ ExecuteFails(p) \/ Work(p)
  \/ Close

\* Timers go off and goroutines run on.
PeriodicSpec == PeriodicInit /\ [][PeriodicNext]_periodicVars
PeriodicFairSpec ==
  PeriodicSpec /\ \A p \in Threads : WF_periodicVars(Fire(p) \/ Work(p))

-----------------------------------------------------------------------------
(* Properties *)

\* The goroutines and timers that will execute, or decide to.
Chains == {p \in Threads : pc[p] \in {"check", "execute", "arm"}} \cup armed

PeriodicTypeOK ==
  /\ {restart, running} \subseteq BOOLEAN
  /\ armed \subseteq Timers
  /\ timer \in Timers \cup {None}
  /\ pc \in [Threads -> {"idle", "check", "execute", "arm", "failed", "failed again"}]
  /\ role \in [Threads -> {"start", "timer"}]

\* A task that says that it runs has a goroutine or a timer that will execute it,
\* or one that is about to take that back: Start, which does nothing then, relies
\* on it.
RunningIsAlive ==
  running => Chains # {} \/ \E p \in Threads : pc[p] = "failed"

\* The task runs in one chain, so that there are never two executions at a time nor
\* two timers, as long as it is not restarted (an execution that was in flight would
\* go on next to the new one) and none fails (a Start between the clearing of
\* running by checkedExecute and by Start would be undone).
SingleChain == ~ restart /\ failures = 0 => Cardinality(Chains) <= 1

\* Both: a task that says that it runs is alive, and runs in one chain.
OneChain == PeriodicTypeOK /\ RunningIsAlive /\ SingleChain

\* Close "release[s] all resources used by this object, including goroutines", also
\* when it comes while the task executes or its timer is going off.
CloseReleases == (closeCalls > 0 /\ ~ restart) ~> [](Chains = {})

\* A running task executes again and again unless it is closed or fails.
KeepsRunning ==
  running ~> (~ running \/ \E p \in Threads : pc[p] = "execute")
==============================================================================
