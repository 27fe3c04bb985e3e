---------------------------- MODULE ActivityTimer ----------------------------
(***************************************************************************)
(* timer/timer.go: onTimeout is called when a whole interval has passed    *)
(* without an Update.  Every SetTimeout makes a check task, a Periodic,    *)
(* and closes the one before.  A check task is started once, so its        *)
(* goroutine and its timer are never two (Periodic's OneChain), and one    *)
(* program counter and one flag per task stand for them.                   *)
(***************************************************************************)
EXTENDS Naturals

CONSTANTS
  Tasks,      \* the check tasks, 1 .. n, each made by a SetTimeout
  MaxUpdates  \* bound: calls of Update

ASSUME TimerAssumption == MaxUpdates \in Nat

VARIABLES
  updated,    \* does the channel, of capacity one, hold a token?
  checkTask,  \* t.checkTask, or None
  onTimeout,  \* is t.onTimeout set?
  fired,      \* how often it was called
  set,        \* where the SetTimeout of each task is
  taskRunning, taskArmed, taskPc,  \* of each check task
  updates,
  active,     \* history: the tasks that have not checked since an Update
  early,      \* history: has a task timed out although it was active?
  overlap     \* history: has a SetTimeout met a check, or another one, half way?

timerVars ==
  <<updated, checkTask, onTimeout, fired, set, taskRunning, taskArmed, taskPc, updates,
    active, early, overlap>>

NoTask == 0

\* CancelAfterInactivity; SetTimeout for the first task comes with it.
TimerInit ==
  /\ updated = FALSE
  /\ checkTask = NoTask
  /\ onTimeout = TRUE
  /\ fired = 0
  /\ set = [k \in Tasks |-> "new"]
  /\ taskRunning = [k \in Tasks |-> FALSE]
  /\ taskArmed = [k \in Tasks |-> FALSE]
  /\ taskPc = [k \in Tasks |-> "idle"]
  /\ updates = 0
  /\ active = {}
  /\ early = FALSE
  /\ overlap = FALSE

\* Periodic.Close of the check task, if there is one.
CloseTask(k) ==
  /\ taskRunning' = [j \in Tasks |-> taskRunning[j] /\ j # k]
  /\ taskArmed' = [j \in Tasks |-> taskArmed[j] /\ j # k]

HalfWay == \E k \in Tasks : set[k] \in {"swapped", "updated"}

finish ==
  /\ fired' = IF onTimeout THEN fired + 1 ELSE fired
  /\ onTimeout' = FALSE
  /\ CloseTask(checkTask)
  /\ checkTask' = NoTask
  /\ overlap' = (overlap \/ HalfWay)

-----------------------------------------------------------------------------
(* The callers *)

Put == updated' = TRUE /\ active' = Tasks

Update ==
  /\ set[1] = "done"
  /\ updates < MaxUpdates
  /\ updates' = updates + 1
  /\ Put
  /\ UNCHANGED <<checkTask, onTimeout, fired, set, taskRunning, taskArmed, taskPc,
                 early, overlap>>

\* SetTimeout(0).
SetTimeoutZero ==
  /\ set[1] = "done"
  /\ finish
  /\ UNCHANGED <<updated, set, taskPc, updates, active, early>>

\* SetTimeout in its critical section: the new check task replaces the old one.
SetTimeoutSwap(k) ==
  /\ set[k] = "new"
  /\ k > 1 => set[1] = "done" /\ set[k - 1] # "new"
  /\ CloseTask(checkTask)
  /\ checkTask' = k
  /\ set' = [set EXCEPT ![k] = "swapped"]
  /\ overlap' = (overlap \/ HalfWay \/ \E j \in Tasks : taskPc[j] # "idle")
  /\ UNCHANGED <<updated, onTimeout, fired, taskPc, updates, active, early>>

\* Mutant of SetTimeoutUpdate: no Update.
SetTimeoutOnly(k) ==
  /\ set[k] = "swapped"
  /\ active' = Tasks
  /\ set' = [set EXCEPT ![k] = "updated"]
  /\ UNCHANGED <<updated, checkTask, onTimeout, fired, taskRunning, taskArmed, taskPc,
                 updates, early, overlap>>

SetTimeoutUpdate(k) ==
  /\ set[k] = "swapped"
  /\ Put
  /\ set' = [set EXCEPT ![k] = "updated"]
  /\ UNCHANGED <<checkTask, onTimeout, fired, taskRunning, taskArmed, taskPc, updates,
                 early, overlap>>

\* checkTask.Start(): the caller's goroutine executes the first check.
SetTimeoutStart(k) ==
  /\ set[k] = "updated"
  /\ set' = [set EXCEPT ![k] = "done"]
  /\ taskRunning' = [taskRunning EXCEPT ![k] = TRUE]
  /\ taskPc' = [taskPc EXCEPT ![k] = "check"]
  /\ UNCHANGED <<updated, checkTask, onTimeout, fired, taskArmed, updates, active,
                 early, overlap>>

-----------------------------------------------------------------------------
(* A check task *)

TaskGoto(k, label) == taskPc' = [taskPc EXCEPT ![k] = label]

FireTask(k) ==
  /\ taskPc[k] = "idle"
  /\ taskArmed[k]
  /\ taskArmed' = [taskArmed EXCEPT ![k] = FALSE]
  /\ TaskGoto(k, "check")
  /\ UNCHANGED <<updated, checkTask, onTimeout, fired, set, taskRunning, updates,
                 active, early, overlap>>

TaskHasClosed(k) ==
  /\ taskPc[k] = "check"
  /\ TaskGoto(k, IF taskRunning[k] THEN "execute" ELSE "idle")
  /\ UNCHANGED <<updated, checkTask, onTimeout, fired, set, taskRunning, taskArmed,
                 updates, active, early, overlap>>

\* check takes the token, or finds that there is none.
check(k) ==
  /\ taskPc[k] = "execute"
  /\ updated' = FALSE
  /\ active' = active \ {k}
  /\ early' = (early \/ (~ updated /\ k \in active))
  /\ TaskGoto(k, IF updated THEN "arm" ELSE "finish")
  /\ UNCHANGED <<checkTask, onTimeout, fired, set, taskRunning, taskArmed, updates, overlap>>

Finish(k) ==
  /\ taskPc[k] = "finish"
  /\ finish
  /\ TaskGoto(k, "arm")
  /\ UNCHANGED <<updated, set, updates, active, early>>

ArmTask(k) ==
  /\ taskPc[k] = "arm"
  /\ taskArmed' = [taskArmed EXCEPT ![k] = taskRunning[k]]
  /\ TaskGoto(k, "idle")
  /\ UNCHANGED <<updated, checkTask, onTimeout, fired, set, taskRunning, updates,
                 active, early, overlap>>

SetTimeout(k) == SetTimeoutSwap(k) \/ SetTimeoutUpdate(k) \/ SetTimeoutStart(k)
CheckTask(k) == FireTask(k) \/ TaskHasClosed(k) \/ check(k) \/ Finish(k) \/ ArmTask(k)

TimerNext ==
  \/ Update
  \/ SetTimeoutZero
  \/ \E k \in Tasks : SetTimeout(k) \/ CheckTask(k)

TimerSpec == TimerInit /\ [][TimerNext]_timerVars

\* A SetTimeout that has begun goes on, the first one begins, and tasks run.
TimerFairSpec ==
  /\ TimerSpec
  /\ WF_timerVars(SetTimeoutSwap(1))
  /\ \A k \in Tasks : WF_timerVars(SetTimeoutUpdate(k) \/ SetTimeoutStart(k)) /\ WF_timerVars(CheckTask(k))

-----------------------------------------------------------------------------
(* Properties *)

TimerTypeOK ==
  /\ {updated, onTimeout, early, overlap} \subseteq BOOLEAN
  /\ checkTask \in Tasks \cup {NoTask}
  /\ set \in [Tasks -> {"new", "swapped", "updated", "done"}]
  /\ taskRunning \in [Tasks -> BOOLEAN] /\ taskArmed \in [Tasks -> BOOLEAN]
  /\ taskPc \in [Tasks -> {"idle", "check", "execute", "finish", "arm"}]
  /\ updates \in 0 .. MaxUpdates /\ active \subseteq Tasks

\* onTimeout is called once, whatever check tasks and calls of SetTimeout do.
FiresOnce == fired <= 1

\* When the Updates stop, the timeout comes, also when SetTimeout replaces the task
\* while the old one checks: there is always one task left to notice.
TimesOut == <>(fired = 1)

\* A task times out only if there was no Update since its last check, so a whole
\* interval before.  A SetTimeout that meets a check of the old task voids this:
\* that check may take the token of the new task.
NotEarly == ~ overlap => ~ early

\* The two together: onTimeout is called at most once, and an Update puts it off by an
\* interval.
TimeoutOnce == TimerTypeOK /\ FiresOnce /\ NotEarly

\* In the end no check task is left, after a timeout or not, however often
\* SetTimeout was called.  A task that finish meets between the swap and Start is
\* started after it was closed, and nothing closes it again.
Quiesces ==
  <>[](overlap \/ \A k \in Tasks : taskPc[k] = "idle" /\ ~ taskArmed[k])
==============================================================================
