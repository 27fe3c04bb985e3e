------------------------------- MODULE TaskRun -------------------------------
(***************************************************************************)
(* task/task.go, Run, with signal/semaphore: one goroutine per task, which *)
(* gives its permit back if the task passed and leaves its error in done,  *)
(* of capacity one, if not; Run waits for n permits, an error or the       *)
(* context.                                                                *)
(***************************************************************************)
EXTENDS Naturals, FiniteSets

CONSTANT Tasks

VARIABLES
  token,    \* the permits in the semaphore
  done,     \* the error in the channel, the task it is of, or None
  pc,       \* where the goroutine of each task is
  failed,   \* the tasks that gave an error
  first,    \* history: the task whose error was left first, or None
  main, i,  \* where Run is, and the i of its second loop
  result,   \* what Run has returned
  ctxDone

vars == <<token, done, pc, failed, first, main, i, result, ctxDone>>

None == "none"
n == Cardinality(Tasks)

Init ==
  /\ token = n
  /\ done = None
  /\ pc = [t \in Tasks |-> "new"]
  /\ failed = {}
  /\ first = None
  /\ main = "start" /\ i = 0
  /\ result = None
  /\ ctxDone = FALSE

-----------------------------------------------------------------------------
(* Run *)

\* The first loop takes a permit and starts the next task.
StartTask(t) ==
  /\ main = "start"
  /\ pc[t] = "new"
  /\ token > 0
  /\ token' = token - 1
  /\ pc' = [pc EXCEPT ![t] = "run"]
  /\ main' = IF \A u \in Tasks \ {t} : pc[u] # "new" THEN "wait" ELSE "start"
  /\ UNCHANGED <<done, failed, first, i, result, ctxDone>>

Return(r) ==
  /\ result' = r
  /\ main' = "returned"

SelectError ==
  /\ main = "wait" /\ i < n
  /\ done # None
  /\ done' = None
  /\ Return(done)
  /\ UNCHANGED <<token, pc, failed, first, i, ctxDone>>

SelectDone ==
  /\ main = "wait" /\ i < n
  /\ ctxDone
  /\ Return("ctx")
  /\ UNCHANGED <<token, done, pc, failed, first, i, ctxDone>>

\* Mutant of SelectToken: the loop ends one permit early.
SelectTokenEarly ==
  /\ main = "wait" /\ i < n
  /\ token > 0
  /\ token' = token - 1
  /\ i' = i + 1
  /\ IF i + 2 >= n THEN Return("nil") ELSE UNCHANGED <<result, main>>
  /\ UNCHANGED <<done, pc, failed, first, ctxDone>>

\* A permit; after n of them Run returns nil.
SelectToken ==
  /\ main = "wait" /\ i < n
  /\ token > 0
  /\ token' = token - 1
  /\ i' = i + 1
  /\ IF i + 1 = n THEN Return("nil") ELSE UNCHANGED <<result, main>>
  /\ UNCHANGED <<done, pc, failed, first, ctxDone>>

-----------------------------------------------------------------------------
(* The goroutine of a task *)

Finishes(t, fails) ==
  /\ pc[t] = "run"
  /\ pc' = [pc EXCEPT ![t] = IF fails THEN "error" ELSE "signal"]
  /\ failed' = IF fails THEN failed \cup {t} ELSE failed
  /\ UNCHANGED <<token, done, first, main, i, result, ctxDone>>

\* Signal would block if the channel of permits were full.
Signal(t) ==
  /\ pc[t] = "signal"
  /\ token < n
  /\ token' = token + 1
  /\ pc' = [pc EXCEPT ![t] = "end"]
  /\ UNCHANGED <<done, failed, first, main, i, result, ctxDone>>

LeaveError(t) ==
  /\ pc[t] = "error"
  /\ done' = IF done = None THEN t ELSE done
  /\ first' = IF first = None THEN t ELSE first
  /\ pc' = [pc EXCEPT ![t] = "end"]
  /\ UNCHANGED <<token, failed, main, i, result, ctxDone>>

Cancel ==
  /\ ~ ctxDone
  /\ ctxDone' = TRUE
  /\ UNCHANGED <<token, done, pc, failed, first, main, i, result>>

Main == SelectError \/ SelectDone \/ SelectToken \/ \E t \in Tasks : StartTask(t)
Goroutine(t) == Signal(t) \/ LeaveError(t) \/ \E fails \in BOOLEAN : Finishes(t, fails)

Next == Main \/ Cancel \/ \E t \in Tasks : Goroutine(t)

Spec == Init /\ [][Next]_vars

\* Tasks come to their end.
FairSpec == Spec /\ WF_vars(Main) /\ \A t \in Tasks : WF_vars(Goroutine(t))

-----------------------------------------------------------------------------
(* Properties *)

TypeOK ==
  /\ token \in 0 .. n /\ i \in 0 .. n
  /\ done \in Tasks \cup {None} /\ first \in Tasks \cup {None}
  /\ pc \in [Tasks -> {"new", "run", "error", "signal", "end"}]
  /\ main \in {"start", "wait", "returned"}
  /\ result \in Tasks \cup {None, "nil", "ctx"}

\* The comment on Run: it "returns the first error encountered or nil if all tasks
\* pass".  nil is returned only if every task has passed, and an error only if it is
\* the first that was left.
ReturnsOutcome ==
  /\ result = "nil" => failed = {} /\ \A t \in Tasks : pc[t] = "end"
  /\ result \in Tasks => result = first

\* Run returns, and no goroutine is left blocked, also after Run has returned early.
AllEnd == <>[](main = "returned" /\ \A t \in Tasks : pc[t] = "end")
==============================================================================
