------------------------------ MODULE Executor ------------------------------
(***************************************************************************)
(* What a callback serializer promises to those who schedule callbacks:    *)
(* the accepted callbacks are executed one by one in the order in which    *)
(* they were accepted; from some moment on none is accepted; the executor  *)
(* is done when all that were accepted have been executed, and stays so.   *)
(***************************************************************************)
EXTENDS Naturals, Sequences

CONSTANT Tasks

VARIABLES
  accepted,   \* the tasks accepted, in order
  executed,   \* the tasks executed, in order
  open,       \* are tasks still accepted?
  finished    \* is the executor done?

vars == <<accepted, executed, open, finished>>

Init ==
  /\ accepted = << >>
  /\ executed = << >>
  /\ open = TRUE
  /\ finished = FALSE

Accept ==
  /\ open
  /\ \E t \in Tasks : accepted' = Append(accepted, t)
  /\ UNCHANGED <<executed, open, finished>>

\* The executor is still running and its next task in order has been executed.
Execute ==
  /\ ~ finished
  /\ Len(executed) < Len(accepted)
  /\ executed' = Append(executed, accepted[Len(executed) + 1])
  /\ UNCHANGED <<accepted, open, finished>>

Shut ==
  /\ open
  /\ open' = FALSE
  /\ UNCHANGED <<accepted, executed, finished>>

Finish ==
  /\ ~ open
  /\ executed = accepted
  /\ finished' = TRUE
  /\ UNCHANGED <<accepted, executed, open>>

Next == Accept \/ Execute \/ Shut \/ Finish

Spec == Init /\ [][Next]_vars
=============================================================================
