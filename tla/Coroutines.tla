----------------------------- MODULE Coroutines ------------------------------
(***************************************************************************)
(* incubator/coroutines: a CallbackSerializer on a channel of fixed size.  *)
(* Unlike the one in grpc/sync its Schedule blocks while the channel is    *)
(* full, also after the context has ended, and what is in the channel then *)
(* need not be executed.                                                   *)
(***************************************************************************)
EXTENDS Naturals, Sequences, SequencesExt

CONSTANTS
  Callbacks,
  ChannelSizes   \* the sizes a serializer is made with

VARIABLES
  channelSize, ch,
  caller,     \* the call of Schedule with each callback: "new", "blocked", "returned"
  loop,       \* loop: "select", "run", "done"
  executed,   \* the callbacks that were executed or are
  accepted,   \* history: the callbacks the channel took, in order
  cancelled

vars == <<channelSize, ch, caller, loop, executed, accepted, cancelled>>

Init ==
  /\ channelSize \in ChannelSizes
  /\ ch = << >> /\ executed = << >> /\ accepted = << >>
  /\ caller = [f \in Callbacks |-> "new"]
  /\ loop = "select" /\ cancelled = FALSE

Schedule(f) ==
  /\ caller[f] = "new"
  /\ caller' = [caller EXCEPT ![f] = "blocked"]
  /\ UNCHANGED <<channelSize, ch, loop, executed, accepted, cancelled>>

\* The channel takes the callback; one without a buffer hands it to a loop that waits.
Accept(f) ==
  /\ caller[f] = "blocked"
  /\ caller' = [caller EXCEPT ![f] = "returned"]
  /\ accepted' = Append(accepted, f)
  /\ \/ Len(ch) < channelSize /\ ch' = Append(ch, f) /\ UNCHANGED <<loop, executed>>
     \/ /\ channelSize = 0 /\ loop = "select"
        /\ loop' = "run" /\ executed' = Append(executed, f) /\ UNCHANGED ch
  /\ UNCHANGED <<channelSize, cancelled>>

Take ==
  /\ loop = "select" /\ ch # << >>
  /\ ch' = Tail(ch) /\ executed' = Append(executed, Head(ch))
  /\ loop' = "run"
  /\ UNCHANGED <<channelSize, caller, accepted, cancelled>>

CallbackReturns ==
  /\ loop = "run" /\ loop' = "select"
  /\ UNCHANGED <<channelSize, ch, caller, executed, accepted, cancelled>>

\* Of a callback and the end of the context select takes either.
LoopEnds ==
  /\ loop = "select" /\ cancelled
  /\ loop' = "done"
  /\ UNCHANGED <<channelSize, ch, caller, executed, accepted, cancelled>>

Loop == Take \/ CallbackReturns \/ LoopEnds

Cancel ==
  /\ ~ cancelled /\ cancelled' = TRUE
  /\ UNCHANGED <<channelSize, ch, caller, loop, executed, accepted>>

Next == Loop \/ Cancel \/ \E f \in Callbacks : Schedule(f) \/ Accept(f)

Spec == Init /\ [][Next]_vars

-----------------------------------------------------------------------------
(* Properties *)

TypeOK ==
  /\ Len(ch) <= channelSize
  /\ caller \in [Callbacks -> {"new", "blocked", "returned"}]
  /\ loop \in {"select", "run", "done"}

\* Callbacks are executed in the order the channel took them, each once, and what was
\* taken and not executed is in the channel.
InOrder == executed \o ch = accepted /\ IsInjective(accepted)

\* A callback that is scheduled is executed, unless the context ends; then the loop
\* ends, and whoever finds the channel full waits for ever.
Executes ==
  \A f \in Callbacks : caller[f] # "new" ~> f \in Range(executed) \/ loop = "done"
LoopQuits == cancelled ~> loop = "done"
==============================================================================
