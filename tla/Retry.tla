-------------------------------- MODULE Retry --------------------------------
(***************************************************************************)
(* retry/retry.go with errors/multierr.go: a Strategy whose On is called   *)
(* once or more often.  The delays of ExponentialBackoff are the state of  *)
(* the strategy and go on from one call of On to the next.                 *)
(***************************************************************************)
EXTENDS Naturals, Sequences, SequencesExt

CONSTANTS
  Attempts,   \* the values of totalAttempt
  Delay,      \* the delay the strategy is made with
  Modulus,    \* delays are uint32: numbers modulo 2^32, here modulo Modulus
  MaxOns      \* bound: calls of On

VARIABLES
  kind, totalAttempt,  \* the strategy
  nextDelay,           \* the variable of ExponentialBackoff's closure
  pc,                  \* On: "idle", "loop", "sleep"
  attempt, accumulatedErrors,
  given,               \* history: what method returned in this On
  slept,               \* history: the delays of all calls of On
  returned,            \* what the last On returned: "nothing", "nil", "failed"
  ons

vars == <<kind, totalAttempt, nextDelay, pc, attempt, accumulatedErrors, given, slept,
          returned, ons>>

\* An error is what Error() says and the one it is.
Errors == [text : {"x", "y"}, id : 1 .. 2]

Init ==
  /\ kind \in {"Timed", "ExponentialBackoff"} /\ totalAttempt \in Attempts
  /\ nextDelay = 0
  /\ pc = "idle" /\ attempt = 0
  /\ accumulatedErrors = << >> /\ given = << >> /\ slept = << >>
  /\ returned = "nothing" /\ ons = 0

On ==
  /\ pc = "idle" /\ ons < MaxOns
  /\ ons' = ons + 1
  /\ pc' = "loop" /\ attempt' = 0
  /\ accumulatedErrors' = << >> /\ given' = << >> /\ returned' = "nothing"
  /\ UNCHANGED <<kind, totalAttempt, nextDelay, slept>>

Return(r) == pc' = "idle" /\ returned' = r

\* Mutant of Accumulated: an error is left out if it was ever seen before.
AccumulatedOnce(err) ==
  IF \E e \in Range(accumulatedErrors) : e.text = err.text THEN accumulatedErrors
  ELSE Append(accumulatedErrors, err)

\* An error that says the same as the one before it is left out.
Accumulated(err) ==
  IF accumulatedErrors # << >> /\ Last(accumulatedErrors).text = err.text
  THEN accumulatedErrors
  ELSE Append(accumulatedErrors, err)

\* One call of method, or the end of the attempts.
Attempt ==
  /\ pc = "loop"
  /\ \/ attempt < totalAttempt /\ Return("nil") /\ UNCHANGED <<accumulatedErrors, given>>
     \/ /\ attempt < totalAttempt
        /\ \E err \in Errors : /\ accumulatedErrors' = Accumulated(err)
                               /\ given' = Append(given, err)
        /\ pc' = "sleep" /\ UNCHANGED returned
     \/ attempt = totalAttempt /\ Return("failed") /\ UNCHANGED <<accumulatedErrors, given>>
  /\ UNCHANGED <<kind, totalAttempt, nextDelay, attempt, slept, ons>>

\* Timed: the delay; ExponentialBackoff: 0, delay, 2 * delay ...
Timed == slept' = Append(slept, Delay) /\ UNCHANGED nextDelay
ExponentialBackoff ==
  /\ slept' = Append(slept, nextDelay)
  /\ nextDelay' = (nextDelay + Delay) % Modulus

Sleep ==
  /\ pc = "sleep"
  /\ IF kind = "Timed" THEN Timed ELSE ExponentialBackoff
  /\ attempt' = attempt + 1
  /\ pc' = "loop"
  /\ UNCHANGED <<kind, totalAttempt, accumulatedErrors, given, returned, ons>>

Next == On \/ Attempt \/ Sleep

Spec == Init /\ [][Next]_vars

\* multiErr.Unwrap, for Cause: the last of the errors that were kept.
Unwrap == Last(accumulatedErrors)

-----------------------------------------------------------------------------
(* Properties *)

TypeOK ==
  /\ pc \in {"idle", "loop", "sleep"}
  /\ attempt \in 0 .. totalAttempt
  /\ nextDelay \in 0 .. Modulus - 1

\* On fails only when every attempt did, and then the cause that errors.Cause finds says
\* what the last attempt said, and its error is one that some attempt gave; otherwise
\* the attempts end with the first that passes.  The delays go on over all calls, and
\* wrap around.
GivesUpLate ==
  /\ returned = "failed" =>
       /\ Len(given) = totalAttempt
       /\ given # << >> => /\ Unwrap.text = Last(given).text
                           /\ Unwrap \in Range(given)
  /\ returned = "nil" => Len(given) = attempt /\ attempt < totalAttempt
  /\ kind = "ExponentialBackoff" =>
       \A k \in DOMAIN slept : slept[k] = ((k - 1) * Delay) % Modulus
==============================================================================
