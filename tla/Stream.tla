------------------------------- MODULE Stream -------------------------------
(***************************************************************************)
(* What the pipe promises its users, with no buffers, signals or waiting:  *)
(* a stream that is written at its end and read from its start, in order,  *)
(* until it is closed, which leaves the rest readable, or interrupted,     *)
(* which does not; the end is announced only when everything was read.     *)
(***************************************************************************)
EXTENDS Integers, Sequences

VARIABLES
  written,  \* all that was ever written
  read,     \* all that was ever read
  status,   \* open, closed or errord
  eof       \* has a reader been told that the stream has ended?

vars == <<written, read, status, eof>>

Init == written = << >> /\ read = << >> /\ status = "open" /\ eof = FALSE

\* More is written, behind what is there.
Write ==
  /\ status = "open"
  /\ Len(written') > Len(written)
  /\ \A i \in 1 .. Len(written) : written'[i] = written[i]
  /\ UNCHANGED <<read, status, eof>>

\* All that was written and not yet read is read.
Read ==
  /\ status # "errord"
  /\ read # written
  /\ read' = written
  /\ UNCHANGED <<written, status, eof>>

End ==
  /\ status = "open"
  /\ status' \in {"closed", "errord"}
  /\ UNCHANGED <<written, read, eof>>

AnnounceEnd ==
  /\ status = "closed"
  /\ read = written
  /\ eof' = TRUE
  /\ UNCHANGED <<written, read, status>>

Next == Write \/ Read \/ End \/ AnnounceEnd

Spec == Init /\ [][Next]_vars
=============================================================================
