------------------------------ MODULE Unbounded ------------------------------
(***************************************************************************)
(* The unbounded buffer of buffer/unbounded.go: a channel c of capacity    *)
(* one from which consumers receive, and a backlog behind it.  Put, Load   *)
(* and Close are one critical section of the buffer's mutex each; a        *)
(* receive from c takes no lock, and a consumer owes the buffer a Load for *)
(* every value it received.                                                *)
(***************************************************************************)
EXTENDS Naturals, Sequences

CONSTANTS
  Values,     \* what producers put into the buffer
  Consumers,  \* goroutines that receive from Get()
  MaxPuts     \* bound: the number of values put in all

VARIABLES
  c,        \* the values the channel holds, at most one
  closes,   \* how often close(c) was executed; the second time panics
  closed,
  closing,
  backlog,
  owes,     \* the consumers that have received a value and not called Load yet
  put,      \* history: the values Put accepted
  got       \* history: the values received from c

bufVars == <<c, closes, closed, closing, backlog, owes, put, got>>

\* NewUnbounded.
Init ==
  /\ c = << >>
  /\ closes = 0
  /\ closed = FALSE
  /\ closing = FALSE
  /\ backlog = << >>
  /\ owes = {}
  /\ put = << >>
  /\ got = << >>

\* Mutant of Put: it tries the channel although there is a backlog.
PutPastBacklog(t) ==
  /\ ~ closing
  /\ Len(put) < MaxPuts
  /\ IF c = << >>
       THEN c' = <<t>> /\ UNCHANGED backlog
       ELSE backlog' = Append(backlog, t) /\ UNCHANGED c
  /\ put' = Append(put, t)
  /\ UNCHANGED <<closes, closed, closing, owes, got>>

\* Put on a buffer that is not closing: t goes to the channel when nothing is
\* before it, behind the backlog otherwise.
Put(t) ==
  /\ ~ closing
  /\ Len(put) < MaxPuts
  /\ IF backlog = << >> /\ c = << >>
       THEN c' = <<t>> /\ UNCHANGED backlog
       ELSE backlog' = Append(backlog, t) /\ UNCHANGED c
  /\ put' = Append(put, t)
  /\ UNCHANGED <<closes, closed, closing, owes, got>>

\* A receive from the channel Get returns.
Receive(k) ==
  /\ k \notin owes
  /\ c # << >>
  /\ got' = got \o c
  /\ c' = << >>
  /\ owes' = owes \cup {k}
  /\ UNCHANGED <<closes, closed, closing, backlog, put>>

\* Mutant of Load: it never closes the channel.
LoadWithoutClose(k) ==
  /\ k \in owes
  /\ owes' = owes \ {k}
  /\ IF c = << >> /\ backlog # << >>
       THEN c' = <<Head(backlog)>> /\ backlog' = Tail(backlog)
       ELSE UNCHANGED <<c, backlog>>
  /\ UNCHANGED <<closes, closed, closing, put, got>>

\* Load: the head of the backlog moves to the channel if there is room; with no
\* backlog a closing buffer closes the channel, and closed stays as it is.
Load(k) ==
  /\ k \in owes
  /\ owes' = owes \ {k}
  /\ IF backlog # << >>
       THEN /\ IF c = << >>
                 THEN c' = <<Head(backlog)>> /\ backlog' = Tail(backlog)
                 ELSE UNCHANGED <<c, backlog>>
            /\ UNCHANGED closes
       ELSE /\ closes' = IF closing /\ ~ closed THEN closes + 1 ELSE closes
            /\ UNCHANGED <<c, backlog>>
  /\ UNCHANGED <<closed, closing, put, got>>

\* Close: with no backlog the channel is closed at once, and what it holds can
\* still be received; otherwise it is left to Load.
Close ==
  /\ ~ closing
  /\ closing' = TRUE
  /\ IF backlog = << >>
       THEN closed' = TRUE /\ closes' = closes + 1
       ELSE UNCHANGED <<closed, closes>>
  /\ UNCHANGED <<c, backlog, owes, put, got>>

Next ==
  \/ \E t \in Values : Put(t)
  \/ \E k \in Consumers : Receive(k) \/ Load(k)
  \/ Close

Spec == Init /\ [][Next]_bufVars

-----------------------------------------------------------------------------
(* Properties *)

TypeOK ==
  /\ c \in Seq(Values) /\ Len(c) <= 1
  /\ closes \in Nat
  /\ closed \in BOOLEAN
  /\ closing \in BOOLEAN
  /\ backlog \in Seq(Values)
  /\ owes \subseteq Consumers
  /\ put \in Seq(Values)
  /\ got \in Seq(Values)

\* Values are received in the order in which Put accepted them, none lost and
\* none twice: what was put is what was received, then the channel, then the
\* backlog.
Fifo == put = got \o c \o backlog

\* A value in the backlog is never stranded: the channel ahead of it is full, or
\* a consumer has received from it and will Load.
NoStrandedBacklog == backlog # << >> => c # << >> \/ owes # {}

\* Nothing is sent on a closed channel: when c is closed, no Put is accepted any
\* more and no backlog is left for Load to send.
NothingAfterClose == closes > 0 => closing /\ backlog = << >>

\* c is closed at most once: Close closes it, or the Load that finds the backlog
\* of a closing buffer empty; a second close(c) would panic.  Load does not set
\* closed, so with several consumers this does not hold.
ClosedOnce == closes <= 1

\* A closing buffer always gets its channel closed: until then there is something
\* to receive or a consumer about to call Load.
CloseIsComing == closing /\ closes = 0 => c # << >> \/ owes # {}
=============================================================================
