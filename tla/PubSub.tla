------------------------------- MODULE PubSub --------------------------------
(***************************************************************************)
(* signal/pubsub/pubsub.go, for one topic.  Subscribe adds a subscriber in *)
(* one critical section and then starts the cleanup task, a Periodic whose *)
(* Execute is Cleanup; Publish pushes a message to one subscriber after    *)
(* another while it holds the read lock, which keeps Subscribe and Cleanup *)
(* out; push drops a message when the subscriber's channel is full.        *)
(***************************************************************************)
EXTENDS Naturals, Sequences, SequencesExt

CONSTANTS
  Subs,         \* the callers of Subscribe, each with its Subscriber
  Cleaners,     \* the goroutines in which the timers of the cleanup task go off
  Timers,
  Publishers,   \* each publishes its messages one after the other
  Cap,          \* the capacity of a subscriber's channel, 16 in the code
  MaxMessages   \* bound: messages of each publisher

VARIABLES
  subs,      \* s.subs of the topic, a sequence of subscribers
  spc,       \* where each caller of Subscribe is
  buffer,    \* the channel of each subscriber
  done,      \* the subscribers that were closed
  got,       \* history: the messages each subscriber received
  full,      \* history: the messages that each subscriber's full channel dropped
  sending,   \* the subscribers that each publisher has yet to push to, or << >>
  owed,      \* history: the messages published while each subscriber was there
  sent,      \* how many messages each publisher has published
  locked,    \* the publishers that hold the read lock
  restart, running, timer, armed, pc, role, failures, closes   \* s.ctask

taskVars == <<restart, running, timer, armed, pc, role, failures, closes>>
subVars == <<subs, spc, done>>
pubVars == <<sending, owed, sent, locked>>
chanVars == <<buffer, got, full>>
vars == <<taskVars, subVars, pubVars, chanVars>>

ctask == INSTANCE Periodic WITH Threads <- Subs \cup Cleaners, MaxCloses <- 0,
           MaxFailures <- 2, closeCalls <- closes

Message == Publishers \X (1 .. MaxMessages)

Init ==
  /\ ctask!PeriodicInit /\ restart = FALSE
  /\ subs = << >>
  /\ spc = [s \in Subs |-> "new"]
  /\ done = {}
  /\ buffer = [s \in Subs |-> << >>]
  /\ got = [s \in Subs |-> << >>]
  /\ full = [s \in Subs |-> {}]
  /\ sending = [p \in Publishers |-> << >>]
  /\ owed = [s \in Subs |-> {}]
  /\ sent = [p \in Publishers |-> 0]
  /\ locked = {}

-----------------------------------------------------------------------------
(* Subscribe, Close and Cleanup *)

SubscribeAdd(s) ==
  /\ spc[s] = "new"
  /\ locked = {}
  /\ subs' = Append(subs, s)
  /\ spc' = [spc EXCEPT ![s] = "added"]
  /\ UNCHANGED <<taskVars, done, pubVars, chanVars>>

\* s.ctask.Start() returns at once when the task runs, or executes it.
SubscribeStart(s) ==
  /\ spc[s] = "added"
  /\ \/ running /\ spc' = [spc EXCEPT ![s] = "returned"] /\ UNCHANGED taskVars
     \/ ctask!Start(s) /\ spc' = [spc EXCEPT ![s] = "starting"]
  /\ UNCHANGED <<subs, done, pubVars, chanVars>>

\* Start has returned; Subscribe panics on its error.
SubscribeReturn(s) ==
  /\ spc[s] = "starting"
  /\ pc[s] = "idle"
  /\ spc' = [spc EXCEPT ![s] = "returned"]
  /\ UNCHANGED <<taskVars, subs, done, pubVars, chanVars>>

CloseSub(s) ==
  /\ spc[s] = "returned"
  /\ s \notin done
  /\ done' = done \cup {s}
  /\ UNCHANGED <<taskVars, subs, spc, pubVars, chanVars>>

Open(s) == s \notin done

\* Mutant of Cleanup: the test for a closed subscriber is the wrong way round.
CleanupOpen(p) ==
  /\ pc[p] = "execute"
  /\ locked = {}
  /\ subs' = SelectSeq(subs, LAMBDA s : ~ Open(s))
  /\ IF subs = << >> THEN ctask!ExecuteFails(p) ELSE ctask!ExecuteSucceeds(p)
  /\ UNCHANGED <<spc, done, pubVars, chanVars>>

\* The execution of the task: an error if there is no subscriber at all.
Cleanup(p) ==
  /\ pc[p] = "execute"
  /\ locked = {}
  /\ subs' = SelectSeq(subs, Open)
  /\ IF subs = << >> THEN ctask!ExecuteFails(p) ELSE ctask!ExecuteSucceeds(p)
  /\ UNCHANGED <<spc, done, pubVars, chanVars>>

\* The rest of the task: timers, and checkedExecute around Cleanup.
TaskStep ==
  /\ \/ \E p \in Cleaners : ctask!Fire(p)
     \/ \E p \in Subs \cup Cleaners : ctask!hasClosed(p) \/ ctask!StopFailed(p) \/ ctask!Arm(p)
  /\ UNCHANGED <<subVars, pubVars, chanVars>>

-----------------------------------------------------------------------------
(* Publish and the subscribers' receives *)

Publish(p) ==
  /\ p \notin locked
  /\ sent[p] < MaxMessages
  /\ locked' = locked \cup {p}
  /\ sending' = [sending EXCEPT ![p] = subs]
  /\ sent' = [sent EXCEPT ![p] = @ + 1]
  /\ owed' = [s \in Subs |->
       IF spc[s] = "returned" /\ Open(s) THEN owed[s] \cup {<<p, sent'[p]>>} ELSE owed[s]]
  /\ UNCHANGED <<taskVars, subVars, chanVars>>

\* Mutant of Push: the oldest message makes room for the new one.
PushOverwrites(p) ==
  /\ p \in locked
  /\ sending[p] # << >>
  /\ LET s == Head(sending[p])
         m == <<p, sent[p]>>
     IN  /\ buffer' = [buffer EXCEPT ![s] = IF ~ Open(s) THEN @
                         ELSE Append(IF Len(@) < Cap THEN @ ELSE Tail(@), m)]
  /\ sending' = [sending EXCEPT ![p] = Tail(@)]
  /\ UNCHANGED <<taskVars, subVars, sent, owed, locked, got, full>>

\* The next subscriber: a closed one is passed over, and push drops the message if
\* the channel is full.  A Close between the test and the push lets one message
\* into a channel that nobody reads any more, which no property tells apart.
Push(p) ==
  /\ p \in locked
  /\ sending[p] # << >>
  /\ LET s == Head(sending[p])
         m == <<p, sent[p]>>
         room == Len(buffer[s]) < Cap
     IN  /\ buffer' = [buffer EXCEPT ![s] = IF Open(s) /\ room THEN Append(@, m) ELSE @]
         /\ full' = [full EXCEPT ![s] = IF Open(s) /\ ~ room THEN @ \cup {m} ELSE @]
  /\ sending' = [sending EXCEPT ![p] = Tail(@)]
  /\ UNCHANGED <<taskVars, subVars, sent, owed, locked, got>>

PublishEnd(p) ==
  /\ p \in locked
  /\ sending[p] = << >>
  /\ locked' = locked \ {p}
  /\ UNCHANGED <<taskVars, subVars, sending, owed, sent, chanVars>>

Receive(s) ==
  /\ buffer[s] # << >>
  /\ got' = [got EXCEPT ![s] = Append(@, Head(buffer[s]))]
  /\ buffer' = [buffer EXCEPT ![s] = Tail(@)]
  /\ UNCHANGED <<taskVars, subVars, pubVars, full>>

Next ==
  \/ \E s \in Subs :
       SubscribeAdd(s) \/ SubscribeStart(s) \/ SubscribeReturn(s) \/ CloseSub(s) \/ Receive(s)
  \/ \E p \in Subs \cup Cleaners : Cleanup(p)
  \/ TaskStep
  \/ \E p \in Publishers : Publish(p) \/ Push(p) \/ PublishEnd(p)

Spec == Init /\ [][Next]_vars

-----------------------------------------------------------------------------
(* Properties *)

TypeOK ==
  /\ ctask!PeriodicTypeOK
  /\ subs \in Seq(Subs) /\ done \subseteq Subs
  /\ spc \in [Subs -> {"new", "added", "starting", "returned"}]
  /\ \A s \in Subs : buffer[s] \in Seq(Message) /\ Len(buffer[s]) <= Cap
  /\ sent \in [Publishers -> 0 .. MaxMessages]
  /\ locked \subseteq Publishers

\* Subscribe never panics: the Cleanup that its Start executes finds at least the
\* subscriber that was just added, whatever timers of the task do in between.
SubscribeSucceeds ==
  \A s \in Subs : spc[s] = "starting" => pc[s] \notin {"failed", "failed again"}

\* A subscriber that was there when Publish was called gets the message, unless its
\* channel was full or it was closed: Publish, Subscribe and Cleanup lose nobody.
Reached ==
  \A s \in Subs \ done : \A m \in owed[s] :
    \/ m \in Range(got[s] \o buffer[s]) \cup full[s]
    \/ m[1] \in locked /\ m[2] = sent[m[1]] /\ s \in Range(sending[m[1]])

\* It gets the messages of one publisher in the order of their Publish, and none twice.
InOrder ==
  \A s \in Subs, p \in Publishers :
    LET mine == SelectSeq(got[s] \o buffer[s], LAMBDA m : m[1] = p)
    IN  \A i, j \in 1 .. Len(mine) : i < j => mine[i][2] < mine[j][2]

\* Both: what is published reaches the subscribers it is for, in order and once.
Delivered == TypeOK /\ Reached /\ InOrder
==============================================================================
