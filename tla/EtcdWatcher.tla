----------------------------- MODULE EtcdWatcher -----------------------------
(***************************************************************************)
(* cmd/internal/discovery/etcd: DiscoverETCD with a watch.  It gets the    *)
(* endpoints under the service's prefix, starts a watch behind the         *)
(* revision it got, and a goroutine, watching, applies the events and logs *)
(* the endpoints of the wanted group.  The store is the log of changes     *)
(* under the prefix; what writes to it and how watches end is external.    *)
(* An endpoint is its address, a value is its group, or Bad when it cannot *)
(* be decoded.                                                             *)
(***************************************************************************)
EXTENDS Naturals, Sequences, FiniteSetsExt

CONSTANTS
  Addresses,
  Groups,     \* the groups other than DefaultGroup
  Wanted,     \* the groups to discover, one in each behaviour
  Garbage,    \* {Bad} where undecodable values are written, else {}
  MaxLog,     \* bound: changes of the store
  MaxCloses   \* bound: watch channels closed by the server or the client

VARIABLES
  wanted,     \* the group to discover
  log,        \* external: the changes of the store, a revision each
  main,       \* where DiscoverETCD is
  pc,         \* where watching is
  rev,        \* d.rev: the revision Get returned
  endpoints,  \* w.endpoints: address -> group
  pos,        \* external: the last change the watch has delivered or passed over
  open,       \* external: is the channel w.wch open?
  from,       \* history: the change after which the current watch started
  shown,      \* the endpoints logUpdate logged last
  ctxDone,    \* is the context of DiscoverETCD cancelled?
  stopped,    \* was the watcher closed?
  closes      \* history: the channels closed so far

vars == <<wanted, log, main, pc, rev, endpoints, pos, open, from, shown, ctxDone, stopped, closes>>

Default == "default"
Bad == "bad"
Absent == "absent"

Values == Groups \cup {Default, Absent} \cup Garbage

\* The value of the address in the store after the first r changes.
At(a, r) ==
  LET Changes == {i \in 1 .. r : log[i].address = a}
  IN  IF Changes = {} THEN Absent ELSE log[Max(Changes)].value

\* etcdInstancesToEndpoints skips what cannot be decoded.
Instances(r) ==
  [a \in Addresses |-> IF At(a, r) = Bad THEN Absent ELSE At(a, r)]

\* The addresses of the wanted group, or those of the default group if there is
\* none.  No endpoint of the default group counts as one of the wanted group.
FilterOrDefault(eps) ==
  LET Group(g) == {a \in Addresses : eps[a] = g}
  IN  IF wanted # Default /\ Group(wanted) # {} THEN Group(wanted) ELSE Group(Default)

Init ==
  /\ wanted \in Wanted
  /\ log = << >>
  /\ main = "get"
  /\ pc = "off"
  /\ rev = 0
  /\ endpoints = [a \in Addresses |-> Absent]
  /\ pos = 0
  /\ open = FALSE
  /\ from = 0
  /\ shown = {}
  /\ ctxDone = FALSE
  /\ stopped = FALSE
  /\ closes = 0

-----------------------------------------------------------------------------
(* The store and the context *)

\* Some client puts or deletes an instance key; deleting what is absent is no change.
Change(a, v) ==
  /\ Len(log) < MaxLog
  /\ v # Absent \/ At(a, Len(log)) # Absent
  /\ log' = Append(log, [address |-> a, value |-> v])
  /\ UNCHANGED <<wanted, main, pc, rev, endpoints, pos, open, from, shown, ctxDone, stopped, closes>>

\* The watch is cancelled, by the server or by a closed watcher: its channel closes.
CloseWatch ==
  /\ open
  /\ \/ stopped /\ UNCHANGED closes
     \/ ~ stopped /\ closes < MaxCloses /\ closes' = closes + 1
  /\ open' = FALSE
  /\ UNCHANGED <<wanted, log, main, pc, rev, endpoints, pos, from, shown, ctxDone, stopped>>

Cancel ==
  /\ ~ ctxDone
  /\ ctxDone' = TRUE
  /\ UNCHANGED <<wanted, log, main, pc, rev, endpoints, pos, open, from, shown, stopped, closes>>

-----------------------------------------------------------------------------
(* DiscoverETCD *)

\* Watch's Get.  Its endpoints, already filtered, are logged first.
Get ==
  /\ main = "get"
  /\ rev' = Len(log)
  /\ endpoints' = [a \in Addresses |->
       IF a \in FilterOrDefault(Instances(rev')) THEN Instances(rev')[a] ELSE Absent]
  /\ shown' = FilterOrDefault(Instances(rev'))
  /\ main' = "watch"
  /\ UNCHANGED <<wanted, log, pc, pos, open, from, ctxDone, stopped, closes>>

GetFails ==
  /\ main = "get"
  /\ main' = "done"
  /\ UNCHANGED <<wanted, log, pc, rev, endpoints, pos, open, from, shown, ctxDone, stopped, closes>>

\* Mutant of NewWatcher: the watch starts at the current revision.
NewWatcherNow ==
  /\ main = "watch"
  /\ pos' = Len(log)
  /\ from' = Len(log)
  /\ open' = TRUE
  /\ main' = "wait"
  /\ pc' = "top"
  /\ UNCHANGED <<wanted, log, rev, endpoints, shown, ctxDone, stopped, closes>>

\* newWatcher watches WithRev(rev+1), the revision being positive in etcd, and
\* DiscoverETCD starts watching.
NewWatcher ==
  /\ main = "watch"
  /\ pos' = rev
  /\ from' = rev
  /\ open' = TRUE
  /\ main' = "wait"
  /\ pc' = "top"
  /\ UNCHANGED <<wanted, log, rev, endpoints, shown, ctxDone, stopped, closes>>

\* Mutant of CloseWatcher: DiscoverETCD returns without closing the watcher.
LeaveWatcher ==
  /\ main = "wait"
  /\ ctxDone
  /\ main' = "done"
  /\ UNCHANGED <<wanted, log, pc, rev, endpoints, pos, open, from, shown, ctxDone, stopped, closes>>

\* <-ctx.Done(), then watcher.Close() and the return.
CloseWatcher ==
  /\ main = "wait"
  /\ ctxDone
  /\ stopped' = TRUE
  /\ main' = "done"
  /\ UNCHANGED <<wanted, log, pc, rev, endpoints, pos, open, from, shown, ctxDone, closes>>

-----------------------------------------------------------------------------
(* watching, and Next *)

\* The select at the top of the loop of watching.
Top ==
  /\ pc = "top"
  /\ pc' = IF ctxDone THEN "done" ELSE "next"
  /\ UNCHANGED <<wanted, log, main, rev, endpoints, pos, open, from, shown, ctxDone, stopped, closes>>

\* The events of a response that Next applies.
Applied(m) == {i \in pos + 1 .. m : log[i].value # Bad}

\* Next receives the changes up to m in one response and applies them in order.
\* It returns, and watching logs the endpoints, if one of them was applied.
Receive(m) ==
  /\ pc = "next"
  /\ open
  /\ endpoints' = [a \in Addresses |->
       LET Mine == {i \in Applied(m) : log[i].address = a}
       IN  IF Mine = {} THEN endpoints[a] ELSE log[Max(Mine)].value]
  /\ pos' = m
  /\ IF Applied(m) # {} THEN shown' = FilterOrDefault(endpoints') /\ pc' = "top"
                        ELSE UNCHANGED <<shown, pc>>
  /\ UNCHANGED <<wanted, log, main, rev, open, from, ctxDone, stopped, closes>>

\* Mutant of WatchAgain: the closed channel is kept.
WatchNotAgain ==
  /\ pc = "next"
  /\ ~ open
  /\ pc' = "sleep"
  /\ UNCHANGED <<wanted, log, main, rev, endpoints, pos, open, from, shown, ctxDone, stopped, closes>>

\* Next finds the channel closed: it watches again, from the current revision, and
\* returns an error.  What changed since the last delivery is passed over.  The channel
\* of a closed watcher's Watch is closed.
WatchAgain ==
  /\ pc = "next"
  /\ ~ open
  /\ pos' = Len(log)
  /\ from' = Len(log)
  /\ open' = ~ stopped
  /\ pc' = "sleep"
  /\ UNCHANGED <<wanted, log, main, rev, endpoints, shown, ctxDone, stopped, closes>>

\* Next finds the watcher closed and returns an error.
NextDone ==
  /\ pc = "next"
  /\ stopped
  /\ pc' = "sleep"
  /\ UNCHANGED <<wanted, log, main, rev, endpoints, pos, open, from, shown, ctxDone, stopped, closes>>

Sleep ==
  /\ pc = "sleep"
  /\ pc' = "top"
  /\ UNCHANGED <<wanted, log, main, rev, endpoints, pos, open, from, shown, ctxDone, stopped, closes>>

-----------------------------------------------------------------------------
Main == Get \/ GetFails \/ NewWatcher \/ CloseWatcher
Receives == \E m \in pos + 1 .. Len(log) : Receive(m)
Watching == Top \/ Receives \/ WatchAgain \/ NextDone \/ Sleep

Next ==
  \/ \E a \in Addresses, v \in Values : Change(a, v)
  \/ CloseWatch
  \/ Cancel
  \/ Main
  \/ Watching

Spec == Init /\ [][Next]_vars

\* Both goroutines run.
FairSpec == Spec /\ WF_vars(Main) /\ WF_vars(Watching)

-----------------------------------------------------------------------------
(* Properties *)

TypeOK ==
  /\ wanted \in Wanted
  /\ log \in Seq([address : Addresses, value : Values])
  /\ Len(log) <= MaxLog
  /\ main \in {"get", "watch", "wait", "done"}
  /\ pc \in {"off", "top", "next", "sleep", "done"}
  /\ endpoints \in [Addresses -> Groups \cup {Default, Absent}]
  /\ rev \in 0 .. Len(log) /\ from \in 0 .. pos /\ pos \in 0 .. Len(log)
  /\ {open, ctxDone, stopped} \subseteq BOOLEAN
  /\ shown \subseteq Addresses
  /\ closes \in 0 .. MaxCloses

\* For an address that changed since the watch started, w.endpoints is what the
\* last decodable change that was delivered says, however the changes were cut
\* into responses: Next applies the events in order and skips none.
Tracks ==
  \A a \in Addresses :
    LET Delivered == {i \in from + 1 .. pos : log[i].address = a /\ log[i].value # Bad}
    IN  Delivered # {} => endpoints[a] = log[Max(Delivered)].value

\* DiscoverETCD's comment: it "fetches the current set of endpoints" and
\* "subscribes to changes", "logging incremental updates".  When the watch has
\* delivered every change, the endpoints logged last are those that a Get would
\* return, provided that the default group is wanted (Get has dropped the others,
\* which the fallback would need), that no watch was closed (the next one passes
\* over changes) and that nothing undecodable was written (Next leaves the old value).
Current ==
  /\ wanted = Default
  /\ closes = 0
  /\ \A i \in 1 .. Len(log) : log[i].value # Bad
  /\ pc \in {"top", "next"} /\ open /\ pos = Len(log)
  => shown = FilterOrDefault(Instances(Len(log)))

\* The endpoints that the watcher keeps and logs are right.
ListIsRight == TypeOK /\ Tracks /\ Current

\* Once the context is cancelled, watching comes to its end, wherever it is: the
\* watcher is closed and Next does not block for ever.
WatchingEnds == ctxDone /\ pc # "off" ~> pc = "done"

\* Until the context is cancelled, a watch delivers the changes that are made while its
\* channel is open, unless the channel is closed before; and a closed channel is replaced.
\* Of the changes in between nothing is said: the new watch passes over them, as its Watch
\* names no revision.
Delivers ==
  /\ \A n \in 1 .. MaxLog :
       (open /\ pos < n /\ n <= Len(log)) ~> (pos >= n \/ ~ open \/ ctxDone)
  /\ (pc # "off" /\ ~ open) ~> (open \/ ctxDone)

\* Both: the watch delivers until it is cancelled, but for the changes made while its
\* channel is closed, and then ends.
WatchProgresses == Delivers /\ WatchingEnds
==============================================================================
