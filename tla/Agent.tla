-------------------------------- MODULE Agent --------------------------------
(***************************************************************************)
(* The agent of snippets/soundness: it watches a status file, sends its    *)
(* content to a collector whenever it changes and a heartbeat in between.  *)
(* Another program writes the file in two steps, removes it and makes it   *)
(* anew.  The event loop of Start and the goroutines that wait for the     *)
(* file to exist share the watcher and a mutex.                            *)
(***************************************************************************)
EXTENDS Naturals, Sequences

CONSTANTS
  Watchers,     \* goroutines in watchStatusFile, at most
  MaxChanges    \* bound: changes of the file

Main == "main"
NoOne == "no one"
Goroutines == Watchers \cup {Main}

VARIABLES
  file,       \* the status file: exists, whole, which version, which inode
  changes,    \* changes so far
  watched,    \* the inode the watcher was given, 0 for none
  events,     \* watcher.Events
  pc,         \* g -> where it is
  content,    \* g -> what loadAndSendJSON has read, 0 for part of a file
  mutex,      \* fileLock
  running,    \* ctx is not done
  collected,  \* history: the last version the collector has, 0 for none
  late,       \* versions whose POST was given up, and may still be on its way
  failed,     \* history: the POST of the present version has failed, or an older came later
  lost        \* history: a file was there for Stat and gone for Add

agentVars == <<file, changes, watched, events, pc, content, mutex, running, collected, late,
              failed, lost>>
diskVars == <<file, changes>>

AgentTypeOK ==
  /\ file \in [exists : BOOLEAN, whole : BOOLEAN, ver : 0 .. MaxChanges, ino : 0 .. MaxChanges]
  /\ watched \in 0 .. MaxChanges
  /\ events \in Seq({"write", "remove"})
  /\ pc[Main] \in {"select", "wait", "lock", "post", "beat", "done"}
  /\ \A w \in Watchers : pc[w] \in {"off", "stat", "add", "lock", "post"}
  /\ content \in [Goroutines -> 0 .. MaxChanges]
  /\ mutex \in Goroutines \cup {NoOne}
  /\ collected \in 0 .. MaxChanges /\ late \subseteq 1 .. MaxChanges
  /\ {running, failed, lost} \subseteq BOOLEAN

\* Start has made the watcher and started the first goroutine.
AgentInit ==
  /\ file = [exists |-> FALSE, whole |-> FALSE, ver |-> 0, ino |-> 0]
  /\ changes = 0 /\ watched = 0 /\ events = << >>
  /\ \E w \in Watchers :
       pc = [g \in Goroutines |-> IF g = Main THEN "select" ELSE IF g = w THEN "stat" ELSE "off"]
  /\ content = [g \in Goroutines |-> 0]
  /\ mutex = NoOne /\ running = TRUE
  /\ collected = 0 /\ late = {} /\ failed = FALSE /\ lost = FALSE

-----------------------------------------------------------------------------
(* The other program, and fsnotify, which tells of a file that is watched *)

Notify(e) == events' = IF watched # 0 /\ watched = file.ino THEN Append(events, e) ELSE events

Change ==
  /\ changes < MaxChanges /\ running
  /\ changes' = changes + 1
  /\ \/ /\ ~file.exists
        /\ file' = [exists |-> TRUE, whole |-> FALSE, ver |-> changes + 1, ino |-> changes + 1]
        /\ UNCHANGED <<events, watched>>
     \/ /\ file.exists /\ file.whole
        /\ file' = [file EXCEPT !.whole = FALSE, !.ver = changes + 1]
        /\ Notify("write") /\ UNCHANGED watched
     \/ /\ file.exists /\ file.whole
        /\ file' = [file EXCEPT !.exists = FALSE]
        /\ Notify("remove") /\ watched' = IF watched = file.ino THEN 0 ELSE watched
  /\ failed' = FALSE
  /\ UNCHANGED <<pc, content, mutex, running, collected, late, lost>>

\* The writer finishes, and gives up its lock on the file.
WriteRest ==
  /\ file.exists /\ ~file.whole
  /\ file' = [file EXCEPT !.whole = TRUE]
  /\ Notify("write")
  /\ UNCHANGED <<changes, watched, pc, content, mutex, running, collected, late, failed, lost>>

StopAgent ==
  /\ running /\ running' = FALSE
  /\ UNCHANGED <<diskVars, watched, events, pc, content, mutex, collected, late, failed, lost>>

-----------------------------------------------------------------------------
(* Start *)

Go(g, p) == pc' = [pc EXCEPT ![g] = p]

\* Mutant of Event: nothing waits for a file that was removed.
EventWriteOnly ==
  /\ pc[Main] = "select" /\ events # << >>
  /\ events' = Tail(events)
  /\ IF Head(events) = "write" THEN Go(Main, "wait") ELSE UNCHANGED pc
  /\ UNCHANGED <<diskVars, watched, content, mutex, running, collected, late, failed, lost>>

\* The event loop takes an event: after a write it waits and sends, after a removal it
\* has a goroutine wait for the file.
Event ==
  /\ pc[Main] = "select" /\ events # << >>
  /\ events' = Tail(events)
  /\ \/ Head(events) = "write" /\ Go(Main, "wait")
     \/ /\ Head(events) = "remove"
        /\ \E w \in Watchers : pc[w] = "off" /\ Go(w, "stat")
  /\ UNCHANGED <<diskVars, watched, content, mutex, running, collected, late, failed, lost>>

\* The ticker: sendHeartbeat, which keeps the loop for up to ten seconds.
sendHeartbeat ==
  /\ pc[Main] \in {"select", "beat"} /\ running
  /\ Go(Main, IF pc[Main] = "select" THEN "beat" ELSE "select")
  /\ UNCHANGED <<diskVars, watched, events, content, mutex, running, collected, late, failed, lost>>

Shutdown ==
  /\ pc[Main] = "select" /\ ~running
  /\ Go(Main, "done") /\ watched' = 0
  /\ UNCHANGED <<diskVars, events, content, mutex, running, collected, late, failed, lost>>

\* waitForCompleteWrite: a shared lock on the file says that its writer is done; it is
\* given up at once.  Without a file it gives up after a minute.
waitForCompleteWrite ==
  /\ pc[Main] = "wait" /\ (file.exists => file.whole)
  /\ Go(Main, "lock")
  /\ UNCHANGED <<diskVars, watched, events, content, mutex, running, collected, late, failed, lost>>

-----------------------------------------------------------------------------
(* watchStatusFile and loadAndSendJSON *)

\* Every second: the file exists,
Stat(w) ==
  /\ pc[w] = "stat"
  /\ \/ ~running /\ Go(w, "off")
     \/ file.exists /\ Go(w, "add")
  /\ UNCHANGED <<diskVars, watched, events, content, mutex, running, collected, late, failed, lost>>

\* and is given to the watcher.  If it is gone by now, that is the end of it.
Add(w) ==
  /\ pc[w] = "add"
  /\ IF file.exists THEN Go(w, "lock") /\ watched' = file.ino /\ UNCHANGED lost
                    ELSE Go(w, "off") /\ lost' = TRUE /\ UNCHANGED watched
  /\ UNCHANGED <<diskVars, events, content, mutex, running, collected, late, failed>>

After(g) == IF g = Main THEN "select" ELSE "off"

\* Mutant of Load: the file is read without the mutex.
LoadUnlocked(g) ==
  /\ pc[g] = "lock"
  /\ \/ /\ file.exists /\ Go(g, "post") /\ UNCHANGED mutex
        /\ content' = [content EXCEPT ![g] = IF file.whole THEN file.ver ELSE 0]
     \/ ~file.exists /\ Go(g, After(g)) /\ UNCHANGED <<mutex, content>>
  /\ UNCHANGED <<diskVars, watched, events, running, collected, late, failed, lost>>

\* loadAndSendJSON takes the mutex and reads the file.
Load(g) ==
  /\ pc[g] = "lock" /\ mutex = NoOne
  /\ \/ /\ file.exists /\ Go(g, "post") /\ mutex' = g
        /\ content' = [content EXCEPT ![g] = IF file.whole THEN file.ver ELSE 0]
     \/ ~file.exists /\ Go(g, After(g)) /\ UNCHANGED <<mutex, content>>
  /\ UNCHANGED <<diskVars, watched, events, running, collected, late, failed, lost>>

\* The POST, with the mutex held: it arrives, and its answer may not, or Do gives up
\* after ten seconds, and the collector may still see the request later or never.
Post(g) ==
  /\ pc[g] = "post"
  /\ \/ collected' = (IF content[g] = 0 THEN collected ELSE content[g]) /\ UNCHANGED <<failed, late>>
     \/ /\ failed' = (failed \/ content[g] = file.ver) /\ UNCHANGED collected
        /\ late' = late \cup ({content[g]} \ {0})
  /\ Go(g, After(g)) /\ mutex' = NoOne /\ content' = [content EXCEPT ![g] = 0]
  /\ UNCHANGED <<diskVars, watched, events, running, lost>>

\* The collector gets to a request that the agent has given up.
LateArrival ==
  /\ \E v \in late : /\ collected' = v /\ late' = late \ {v}
                     /\ failed' = (failed \/ v < collected)
  /\ UNCHANGED <<diskVars, watched, events, pc, content, mutex, running, lost>>

Step(g) == Load(g) \/ Post(g)
Loop == Event \/ Shutdown \/ waitForCompleteWrite \/ Step(Main) \/ (pc[Main] = "beat" /\ sendHeartbeat)
Watch(w) == Stat(w) \/ Add(w) \/ Step(w)

AgentNext ==
  \/ Change \/ WriteRest \/ StopAgent \/ LateArrival
  \/ Event \/ sendHeartbeat \/ Shutdown \/ waitForCompleteWrite \/ Step(Main)
  \/ \E w \in Watchers : Watch(w)

AgentSpec == AgentInit /\ [][AgentNext]_agentVars

\* Goroutines keep running and a writer finishes; an event that is ready is taken
\* although the ticker is, too.
AgentFairSpec ==
  /\ AgentSpec
  /\ WF_agentVars(WriteRest) /\ WF_agentVars(Loop) /\ SF_agentVars(Event) /\ SF_agentVars(Shutdown)
  /\ \A w \in Watchers : WF_agentVars(Watch(w))

-----------------------------------------------------------------------------
(* Properties *)

\* The event loop and the goroutines together never give the collector an older state
\* of the file after a newer one.  It goes back only when a request arrives that
\* loadAndSendJSON gave up after ten seconds, which nothing calls back or numbers.
NeverBackwards ==
  [][collected' >= collected \/ (collected' \in late /\ late' = late \ {collected'})]_agentVars

\* When the file rests, the collector gets to know its last version, however events,
\* removals and the goroutines interleave, unless the agent is stopped, a POST of that
\* version fails or an older one that was given up arrives after it (nothing sends it
\* again), or once a file was removed between Stat and Add (nothing watches from then
\* on).
AtRest == changes = MaxChanges /\ file.exists
Collected == collected = file.ver \/ failed \/ lost \/ ~running
CatchesUp == AtRest ~> Collected
==============================================================================
