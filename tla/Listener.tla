------------------------------ MODULE Listener -------------------------------
(***************************************************************************)
(* Listening, of transport/internet: RegisterTransportListener, ListenTCP  *)
(* and ListenUnix pick the listener of a protocol, DefaultListener.Listen  *)
(* opens it, and a Unix socket is guarded by a FileLocker next to its      *)
(* path.  Processes listen on one address, close and listen again, or die. *)
(* The kernel is modelled by what the code asks of it: os.Create, flock,   *)
(* bind, unlink, each a step.                                              *)
(***************************************************************************)
EXTENDS Naturals, FiniteSets

CONSTANTS
  Procs,        \* processes
  AddressKinds, \* of "unix", "mode" (a path with permissions), "badmode" (ones that do
                \* not parse), "abstract", "tcp", "localhost", "domain"
  MaxListens    \* bound: attempts to listen, of all processes

NoFile == 0
NoOne == "no one"
Stale == "stale"
Inodes == 1 .. Cardinality(Procs)

VARIABLES
  address,    \* the address of this scenario
  registered, \* transportListenerCache has the protocol
  proc,       \* p -> where it is, the lock file it has open, why it gives up
  lockPath,   \* the file at the path of the lock, or NoFile
  left,       \* history: flock or os.Remove failed and nobody has removed the file since
  locked,     \* flock: file -> who holds it
  sockPath,   \* whose socket is at the path
  listens,    \* attempts so far
  crashed     \* some process died while it listened

listenerVars == <<address, registered, proc, lockPath, left, locked, sockPath, listens, crashed>>
kernel == <<lockPath, left, locked, sockPath>>

Idle == [pc |-> "idle", file |-> NoFile, res |-> "none"]

ListenerTypeOK ==
  /\ address \in AddressKinds /\ {registered, left, crashed} \subseteq BOOLEAN
  /\ \A p \in Procs :
       /\ proc[p].pc \in {"idle", "listen", "flock", "bind", "chmod", "open", "unlock",
                          "remove", "unlink", "dead"}
       /\ proc[p].file \in Inodes \cup {NoFile}
       /\ proc[p].res \in {"none", "ok", "error"}
  /\ lockPath \in Inodes \cup {NoFile}
  /\ locked \in [Inodes -> Procs \cup {NoOne}]
  /\ sockPath \in Procs \cup {NoOne, Stale}
  /\ listens \in 0 .. MaxListens

ListenerInit ==
  /\ address \in AddressKinds
  /\ registered = FALSE
  /\ proc = [p \in Procs |-> Idle]
  /\ lockPath = NoFile /\ left = FALSE /\ locked = [i \in Inodes |-> NoOne] /\ sockPath = NoOne
  /\ listens = 0 /\ crashed = FALSE

Go(p, pc) == proc' = [proc EXCEPT ![p].pc = pc]
Unix == address \in {"unix", "mode", "badmode"}
Exclusive == address \in {"unix", "mode", "abstract"}

-----------------------------------------------------------------------------
(* The registry of listeners and its users *)

\* A protocol is registered once; a second time is an error.
RegisterTransportListener ==
  /\ ~registered /\ registered' = TRUE
  /\ UNCHANGED <<address, proc, kernel, listens, crashed>>

\* ListenTCP: a domain other than localhost is refused, and so is a protocol that
\* nobody registered.  ListenUnix has only the second check.
Front(p) ==
  /\ proc[p].pc = "idle" /\ listens < MaxListens
  /\ listens' = listens + 1
  /\ proc' = [proc EXCEPT ![p] =
       IF address = "domain" \/ ~registered THEN [Idle EXCEPT !.res = "error"]
       ELSE [Idle EXCEPT !.pc = "listen"]]
  /\ UNCHANGED <<address, registered, kernel, crashed>>

-----------------------------------------------------------------------------
(* FileLocker *)

NewFile == CHOOSE i \in Inodes : \A q \in Procs : proc[q].file # i

\* os.Create opens the file at the path, or makes one.
AcquireCreate(p) ==
  LET f == IF lockPath = NoFile THEN NewFile ELSE lockPath IN
  /\ lockPath' = f
  /\ proc' = [proc EXCEPT ![p].pc = "flock", ![p].file = f]
  /\ UNCHANGED <<left, locked, sockPath>>

\* flock waits for the file's lock.
AcquireLock(p) ==
  /\ proc[p].pc = "flock" /\ locked[proc[p].file] = NoOne
  /\ locked' = [locked EXCEPT ![proc[p].file] = p]
  /\ Go(p, "bind")
  /\ UNCHANGED <<address, registered, lockPath, left, sockPath, listens, crashed>>

\* When flock fails the file is closed, and it stays at the path.
AcquireFails(p) ==
  /\ proc[p].pc = "flock"
  /\ proc' = [proc EXCEPT ![p] = [Idle EXCEPT !.res = "error"]]
  /\ left' = (lockPath # NoFile)
  /\ UNCHANGED <<address, registered, lockPath, locked, sockPath, listens, crashed>>

\* Release: the lock and then the file are given up, and last the path is removed,
\* whatever file is there by then; a failure to remove it is only logged.
ReleaseUnlock(p) ==
  /\ proc[p].pc = "unlock"
  /\ locked' = [locked EXCEPT ![proc[p].file] = NoOne]
  /\ proc' = [proc EXCEPT ![p].pc = "remove", ![p].file = NoFile]
  /\ UNCHANGED <<address, registered, lockPath, left, sockPath, listens, crashed>>

\* Mutant of ReleaseRemove: the file of the lock stays.
ReleaseKeep(p) ==
  /\ proc[p].pc = "remove"
  /\ Go(p, IF proc[p].res = "error" /\ sockPath # p THEN "idle" ELSE "unlink")
  /\ UNCHANGED <<address, registered, kernel, listens, crashed>>

ReleaseRemove(p) ==
  /\ proc[p].pc = "remove"
  /\ \/ lockPath' = NoFile /\ left' = FALSE
     \/ lockPath' = lockPath /\ left' = (lockPath # NoFile)
  /\ Go(p, IF proc[p].res = "error" /\ sockPath # p THEN "idle" ELSE "unlink")
  /\ UNCHANGED <<address, registered, locked, sockPath, listens, crashed>>

-----------------------------------------------------------------------------
(* DefaultListener *)

\* Listen: permissions that do not parse are an error before anything is opened, and so
\* is a lock file that cannot be created; a path takes the lock, an abstract or a TCP
\* address does not.
Listen(p) ==
  /\ proc[p].pc = "listen"
  /\ \/ Unix /\ proc' = [proc EXCEPT ![p] = [Idle EXCEPT !.res = "error"]] /\ UNCHANGED kernel
     \/ address \in {"unix", "mode"} /\ AcquireCreate(p)
     \/ ~Unix /\ Go(p, "bind") /\ UNCHANGED kernel
  /\ UNCHANGED <<address, registered, listens, crashed>>

Free == sockPath = NoOne \/ ~Exclusive

\* Mutant of Bind: a socket that is in the way is removed first.
BindOver(p) ==
  /\ proc[p].pc = "bind"
  /\ sockPath' = p
  /\ Go(p, IF address = "mode" THEN "chmod" ELSE "open")
  /\ UNCHANGED <<address, registered, lockPath, left, locked, listens, crashed>>

\* lc.Listen binds, which fails when something is at the path and may for other reasons;
\* the callback then releases the lock.  TCP sockets share their port: setReusePort.
Bind(p) ==
  /\ proc[p].pc = "bind"
  /\ \/ /\ Free /\ sockPath' = IF Exclusive THEN p ELSE sockPath
        /\ Go(p, IF address = "mode" THEN "chmod" ELSE "open")
     \/ /\ proc' = [proc EXCEPT ![p].pc = IF Unix THEN "unlock" ELSE "idle", ![p].res = "error"]
        /\ UNCHANGED sockPath
  /\ UNCHANGED <<address, registered, lockPath, left, locked, listens, crashed>>

\* os.Chmod sets the permissions; if it fails the listener is closed.
Chmod(p) ==
  /\ proc[p].pc = "chmod"
  /\ \/ Go(p, "open")
     \/ proc' = [proc EXCEPT ![p].pc = "unlock", ![p].res = "error"]
  /\ UNCHANGED <<address, registered, kernel, listens, crashed>>

\* combinedListener.Close releases the lock, then closes the listener.
Close(p) ==
  /\ proc[p].pc = "open"
  /\ proc' = [proc EXCEPT ![p].pc = IF Unix THEN "unlock" ELSE "unlink", ![p].res = "ok"]
  /\ UNCHANGED <<address, registered, kernel, listens, crashed>>

\* net.Listener.Close, external: the path is unlinked, whoever's socket is there, and
\* the socket closed.
CloseSocket(p) ==
  /\ proc[p].pc = "unlink"
  /\ sockPath' = IF Exclusive THEN NoOne ELSE sockPath
  /\ Go(p, "idle")
  /\ UNCHANGED <<address, registered, lockPath, left, locked, listens, crashed>>

\* A process dies: its locks are gone, its socket's path stays.
Die(p) ==
  /\ proc[p].pc \notin {"idle", "dead"}
  /\ crashed' = TRUE
  /\ proc' = [proc EXCEPT ![p] = [Idle EXCEPT !.pc = "dead"]]
  /\ locked' = [i \in Inodes |-> IF locked[i] = p THEN NoOne ELSE locked[i]]
  /\ sockPath' = IF sockPath # p THEN sockPath
                 ELSE IF address = "abstract" THEN NoOne ELSE Stale
  /\ UNCHANGED <<address, registered, lockPath, left, listens>>

Step(p) ==
  \/ Listen(p) \/ AcquireLock(p) \/ AcquireFails(p) \/ Bind(p) \/ Chmod(p)
  \/ ReleaseUnlock(p) \/ ReleaseRemove(p) \/ CloseSocket(p)

ListenerNext ==
  \/ RegisterTransportListener
  \/ \E p \in Procs : Front(p) \/ Step(p) \/ Close(p) \/ Die(p)

ListenerSpec == ListenerInit /\ [][ListenerNext]_listenerVars

-----------------------------------------------------------------------------
(* Properties *)

Listening(p) == proc[p].pc \in {"open", "chmod"}

\* On a path or an abstract address one process listens at a time, and clients reach
\* it: the socket at the path is its own from bind to Close.  The lock does not give
\* this (LockExcludes), bind and the order of unlink and bind do.
OwnSocket ==
  Exclusive =>
    \A p \in Procs : Listening(p) =>
      sockPath = p /\ \A q \in Procs \ {p} : ~Listening(q)

\* When every listener that was opened has been closed, with or without an error, and
\* no process died, neither socket nor lock is left.  A lock file is left only by a flock
\* or an os.Remove that failed, and only until the next listener removes it: Acquire does
\* not remove what it has created.
NothingLeft ==
  (~crashed /\ \A p \in Procs : proc[p].pc = "idle") =>
    /\ lockPath = NoFile \/ left
    /\ sockPath = NoOne /\ \A i \in Inodes : locked[i] = NoOne

\* Both: the process that listens is alone and reachable, and Close leaves nothing more
\* than a lock file whose flock or removal failed.
OneListener == ListenerTypeOK /\ OwnSocket /\ NothingLeft

\* "FileLocker is UDS access lock", "normal unix domain socket needs lock": between
\* Acquire and Release no other process is between them.
HoldsLock(p) == proc[p].pc \in {"bind", "chmod", "open", "unlock"} /\ address \in {"unix", "mode"}
LockExcludes == \A p, q \in Procs : HoldsLock(p) /\ HoldsLock(q) => p = q
==============================================================================
