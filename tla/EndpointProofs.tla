--------------------------- MODULE EndpointProofs ----------------------------
(***************************************************************************)
(* Proofs about what an endpoint of a connection keeps: its socket, which  *)
(* Listener claims, for any finite set of processes and any kinds of       *)
(* addresses, and its ActivityTimer, for any number of check tasks and of  *)
(* Updates.                                                                *)
(***************************************************************************)
EXTENDS Listener, ActivityTimer, FiniteSetTheorems, TLAPS

USE SMTT(30), ZenonT(30)

-----------------------------------------------------------------------------
(* ActivityTimer *)

-----------------------------------------------------------------------------
(* The inductive invariant of TimeoutOnce.  As long as no SetTimeout has met a *)
(* check half way, there is one check task at most that works or waits for its *)
(* timer, so nobody else takes the token that an Update has left for it.       *)

OnTimeoutLeft == fired \in {0, 1} /\ (onTimeout => fired = 0)

Busy(k) == taskPc[k] # "idle" \/ taskArmed[k]

\* What runs is the task that finish and SetTimeout close.
CurrentTask ==
  \A k \in Tasks : (taskRunning[k] => checkTask = k) /\ (taskArmed[k] => taskRunning[k])

OneBusy == \A j, k \in Tasks : Busy(j) /\ Busy(k) => j = k

\* Between the swap and Start there is one SetTimeout and no check.
HalfWayAlone ==
  \A k \in Tasks : set[k] \in {"swapped", "updated"} =>
    checkTask = k /\ \A j \in Tasks : ~ Busy(j) /\ ~ taskRunning[j]

TokenWaits == \A k \in active : Busy(k) \/ set[k] = "updated" => updated

InStep ==
  ~ overlap => CurrentTask /\ OneBusy /\ HalfWayAlone /\ TokenWaits /\ ~ early

TimerIInv == TimerTypeOK /\ OnTimeoutLeft /\ InStep

LEMMA TimerInitIInv == TimerInit => TimerIInv
<1> SUFFICES ASSUME TimerInit PROVE TimerIInv
  OBVIOUS
<1>1. {updated, onTimeout, early, overlap} \subseteq BOOLEAN
  BY Zenon DEF TimerInit
<1>2. TimerTypeOK
  BY <1>1, TimerAssumption DEF TimerInit, TimerTypeOK
<1>3. OnTimeoutLeft
  BY DEF TimerInit, OnTimeoutLeft
<1>4. InStep
  BY DEF TimerInit, InStep, CurrentTask, OneBusy, HalfWayAlone, TokenWaits, Busy
<1>5. QED
  BY <1>2, <1>3, <1>4 DEF TimerIInv

LEMMA TimerTypeStep == TimerTypeOK /\ [TimerNext]_timerVars => TimerTypeOK'
<1> SUFFICES ASSUME TimerTypeOK, [TimerNext]_timerVars PROVE TimerTypeOK'
  OBVIOUS
<1> USE DEF TimerTypeOK, TimerNext, timerVars, SetTimeout, CheckTask, Update, SetTimeoutZero,
            SetTimeoutSwap, SetTimeoutUpdate, SetTimeoutStart, FireTask, TaskHasClosed, check,
            Finish, ArmTask, finish, Put
<1>1. {updated, onTimeout, early, overlap}' \subseteq BOOLEAN
  BY Zenon
<1>2. checkTask' \in Tasks \cup {NoTask} /\ active' \subseteq Tasks
  OBVIOUS
<1>3. updates' \in 0 .. MaxUpdates
  BY TimerAssumption
<1>4. /\ set' \in [Tasks -> {"new", "swapped", "updated", "done"}]
      /\ taskPc' \in [Tasks -> {"idle", "check", "execute", "finish", "arm"}]
  BY DEF TaskGoto
<1>5. taskRunning' \in [Tasks -> BOOLEAN] /\ taskArmed' \in [Tasks -> BOOLEAN]
  BY Zenon DEF CloseTask
<1>6. QED
  BY <1>1, <1>2, <1>3, <1>4, <1>5

LEMMA OnTimeoutStep ==
  OnTimeoutLeft /\ [TimerNext]_timerVars => OnTimeoutLeft'
BY DEF OnTimeoutLeft, TimerNext, timerVars, SetTimeout, CheckTask, Update, SetTimeoutZero,
       SetTimeoutSwap, SetTimeoutUpdate, SetTimeoutStart, FireTask, TaskHasClosed, check,
       Finish, ArmTask, finish

\* Once the current task is closed, none runs and none is armed.
LEMMA CloseTaskClears ==
  ASSUME TimerTypeOK, CurrentTask, CloseTask(checkTask)
  PROVE  \A j \in Tasks : ~ taskRunning'[j] /\ ~ taskArmed'[j]
BY Zenon DEF CurrentTask, CloseTask, TimerTypeOK

\* The calls.
LEMMA CallStep ==
  ASSUME TimerTypeOK, InStep, ~ overlap'
  PROVE  /\ Update => InStep'
         /\ SetTimeoutZero => InStep'
         /\ \A k \in Tasks : SetTimeout(k) => InStep'
<1> USE DEF InStep, TimerTypeOK
<1>1. CASE Update
  BY <1>1 DEF Update, Put, CurrentTask, OneBusy, HalfWayAlone, TokenWaits, Busy
<1>2. CASE SetTimeoutZero
  <2>1. ~ overlap /\ ~ HalfWay /\ CloseTask(checkTask)
    BY <1>2, Zenon DEF SetTimeoutZero, finish
  <2>2. \A j \in Tasks : ~ taskRunning'[j] /\ ~ taskArmed'[j]
    BY <2>1, CloseTaskClears
  <2>3. CurrentTask' /\ HalfWayAlone'
    BY <1>2, <2>1, <2>2 DEF SetTimeoutZero, CurrentTask, HalfWayAlone, HalfWay
  <2>4. OneBusy' /\ TokenWaits' /\ ~ early'
    BY <1>2, <2>1, <2>2 DEF SetTimeoutZero, OneBusy, TokenWaits, Busy
  <2>5. QED
    BY <2>3, <2>4
<1>3. ASSUME NEW k \in Tasks, SetTimeoutSwap(k) PROVE InStep'
  <2>1. ~ overlap /\ ~ HalfWay /\ CloseTask(checkTask) /\ \A j \in Tasks : taskPc[j] = "idle"
    BY <1>3, Zenon DEF SetTimeoutSwap
  <2>2. \A j \in Tasks : ~ taskRunning'[j] /\ ~ taskArmed'[j]
    BY <2>1, CloseTaskClears
  <2>3. \A j \in Tasks : ~ Busy(j)'
    BY <1>3, <2>1, <2>2 DEF SetTimeoutSwap, Busy
  <2>4. CurrentTask' /\ OneBusy'
    BY <2>2, <2>3 DEF CurrentTask, OneBusy
  <2>5. HalfWayAlone' /\ TokenWaits' /\ ~ early'
    BY <1>3, <2>1, <2>2, <2>3 DEF SetTimeoutSwap, HalfWayAlone, HalfWay, TokenWaits
  <2>6. QED
    BY <2>4, <2>5
<1>4. ASSUME NEW k \in Tasks, SetTimeoutUpdate(k) PROVE InStep'
  BY <1>4 DEF SetTimeoutUpdate, Put, CurrentTask, OneBusy, HalfWayAlone, TokenWaits, Busy
<1>5. ASSUME NEW k \in Tasks, SetTimeoutStart(k) PROVE InStep'
  <2>1. checkTask = k /\ \A j \in Tasks : ~ Busy(j) /\ ~ taskRunning[j]
    BY <1>5 DEF SetTimeoutStart, HalfWayAlone
  <2>2. \A j \in Tasks : j # k => set[j] \notin {"swapped", "updated"}
    BY <1>5, <2>1 DEF SetTimeoutStart, HalfWayAlone
  <2>3. CurrentTask' /\ OneBusy'
    BY <1>5, <2>1 DEF SetTimeoutStart, CurrentTask, OneBusy, Busy
  <2>4. HalfWayAlone' /\ TokenWaits' /\ ~ early'
    BY <1>5, <2>1, <2>2 DEF SetTimeoutStart, HalfWayAlone, TokenWaits, Busy
  <2>5. QED
    BY <2>3, <2>4
<1>6. QED
  BY <1>1, <1>2, <1>3, <1>4, <1>5 DEF SetTimeout

\* A check task.
LEMMA CheckTaskStep ==
  ASSUME TimerTypeOK, InStep, ~ overlap', NEW k \in Tasks, CheckTask(k)
  PROVE  InStep'
<1> USE DEF InStep, TimerTypeOK
<1>1. ~ overlap /\ Busy(k)
  BY DEF CheckTask, FireTask, TaskHasClosed, check, Finish, ArmTask, finish, Busy
<1>2. \A j \in Tasks : set'[j] \notin {"swapped", "updated"} /\ (Busy(j) => j = k)
  BY <1>1 DEF CheckTask, FireTask, TaskHasClosed, check, Finish, ArmTask, HalfWayAlone, OneBusy
<1>3. CASE FireTask(k) \/ TaskHasClosed(k) \/ ArmTask(k)
  <2>1. CurrentTask' /\ OneBusy'
    BY <1>1, <1>2, <1>3 DEF FireTask, TaskHasClosed, ArmTask, TaskGoto, CurrentTask, OneBusy, Busy
  <2>2. TokenWaits' /\ ~ early'
    BY <1>1, <1>2, <1>3 DEF FireTask, TaskHasClosed, ArmTask, TaskGoto, TokenWaits, Busy
  <2>3. QED
    BY <1>2, <2>1, <2>2 DEF HalfWayAlone
<1>4. CASE check(k)
  <2>1. CurrentTask' /\ OneBusy'
    BY <1>1, <1>2, <1>4 DEF check, TaskGoto, CurrentTask, OneBusy, Busy
  <2>2. TokenWaits'
    BY <1>1, <1>2, <1>4 DEF check, TaskGoto, TokenWaits, Busy
  <2>3. ~ early'
    BY <1>1, <1>4 DEF check, TokenWaits, Busy
  <2>4. QED
    BY <1>2, <2>1, <2>2, <2>3 DEF HalfWayAlone
<1>5. CASE Finish(k)
  <2>1. \A j \in Tasks : ~ taskRunning'[j] /\ ~ taskArmed'[j]
    BY <1>1, <1>5, CloseTaskClears DEF Finish, finish
  <2>2. CurrentTask' /\ OneBusy'
    BY <1>2, <1>5, <2>1 DEF Finish, TaskGoto, CurrentTask, OneBusy, Busy
  <2>3. TokenWaits' /\ ~ early'
    BY <1>1, <1>2, <1>5, <2>1 DEF Finish, TaskGoto, TokenWaits, Busy
  <2>4. QED
    BY <1>2, <2>2, <2>3 DEF HalfWayAlone
<1>6. QED
  BY <1>3, <1>4, <1>5 DEF CheckTask

LEMMA TimerStep == TimerIInv /\ [TimerNext]_timerVars => TimerIInv'
<1> SUFFICES ASSUME TimerIInv, [TimerNext]_timerVars PROVE TimerIInv'
  OBVIOUS
<1>1. TimerTypeOK' /\ OnTimeoutLeft'
  BY TimerTypeStep, OnTimeoutStep DEF TimerIInv
<1>2. CASE UNCHANGED timerVars
  BY <1>2, <1>1 DEF TimerIInv, timerVars, InStep, CurrentTask, OneBusy, HalfWayAlone, TokenWaits,
                    Busy
<1>3. CASE TimerNext /\ ~ overlap'
  BY <1>3, <1>1, CallStep, CheckTaskStep DEF TimerNext, TimerIInv
<1>4. CASE overlap'
  BY <1>1, <1>4 DEF TimerIInv, InStep
<1>5. QED
  BY <1>2, <1>3, <1>4

\* An ActivityTimer calls onTimeout once, whatever its callers and its check tasks do,
\* and as long as no SetTimeout meets a check half way, a check task times out only if
\* there was no Update since its last check.
THEOREM TimeoutCorrect == TimerSpec => []TimeoutOnce
<1>1. TimerIInv => TimeoutOnce
  BY DEF TimerIInv, OnTimeoutLeft, InStep, TimeoutOnce, FiresOnce, NotEarly
<1>2. QED
  BY TimerInitIInv, TimerStep, <1>1, PTL DEF TimerSpec

-----------------------------------------------------------------------------
(* Listener *)

\* The names of the model that are not processes, and its bounds.
Scope ==
  /\ IsFiniteSet(Procs) /\ NoOne \notin Procs /\ Stale \notin Procs
  /\ MaxListens \in Nat

PCs == {"idle", "listen", "flock", "bind", "chmod", "open", "unlock", "remove", "unlink", "dead"}

ProcType == [Procs -> [pc : PCs, file : Inodes \cup {NoFile}, res : {"none", "ok", "error"}]]

Types ==
  /\ address \in AddressKinds /\ {registered, left, crashed} \subseteq BOOLEAN
  /\ proc \in ProcType
  /\ lockPath \in Inodes \cup {NoFile}
  /\ locked \in [Inodes -> Procs \cup {NoOne}]
  /\ sockPath \in Procs \cup {NoOne, Stale}
  /\ listens \in 0 .. MaxListens

\* A process that starts to listen has no file open, so os.Create finds a fresh one,
\* and only a path that is no abstract address is locked.
FileInv ==
  \A p \in Procs :
    /\ proc[p].pc = "listen" => proc[p].file = NoFile
    /\ proc[p].pc = "flock" => Unix

\* Whoever holds a lock holds the one of the file it has open, and will release it.
LockInv ==
  \A i \in Inodes, p \in Procs : locked[i] = p =>
    Unix /\ proc[p].file = i /\ proc[p].pc \in {"bind", "chmod", "open", "unlock"}

\* The file at the path of the lock will be removed by a process that has opened it,
\* unless a failure has left it there.
Removers == {"flock", "bind", "chmod", "open", "unlock", "remove"}
PathInv ==
  lockPath # NoFile => Unix /\ (crashed \/ left \/ \E p \in Procs : proc[p].pc \in Removers)

\* The socket at the path is that of the process that has bound it and not yet closed
\* it, though the lock is given up earlier; only that process will unlink it.
Bound(p) ==
  \/ proc[p].pc \in {"open", "chmod", "unlink"}
  \/ proc[p].pc \in {"unlock", "remove"} /\ proc[p].res # "error"
SockInv ==
  /\ \A p \in Procs : sockPath = p =>
       Exclusive /\ proc[p].pc \in {"open", "chmod", "unlock", "remove", "unlink"}
  /\ Exclusive => \A p \in Procs : Bound(p) => sockPath = p
  /\ sockPath = Stale => crashed

IInv == Types /\ FileInv /\ LockInv /\ PathInv /\ SockInv

-----------------------------------------------------------------------------
(* Types *)

\* os.Create has an inode left to make: every other process has one file open at most.
LEMMA FreshFile ==
  ASSUME Scope, Types, NEW p \in Procs, proc[p].file = NoFile
  PROVE  NewFile \in Inodes
<1> DEFINE Has(i) == CHOOSE q \in Procs : proc[q].file = i
           holder == [i \in Inodes |-> Has(i)]
<1>1. SUFFICES ASSUME \A i \in Inodes : \E q \in Procs : proc[q].file = i
               PROVE  FALSE
  BY DEF NewFile
<1>2. Cardinality(Procs) \in Nat
  BY FS_CardinalityType DEF Scope
<1>3. IsFiniteSet(Inodes) /\ Cardinality(Inodes) = Cardinality(Procs)
  <2>1. IsFiniteSet(1 .. Cardinality(Procs))
        /\ Cardinality(1 .. Cardinality(Procs))
             = IF 1 > Cardinality(Procs) THEN 0 ELSE Cardinality(Procs) - 1 + 1
    BY <1>2, FS_Interval
  <2>2. QED
    BY <1>2, <2>1 DEF Inodes
<1>4. IsFiniteSet(Procs \ {p}) /\ Cardinality(Procs \ {p}) = Cardinality(Procs) - 1
  BY FS_RemoveElement DEF Scope
<1>5. \A i \in Inodes : Has(i) \in Procs /\ proc[Has(i)].file = i
  BY <1>1
<1>6. \A i \in Inodes : i # NoFile
  BY <1>2 DEF Inodes, NoFile
<1>7. holder \in [Inodes -> Procs \ {p}]
  BY <1>5, <1>6
<1>8. Cardinality(Procs \ {p}) < Cardinality(Inodes)
  BY <1>2, <1>3, <1>4
<1>9. \A f \in [Inodes -> Procs \ {p}] : \E x, y \in Inodes : x # y /\ f[x] = f[y]
  BY <1>3, <1>4, <1>8, FS_PigeonHole
<1> HIDE DEF Has
<1>10. PICK x \in Inodes, y \in Inodes : x # y /\ holder[x] = holder[y]
  <2> HIDE DEF holder
  <2>1. QED
    BY <1>7, <1>9
<1>11. Has(x) = Has(y)
  BY <1>10
<1>12. QED
  BY <1>5, <1>10, <1>11

LEMMA InitIInv == ASSUME Scope, ListenerInit PROVE IInv
<1>1. {registered, left, crashed} \subseteq BOOLEAN
  BY Zenon DEF ListenerInit
<1>2. listens \in 0 .. MaxListens
  BY DEF ListenerInit, Scope
<1>3. proc \in ProcType
  BY DEF ListenerInit, ProcType, Idle, PCs
<1>4. Types
  BY <1>1, <1>2, <1>3 DEF ListenerInit, Types
<1>5. FileInv
  BY DEF ListenerInit, Idle, FileInv
<1>6. LockInv
  BY DEF ListenerInit, LockInv, Scope
<1>7. PathInv
  BY DEF ListenerInit, PathInv
<1>8. SockInv
  BY DEF ListenerInit, Idle, SockInv, Bound, Scope, NoOne, Stale
<1>9. QED
  BY <1>4, <1>5, <1>6, <1>7, <1>8 DEF IInv

\* proc' keeps its type under each way in which a step of p changes it.
LEMMA ProcTypes ==
  ASSUME Types, NEW p \in Procs
  PROVE  /\ \A c \in PCs : Go(p, c) => proc' \in ProcType
         /\ \A c \in PCs, f \in Inodes \cup {NoFile} :
              proc' = [proc EXCEPT ![p].pc = c, ![p].file = f] => proc' \in ProcType
         /\ \A c \in PCs, r \in {"none", "ok", "error"} :
              proc' = [proc EXCEPT ![p].pc = c, ![p].res = r] => proc' \in ProcType
         /\ \A c \in PCs : proc' = [proc EXCEPT ![p] = [Idle EXCEPT !.pc = c]] => proc' \in ProcType
         /\ proc' = [proc EXCEPT ![p] = [Idle EXCEPT !.res = "error"]] => proc' \in ProcType
<1>1. ASSUME NEW c \in PCs, Go(p, c) PROVE proc' \in ProcType
  BY <1>1 DEF Types, ProcType, Go
<1>2. ASSUME NEW c \in PCs, NEW f \in Inodes \cup {NoFile},
             proc' = [proc EXCEPT ![p].pc = c, ![p].file = f]
      PROVE  proc' \in ProcType
  BY <1>2, Zenon DEF Types, ProcType
<1>3. ASSUME NEW c \in PCs, NEW r \in {"none", "ok", "error"},
             proc' = [proc EXCEPT ![p].pc = c, ![p].res = r]
      PROVE  proc' \in ProcType
  BY <1>3, Zenon DEF Types, ProcType
<1>4. ASSUME NEW c \in PCs, proc' = [proc EXCEPT ![p] = [Idle EXCEPT !.pc = c]]
      PROVE  proc' \in ProcType
  BY <1>4 DEF Types, ProcType, Idle
<1>5. ASSUME proc' = [proc EXCEPT ![p] = [Idle EXCEPT !.res = "error"]]
      PROVE  proc' \in ProcType
  BY <1>5 DEF Types, ProcType, Idle, PCs
<1>6. QED
  BY <1>1, <1>2, <1>3, <1>4, <1>5

LEMMA FlagTypes ==
  ASSUME Types, [ListenerNext]_listenerVars
  PROVE  ({registered, left, crashed} \subseteq BOOLEAN)'
<1>1. CASE UNCHANGED listenerVars
  BY <1>1 DEF listenerVars, Types
<1>2. CASE RegisterTransportListener
  BY <1>2, Zenon DEF RegisterTransportListener, kernel, Types
<1>3. ASSUME NEW p \in Procs, Front(p) \/ Step(p) \/ Close(p) \/ Die(p)
      PROVE  ({registered, left, crashed} \subseteq BOOLEAN)'
  <2>1. left' \in BOOLEAN
    BY <1>3, Zenon DEF Front, Step, Listen, AcquireCreate, AcquireLock, AcquireFails, Bind, Chmod,
       ReleaseUnlock, ReleaseRemove, CloseSocket, Close, Die, kernel, Types
  <2>2. registered' \in BOOLEAN /\ crashed' \in BOOLEAN
    BY <1>3, Zenon DEF Front, Step, Listen, AcquireLock, AcquireFails, Bind, Chmod, ReleaseUnlock,
       ReleaseRemove, CloseSocket, Close, Die, Types
  <2>3. QED
    BY <2>1, <2>2
<1>4. QED
  BY <1>1, <1>2, <1>3 DEF ListenerNext

LEMMA NextTypes == ASSUME Scope, Types, FileInv, [ListenerNext]_listenerVars PROVE Types'
<1> USE FlagTypes
<1>0. /\ "idle" \in PCs /\ "listen" \in PCs /\ "flock" \in PCs /\ "bind" \in PCs /\ "chmod" \in PCs
      /\ "open" \in PCs /\ "unlock" \in PCs /\ "remove" \in PCs /\ "unlink" \in PCs /\ "dead" \in PCs
  BY DEF PCs
<1>1. CASE UNCHANGED listenerVars
  BY <1>1 DEF listenerVars, Types
<1>2. CASE RegisterTransportListener
  BY <1>2 DEF RegisterTransportListener, kernel, Types
<1>3. ASSUME NEW p \in Procs, Front(p) \/ Step(p) \/ Close(p) \/ Die(p)
      PROVE  Types'
  <2>1. CASE Front(p)
    <3>1. listens' \in 0 .. MaxListens
      BY <2>1 DEF Front, Types, Scope
    <3>2. proc' \in ProcType
      BY <2>1, <1>0, ProcTypes, Zenon DEF Front
    <3>3. QED
      BY <2>1, <3>1, <3>2 DEF Front, Types, kernel
  <2>2. CASE Listen(p)
    <3>1. CASE address \in {"unix", "mode"} /\ AcquireCreate(p)
      <4>1. NewFile \in Inodes
        BY <2>2, FreshFile DEF FileInv, Listen
      <4>2. lockPath' \in Inodes \cup {NoFile}
        BY <3>1, <4>1 DEF AcquireCreate, Types
      <4>3. proc' = [proc EXCEPT ![p].pc = "flock", ![p].file = lockPath']
        BY <3>1 DEF AcquireCreate
      <4>4. proc' \in ProcType
        BY <1>0, <4>2, <4>3, ProcTypes, Zenon
      <4>5. QED
        BY <2>2, <3>1, <4>2, <4>4 DEF Listen, AcquireCreate, Types
    <3>2. CASE Unix /\ proc' = [proc EXCEPT ![p] = [Idle EXCEPT !.res = "error"]] /\ UNCHANGED kernel
      BY <2>2, <3>2, ProcTypes, Zenon DEF Listen, kernel, Types
    <3>3. CASE ~Unix /\ Go(p, "bind") /\ UNCHANGED kernel
      BY <2>2, <3>3, <1>0, ProcTypes DEF Listen, kernel, Types
    <3>4. QED
      BY <2>2, <3>1, <3>2, <3>3 DEF Listen
  <2>3. CASE AcquireLock(p)
    <3>1. locked' \in [Inodes -> Procs \cup {NoOne}]
      BY <2>3, Zenon DEF AcquireLock, Types
    <3>2. QED
      BY <2>3, <3>1, <1>0, ProcTypes DEF AcquireLock, Types
  <2>4. CASE Bind(p)
    <3>1. proc' \in ProcType
      BY <2>4, <1>0, ProcTypes DEF Bind
    <3>2. QED
      BY <2>4, <3>1 DEF Bind, Types
  <2>5. CASE Chmod(p)
    BY <2>5, <1>0, ProcTypes DEF Chmod, kernel, Types
  <2>6. CASE ReleaseUnlock(p)
    <3>1. locked' \in [Inodes -> Procs \cup {NoOne}]
      BY <2>6, Zenon DEF ReleaseUnlock, Types
    <3>2. QED
      BY <2>6, <3>1, <1>0, ProcTypes, Zenon DEF ReleaseUnlock, Types
  <2>7. CASE ReleaseRemove(p)
    BY <2>7, <1>0, ProcTypes DEF ReleaseRemove, Types
  <2>8. CASE CloseSocket(p)
    BY <2>8, <1>0, ProcTypes DEF CloseSocket, Types
  <2>9. CASE Close(p)
    BY <2>9, <1>0, ProcTypes, Zenon DEF Close, kernel, Types
  <2>10. CASE Die(p)
    <3>2. locked' \in [Inodes -> Procs \cup {NoOne}]
      BY <2>10 DEF Die, Types
    <3>3. proc' \in ProcType
      BY <2>10, <1>0, ProcTypes, Zenon DEF Die
    <3>4. QED
      BY <2>10, <3>2, <3>3 DEF Die, Types
  <2>11. CASE AcquireFails(p)
    BY <2>11, ProcTypes, Zenon DEF AcquireFails, Types
  <2>12. QED
    BY <1>3, <2>1, <2>2, <2>3, <2>4, <2>5, <2>6, <2>7, <2>8, <2>9, <2>10, <2>11 DEF Step
<1>4. QED
  BY <1>1, <1>2, <1>3 DEF ListenerNext

-----------------------------------------------------------------------------
(* The inductive invariant *)

\* A process opens a file only when it has begun to listen.
LEMMA FileStep == ASSUME Types, FileInv, [ListenerNext]_listenerVars PROVE FileInv'
<1>1. CASE UNCHANGED listenerVars
  BY <1>1 DEF listenerVars, Types, FileInv, ProcType, Unix
<1>2. CASE RegisterTransportListener
  BY <1>2 DEF RegisterTransportListener, kernel, Types, FileInv, ProcType, Unix
<1>3. ASSUME NEW p \in Procs, Front(p) \/ Step(p) \/ Close(p) \/ Die(p)
      PROVE  FileInv'
  <2>1. CASE Front(p)
    BY <2>1 DEF Front, kernel, Idle, Types, FileInv, ProcType, Unix
  <2>2. CASE Listen(p)
    BY <2>2 DEF Listen, AcquireCreate, kernel, Go, Idle, Types, FileInv, ProcType, Unix
  <2>3. CASE AcquireLock(p)
    BY <2>3 DEF AcquireLock, Go, Types, FileInv, ProcType, Unix
  <2>4. CASE Bind(p)
    BY <2>4 DEF Bind, Go, Types, FileInv, ProcType, Unix
  <2>5. CASE Chmod(p)
    BY <2>5 DEF Chmod, Go, kernel, Types, FileInv, ProcType, Unix
  <2>6. CASE ReleaseUnlock(p)
    BY <2>6 DEF ReleaseUnlock, Types, FileInv, ProcType, Unix
  <2>7. CASE ReleaseRemove(p)
    BY <2>7 DEF ReleaseRemove, Go, Types, FileInv, ProcType, Unix
  <2>8. CASE CloseSocket(p)
    BY <2>8 DEF CloseSocket, Go, Types, FileInv, ProcType, Unix
  <2>9. CASE Close(p)
    BY <2>9 DEF Close, kernel, Types, FileInv, ProcType, Unix
  <2>10. CASE Die(p)
    BY <2>10 DEF Die, Idle, Types, FileInv, ProcType, Unix
  <2>11. CASE AcquireFails(p)
    BY <2>11 DEF AcquireFails, Idle, Types, FileInv, ProcType, Unix
  <2>12. QED
    BY <1>3, <2>1, <2>2, <2>3, <2>4, <2>5, <2>6, <2>7, <2>8, <2>9, <2>10, <2>11 DEF Step
<1>4. QED
  BY <1>1, <1>2, <1>3 DEF ListenerNext

\* A step of p leaves the address and the other processes alone.
LEMMA Others ==
  ASSUME Types, NEW p \in Procs, Front(p) \/ Step(p) \/ Close(p) \/ Die(p)
  PROVE  address' = address /\ \A q \in Procs : q # p => proc'[q] = proc[q]
<1>1. address' = address
  BY DEF Front, Step, Listen, AcquireLock, AcquireFails, Bind, Chmod, ReleaseUnlock, ReleaseRemove, CloseSocket,
     Close, Die
<1>2. \A q \in Procs : q # p => proc'[q] = proc[q]
  BY DEF Types, ProcType, Front, Step, Listen, AcquireCreate, AcquireLock, AcquireFails, Bind, Chmod,
     ReleaseUnlock, ReleaseRemove, CloseSocket, Close, Die, Go
<1>3. QED
  BY <1>1, <1>2

\* Only the process itself takes and gives up its lock.
LEMMA LockStep == ASSUME Scope, Types, FileInv, LockInv, [ListenerNext]_listenerVars PROVE LockInv'
<1>1. CASE UNCHANGED listenerVars
  BY <1>1 DEF listenerVars, LockInv, Unix
<1>2. CASE RegisterTransportListener
  BY <1>2 DEF RegisterTransportListener, kernel, LockInv, Unix
<1>3. ASSUME NEW p \in Procs, Front(p) \/ Step(p) \/ Close(p) \/ Die(p),
             NEW i \in Inodes, NEW q \in Procs, locked'[i] = q
      PROVE  Unix' /\ proc'[q].file = i /\ proc'[q].pc \in {"bind", "chmod", "open", "unlock"}
  <2>1. Unix' = Unix
    BY <1>3, Others DEF Unix
  <2>2. CASE q # p
    <3>1. locked[i] = q
      BY <1>3, <2>2 DEF Types, Scope, Front, kernel, Step, Listen, AcquireCreate, AcquireLock,
         AcquireFails, Bind, Chmod, ReleaseUnlock, ReleaseRemove, CloseSocket, Close, Die
    <3>2. proc'[q] = proc[q]
      BY <1>3, <2>2, Others
    <3>3. QED
      BY <2>1, <3>1, <3>2 DEF LockInv
  <2>3. CASE q = p
    <3>0. locked[i] = p => Unix /\ proc[p].file = i /\ proc[p].pc \in {"bind", "chmod", "open", "unlock"}
      BY DEF LockInv
    <3>1. CASE Front(p)
      BY <1>3, <2>1, <2>3, <3>0, <3>1 DEF Front, kernel, Idle, Types, ProcType
    <3>2. CASE Listen(p)
      BY <1>3, <2>1, <2>3, <3>0, <3>2 DEF Listen, AcquireCreate, kernel, Go, Idle, Types, ProcType
    <3>3. CASE AcquireLock(p)
      BY <1>3, <2>1, <2>3, <3>0, <3>3 DEF AcquireLock, Go, FileInv, Types, ProcType
    <3>4. CASE Bind(p)
      BY <1>3, <2>1, <2>3, <3>0, <3>4 DEF Bind, Go, Types, ProcType
    <3>5. CASE Chmod(p)
      BY <1>3, <2>1, <2>3, <3>0, <3>5 DEF Chmod, Go, kernel, Types, ProcType
    <3>6. CASE ReleaseUnlock(p)
      BY <1>3, <2>1, <2>3, <3>0, <3>6 DEF ReleaseUnlock, Scope, Types, ProcType
    <3>7. CASE ReleaseRemove(p)
      BY <1>3, <2>1, <2>3, <3>0, <3>7 DEF ReleaseRemove, Go, Types, ProcType
    <3>8. CASE CloseSocket(p)
      BY <1>3, <2>1, <2>3, <3>0, <3>8 DEF CloseSocket, Go, Types, ProcType
    <3>9. CASE Close(p)
      BY <1>3, <2>1, <2>3, <3>0, <3>9 DEF Close, kernel, Types, ProcType
    <3>10. CASE Die(p)
      BY <1>3, <2>1, <2>3, <3>0, <3>10 DEF Die, Idle, Scope, Types, ProcType
    <3>11. CASE AcquireFails(p)
      BY <1>3, <2>1, <2>3, <3>0, <3>11 DEF AcquireFails, Idle, Types, ProcType
    <3>12. QED
      BY <1>3, <3>1, <3>2, <3>3, <3>4, <3>5, <3>6, <3>7, <3>8, <3>9, <3>10, <3>11 DEF Step
  <2>4. QED
    BY <2>2, <2>3
<1>4. QED
  BY <1>1, <1>2, <1>3 DEF ListenerNext, LockInv

\* Whoever leaves the Removers without dying has removed the path, or left the file.
LEMMA PathStep == ASSUME Scope, Types, PathInv, [ListenerNext]_listenerVars PROVE PathInv'
<1>1. CASE UNCHANGED listenerVars
  BY <1>1 DEF listenerVars, Types, PathInv, ProcType, Removers, Unix
<1>2. CASE RegisterTransportListener
  BY <1>2 DEF RegisterTransportListener, kernel, Types, PathInv, ProcType, Removers, Unix
<1>3. ASSUME NEW p \in Procs, Front(p) \/ Step(p) \/ Close(p) \/ Die(p)
      PROVE  PathInv'
  <2>1. CASE Front(p)
    BY <2>1 DEF Front, kernel, Idle, Types, PathInv, ProcType, Removers, Unix
  <2>2. CASE Listen(p)
    BY <2>2 DEF Listen, AcquireCreate, Unix, kernel, Go, Idle, Types, PathInv, ProcType, Removers, Unix
  <2>3. CASE AcquireLock(p)
    BY <2>3 DEF AcquireLock, Go, Types, PathInv, ProcType, Removers, Unix
  <2>4. CASE Bind(p)
    BY <2>4 DEF Bind, Go, Types, PathInv, ProcType, Removers, Unix
  <2>5. CASE Chmod(p)
    BY <2>5 DEF Chmod, Go, kernel, Types, PathInv, ProcType, Removers, Unix
  <2>6. CASE ReleaseUnlock(p)
    BY <2>6 DEF ReleaseUnlock, Types, PathInv, ProcType, Removers, Unix
  <2>7. CASE ReleaseRemove(p)
    BY <2>7, Zenon DEF ReleaseRemove, Go, Types, PathInv, ProcType, Removers, Unix
  <2>8. CASE CloseSocket(p)
    BY <2>8 DEF CloseSocket, Go, Types, PathInv, ProcType, Removers, Unix
  <2>9. CASE Close(p)
    BY <2>9 DEF Close, kernel, Types, PathInv, ProcType, Removers, Unix
  <2>10. CASE Die(p)
    BY <2>10 DEF Die, Idle, Types, PathInv, ProcType, Removers, Unix
  <2>11. CASE AcquireFails(p)
    BY <2>11, Zenon DEF AcquireFails, Types, PathInv, Unix
  <2>12. QED
    BY <1>3, <2>1, <2>2, <2>3, <2>4, <2>5, <2>6, <2>7, <2>8, <2>9, <2>10, <2>11 DEF Step
<1>4. QED
  BY <1>1, <1>2, <1>3 DEF ListenerNext

\* Binding needs a free path, and only the bound process unlinks it.
LEMMA SockMoves ==
  ASSUME Scope, Types, SockInv, NEW p \in Procs, Front(p) \/ Step(p) \/ Close(p) \/ Die(p)
  PROVE  /\ sockPath' = sockPath \/ sockPath \in {p, NoOne}
         /\ sockPath' \in {sockPath, p, NoOne} \/ (sockPath' = Stale /\ crashed')
         /\ crashed => crashed'
<1>1. CASE Bind(p)
  BY <1>1 DEF Bind, Free
<1>2. CASE CloseSocket(p)
  BY <1>2 DEF CloseSocket, SockInv, Bound
<1>3. CASE Die(p)
  BY <1>3 DEF Die
<1>4. CASE \/ Front(p) \/ Listen(p) \/ AcquireLock(p) \/ AcquireFails(p) \/ Chmod(p)
           \/ ReleaseUnlock(p) \/ ReleaseRemove(p) \/ Close(p)
  BY <1>4 DEF Front, Listen, AcquireCreate, AcquireLock, AcquireFails, Chmod, ReleaseUnlock,
              ReleaseRemove, Close, kernel
<1>5. QED
  BY <1>1, <1>2, <1>3, <1>4 DEF Step

\* What SockInv says of one process.
SockOf(p) ==
  /\ sockPath = p => Exclusive /\ proc[p].pc \in {"open", "chmod", "unlock", "remove", "unlink"}
  /\ Exclusive /\ Bound(p) => sockPath = p

LEMMA SockOfOther ==
  ASSUME Scope, Types, SockInv, NEW p \in Procs, Front(p) \/ Step(p) \/ Close(p) \/ Die(p),
         NEW q \in Procs, q # p
  PROVE  SockOf(q)'
<1>1. proc'[q] = proc[q] /\ Exclusive' = Exclusive
  BY Others DEF Exclusive
<1>2. Bound(q)' = Bound(q)
  BY <1>1 DEF Bound
<1>3. sockPath' = sockPath \/ sockPath \in {p, NoOne}
  BY SockMoves
<1>4. sockPath' = q <=> sockPath = q
  BY <1>3, SockMoves DEF Scope
<1>5. SockOf(q)
  BY DEF SockInv, SockOf
<1>6. QED
  BY <1>1, <1>2, <1>4, <1>5 DEF SockOf

LEMMA SockOfMover ==
  ASSUME Scope, Types, SockInv, NEW p \in Procs, Front(p) \/ Step(p) \/ Close(p) \/ Die(p)
  PROVE  SockOf(p)'
<1>0. SockOf(p) /\ Exclusive' = Exclusive
  BY Others DEF SockInv, SockOf, Exclusive
<1>1. CASE Front(p)
  BY <1>0, <1>1 DEF Front, kernel, Idle, SockOf, Bound, Types, ProcType
<1>2. CASE Listen(p)
  BY <1>0, <1>2 DEF Listen, AcquireCreate, kernel, Go, Idle, SockOf, Bound, Types, ProcType
<1>3. CASE AcquireLock(p)
  BY <1>0, <1>3 DEF AcquireLock, Go, SockOf, Bound, Types, ProcType
<1>4. CASE Bind(p)
  BY <1>0, <1>4 DEF Bind, Free, Unix, Go, Scope, SockOf, Bound, Types, ProcType
<1>5. CASE Chmod(p)
  BY <1>0, <1>5 DEF Chmod, Go, kernel, SockOf, Bound, Types, ProcType
<1>6. CASE ReleaseUnlock(p)
  BY <1>0, <1>6 DEF ReleaseUnlock, SockOf, Bound, Types, ProcType
<1>7. CASE ReleaseRemove(p)
  BY <1>0, <1>7 DEF ReleaseRemove, Go, SockOf, Bound, Types, ProcType
<1>8. CASE CloseSocket(p)
  BY <1>0, <1>8 DEF CloseSocket, Go, Scope, SockOf, Bound, Types, ProcType
<1>9. CASE Close(p)
  BY <1>0, <1>9 DEF Close, kernel, SockOf, Bound, Types, ProcType
<1>10. CASE Die(p)
  BY <1>0, <1>10 DEF Die, Idle, Scope, SockOf, Bound, Types, ProcType
<1>11. CASE AcquireFails(p)
  BY <1>0, <1>11 DEF AcquireFails, Idle, SockOf, Bound, Types, ProcType
<1>12. QED
  BY <1>1, <1>2, <1>3, <1>4, <1>5, <1>6, <1>7, <1>8, <1>9, <1>10, <1>11 DEF Step

LEMMA SockStep == ASSUME Scope, Types, SockInv, [ListenerNext]_listenerVars PROVE SockInv'
<1>1. CASE UNCHANGED listenerVars
  BY <1>1 DEF listenerVars, SockInv, Bound, Exclusive
<1>2. CASE RegisterTransportListener
  BY <1>2 DEF RegisterTransportListener, kernel, SockInv, Bound, Exclusive
<1>3. ASSUME NEW p \in Procs, Front(p) \/ Step(p) \/ Close(p) \/ Die(p)
      PROVE  SockInv'
  <2>1. \A q \in Procs : SockOf(q)'
    BY <1>3, SockOfOther, SockOfMover
  <2>2. (sockPath = Stale => crashed)'
    <3>1. NoOne # Stale
      BY DEF NoOne, Stale
    <3>2. QED
      BY <1>3, <3>1, SockMoves DEF SockInv, Scope
  <2>3. QED
    BY <2>1, <2>2 DEF SockInv, SockOf
<1>4. QED
  BY <1>1, <1>2, <1>3 DEF ListenerNext

LEMMA NextIInv == ASSUME Scope, IInv, [ListenerNext]_listenerVars PROVE IInv'
  BY NextTypes, FileStep, LockStep, PathStep, SockStep DEF IInv

-----------------------------------------------------------------------------
(* What it gives *)

LEMMA TypesOK == ASSUME Types PROVE ListenerTypeOK
  BY DEF Types, ProcType, PCs, ListenerTypeOK

LEMMA One == ASSUME Scope, IInv PROVE OwnSocket
  BY DEF IInv, SockInv, Bound, OwnSocket, Listening

LEMMA Nothing == ASSUME Scope, IInv PROVE NothingLeft
<1>1. SUFFICES ASSUME ~crashed, \A p \in Procs : proc[p].pc = "idle"
               PROVE  (lockPath = NoFile \/ left) /\ sockPath = NoOne /\ \A i \in Inodes : locked[i] = NoOne
  BY DEF NothingLeft
<1>2. lockPath = NoFile \/ left
  BY <1>1 DEF IInv, PathInv, Removers
<1>3. sockPath = NoOne
  BY <1>1 DEF IInv, Types, SockInv
<1>4. \A i \in Inodes : locked[i] = NoOne
  BY <1>1 DEF IInv, Types, LockInv
<1>5. QED
  BY <1>2, <1>3, <1>4

\* For any finite set of processes, any number of which may die at any step, and with every
\* call to the kernel free to fail: on a path or an abstract address the process that
\* listens owns the socket clients reach, and is alone; and closing every listener leaves
\* neither lock nor socket, and a lock file only where flock or os.Remove failed.
THEOREM ListenersCorrect ==
  ASSUME Scope
  PROVE  ListenerSpec => []OneListener
<1>1. ListenerInit => IInv
  BY InitIInv
<1>2. IInv /\ [ListenerNext]_listenerVars => IInv'
  BY NextIInv
<1>3. IInv => OneListener
  BY TypesOK, One, Nothing DEF IInv, OneListener
<1>4. QED
  BY <1>1, <1>2, <1>3, PTL DEF ListenerSpec
==============================================================================
