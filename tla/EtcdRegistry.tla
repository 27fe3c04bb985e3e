---------------------------- MODULE EtcdRegistry ----------------------------
(***************************************************************************)
(* cmd/internal/discovery/etcd/etcd_registry.go: RegisterETCD registers    *)
(* one key under a lease, a goroutine watches the lease's keepalive        *)
(* channel and registers again when it closes, and RegisterETCD            *)
(* deregisters when its context is cancelled.  The owner runs RegisterETCD *)
(* and the worker is the goroutine chain keepalive -> retry -> keepalive,  *)
(* of which one link runs at a time.  The etcd server and the lessor of    *)
(* its client are external.                                                *)
(*                                                                         *)
(* Register ends within 3 s and a lease lives for 10 s after its grant, so *)
(* a lease does not expire under the Register that was granted it.         *)
(***************************************************************************)
EXTENDS Naturals

CONSTANT
  MaxFaults   \* bound: failed calls and lost leases while the client is open

VARIABLES
  at,          \* where the owner and the worker are
  lgr,         \* the lease each of them was last granted
  lease,       \* r.lease
  keepaliveCh, \* r.keepaliveCh, named by its lease
  ctxDone,     \* is the context of RegisterETCD cancelled?
  stopped,     \* was r.stop called?
  revoked,     \* did the Revoke of Deregister succeed?
  live,        \* external: the leases that are live at the server
  key,         \* external: the lease the instance's key is attached to
  beats,       \* external: the leases whose keepalive channel is open
  client,      \* external: is the client open?
  granted,     \* history: the number of leases granted
  faults       \* history: the number of faults so far

server == <<live, key, beats, client, granted>>
registryVars == <<at, lgr, lease, keepaliveCh, ctxDone, stopped, revoked, server, faults>>

NoLease == 0
\* Each lease but the first follows a fault or the Revoke of Deregister.
Leases == 1 .. MaxFaults + 2
Procs == {"owner", "worker"}
InRegister == {"grant", "put", "beat", "store"}

\* RegisterETCD once NewEtcdRegistry has returned.
RegistryInit ==
  /\ at = [owner |-> "grant", worker |-> "none"]
  /\ lgr = [p \in Procs |-> NoLease]
  /\ lease = NoLease
  /\ keepaliveCh = NoLease
  /\ ctxDone = FALSE
  /\ stopped = FALSE
  /\ revoked = FALSE
  /\ live = {}
  /\ key = NoLease
  /\ beats = {}
  /\ client = TRUE
  /\ granted = 0
  /\ faults = 0

Goto(p, l) == at' = [at EXCEPT ![p] = l]

\* What follows a Register that returned an error: RegisterETCD returns it,
\* retry waits for the next tick.
Failed(p) == IF p = "owner" THEN "close" ELSE "retry"

\* A call of p may fail: the client is closed, the context of RegisterETCD,
\* which its own Register uses, is cancelled, or the server cannot be reached.
MayFail(p) ==
  \/ (~ client \/ (p = "owner" /\ ctxDone)) /\ UNCHANGED faults
  \/ client /\ faults < MaxFaults /\ faults' = faults + 1

-----------------------------------------------------------------------------
(* Register, called by RegisterETCD and by retry *)

Grant(p) ==
  /\ at[p] = "grant"
  /\ client
  /\ granted' = granted + 1
  /\ live' = live \cup {granted'}
  /\ lgr' = [lgr EXCEPT ![p] = granted']
  /\ Goto(p, "put")
  /\ UNCHANGED <<lease, keepaliveCh, ctxDone, stopped, revoked, key, beats, client,
                 faults>>

GrantFails(p) ==
  /\ at[p] = "grant"
  /\ MayFail(p)
  /\ Goto(p, Failed(p))
  /\ UNCHANGED <<lgr, lease, keepaliveCh, ctxDone, stopped, revoked, server>>

Put(p) ==
  /\ at[p] = "put"
  /\ client
  /\ key' = lgr[p]
  /\ Goto(p, "beat")
  /\ UNCHANGED <<lgr, lease, keepaliveCh, ctxDone, stopped, revoked, live, beats, client,
                 granted, faults>>

\* The server may have applied a Put that fails for the caller.
PutFails(p) ==
  /\ at[p] = "put"
  /\ MayFail(p)
  /\ key' \in {key, lgr[p]}
  /\ Goto(p, Failed(p))
  /\ UNCHANGED <<lgr, lease, keepaliveCh, ctxDone, stopped, revoked, live, beats, client,
                 granted>>

\* KeepAlive fails, with a channel that is closed, when the client is closed;
\* keepaliveCh is assigned in any case.
KeepAlive(p) ==
  /\ at[p] = "beat"
  /\ keepaliveCh' = lgr[p]
  /\ beats' = IF client THEN beats \cup {lgr[p]} ELSE beats
  /\ Goto(p, IF client THEN "store" ELSE Failed(p))
  /\ UNCHANGED <<lgr, lease, ctxDone, stopped, revoked, live, key, client, granted, faults>>

\* Mutant of Store: only the first Register records its lease.
StoreFirst(p) ==
  /\ at[p] = "store"
  /\ lease' = IF lease = NoLease THEN lgr[p] ELSE lease
  /\ at' = [owner |-> IF p = "owner" THEN "wait" ELSE at["owner"],
            worker |-> "keepalive"]
  /\ UNCHANGED <<lgr, keepaliveCh, ctxDone, stopped, revoked, server, faults>>

\* Mutant of Store: keepalive is started by the first Register only.
StoreUnwatched(p) ==
  /\ at[p] = "store"
  /\ lease' = lgr[p]
  /\ at' = [owner |-> IF p = "owner" THEN "wait" ELSE at["owner"],
            worker |-> IF p = "owner" THEN "keepalive" ELSE "none"]
  /\ UNCHANGED <<lgr, keepaliveCh, ctxDone, stopped, revoked, server, faults>>

\* The end of Register: it records the lease, starts keepalive and returns.
Store(p) ==
  /\ at[p] = "store"
  /\ lease' = lgr[p]
  /\ at' = [owner |-> IF p = "owner" THEN "wait" ELSE at["owner"],
            worker |-> "keepalive"]
  /\ UNCHANGED <<lgr, keepaliveCh, ctxDone, stopped, revoked, server, faults>>

Register(p) ==
  \/ Grant(p)
  \/ GrantFails(p)
  \/ Put(p)
  \/ PutFails(p)
  \/ KeepAlive(p)
  \/ Store(p)

-----------------------------------------------------------------------------
(* The worker *)

\* keepalive: the channel is closed, or delivers nil.
ChannelClosed ==
  /\ at["worker"] = "keepalive"
  /\ keepaliveCh \notin beats
  /\ Goto("worker", "retry")
  /\ UNCHANGED <<lgr, lease, keepaliveCh, ctxDone, stopped, revoked, server, faults>>

\* retry: the ticker fires.  The select may prefer it to a context that is done.
Tick ==
  /\ at["worker"] = "retry"
  /\ Goto("worker", "grant")
  /\ UNCHANGED <<lgr, lease, keepaliveCh, ctxDone, stopped, revoked, server, faults>>

\* keepalive and retry return when the registry was stopped.
KeepaliveStopped ==
  /\ at["worker"] \in {"keepalive", "retry"}
  /\ stopped
  /\ Goto("worker", "none")
  /\ UNCHANGED <<lgr, lease, keepaliveCh, ctxDone, stopped, revoked, server, faults>>

-----------------------------------------------------------------------------
(* RegisterETCD after Register *)

\* Cobra cancels the context, on a signal.
Cancel ==
  /\ ~ ctxDone
  /\ ctxDone' = TRUE
  /\ UNCHANGED <<at, lgr, lease, keepaliveCh, stopped, revoked, server, faults>>

\* <-ctx.Done(), then the r.stop() of Deregister.
StopKeepalive ==
  /\ at["owner"] = "wait"
  /\ ctxDone
  /\ stopped' = TRUE
  /\ Goto("owner", "revoke")
  /\ UNCHANGED <<lgr, lease, keepaliveCh, ctxDone, revoked, server, faults>>

\* Revoking a lease deletes the key attached to it and ends its keepalives.
Remove(l) ==
  /\ live' = live \ {l}
  /\ key' = IF key = l THEN NoLease ELSE key

\* The lease may be gone already: Deregister then reports an error.
Revoke ==
  /\ at["owner"] = "revoke"
  /\ Remove(lease)
  /\ revoked' = (lease \in live)
  /\ Goto("owner", "close")
  /\ UNCHANGED <<lgr, lease, keepaliveCh, ctxDone, stopped, beats, client, granted, faults>>

RevokeFails ==
  /\ at["owner"] = "revoke"
  /\ faults < MaxFaults
  /\ faults' = faults + 1
  /\ Goto("owner", "close")
  /\ UNCHANGED <<lgr, lease, keepaliveCh, ctxDone, stopped, revoked, server>>

\* Mutant of CloseClient: the client is never closed.
LeaveClient ==
  /\ at["owner"] = "close"
  /\ Goto("owner", "done")
  /\ UNCHANGED <<lgr, lease, keepaliveCh, ctxDone, stopped, revoked, server, faults>>

\* The deferred client.Close(), which halts the keepalives, and the return.
CloseClient ==
  /\ at["owner"] = "close"
  /\ client' = FALSE
  /\ beats' = {}
  /\ Goto("owner", "done")
  /\ UNCHANGED <<lgr, lease, keepaliveCh, ctxDone, stopped, revoked, live, key, granted,
                 faults>>

-----------------------------------------------------------------------------
(* etcd *)

Held(l) == \E p \in Procs : lgr[p] = l /\ at[p] \in {"put", "beat", "store"}

\* A lease nobody renews expires.
Expire(l) ==
  /\ l \in live \ beats
  /\ ~ Held(l)
  /\ Remove(l)
  /\ UNCHANGED <<at, lgr, lease, keepaliveCh, ctxDone, stopped, revoked, beats, client,
                 granted, faults>>

\* The server is out of reach for longer than the lease lives: the client gives
\* up renewing it, before or after the server drops it.
LoseLease(l) ==
  /\ l \in beats \cap live
  /\ faults < MaxFaults
  /\ faults' = faults + 1
  /\ \/ Remove(l) /\ UNCHANGED beats
     \/ beats' = beats \ {l} /\ UNCHANGED <<live, key>>
  /\ UNCHANGED <<at, lgr, lease, keepaliveCh, ctxDone, stopped, revoked, client, granted>>

\* The lessor learns that a lease is gone and closes its channel.
CloseChannel(l) ==
  /\ l \in beats \ live
  /\ beats' = beats \ {l}
  /\ UNCHANGED <<at, lgr, lease, keepaliveCh, ctxDone, stopped, revoked, live, key, client,
                 granted, faults>>

-----------------------------------------------------------------------------
Owner == Register("owner") \/ StopKeepalive \/ Revoke \/ RevokeFails \/ CloseClient
Worker == Register("worker") \/ ChannelClosed \/ Tick \/ KeepaliveStopped

RegistryNext ==
  \/ Owner
  \/ Worker
  \/ Cancel
  \/ \E l \in Leases : Expire(l) \/ LoseLease(l) \/ CloseChannel(l)

RegistrySpec == RegistryInit /\ [][RegistryNext]_registryVars

\* Both goroutines run, the ticker keeps ticking, and the server and the lessor
\* see to leases that nobody renews.
RegistryFairSpec ==
  /\ RegistrySpec
  /\ WF_registryVars(Owner)
  /\ WF_registryVars(Worker)
  /\ \A l \in Leases : WF_registryVars(Expire(l)) /\ WF_registryVars(CloseChannel(l))

-----------------------------------------------------------------------------
(* Properties *)

\* The leases that Grant hands out stay within the bound.
RegistryTypeOK ==
  /\ at \in [owner : InRegister \cup {"wait", "revoke", "close", "done"},
             worker : InRegister \cup {"none", "keepalive", "retry"}]
  /\ lgr \in [Procs -> Leases \cup {NoLease}]
  /\ {lease, keepaliveCh, key} \subseteq Leases \cup {NoLease}
  /\ live \subseteq Leases
  /\ beats \subseteq Leases
  /\ {ctxDone, stopped, revoked, client} \subseteq BOOLEAN
  /\ granted \in 0 .. MaxFaults + 2
  /\ faults \in 0 .. MaxFaults

\* While keepalive watches a channel, it is the channel of r.lease, the lease
\* Deregister would revoke, and the key hangs on no other lease: Register never
\* leaves the two fields or the store telling of different registrations.
RenewsWhatItRevokes ==
  RegistryTypeOK /\ (at["worker"] = "keepalive" => keepaliveCh = lease /\ key \in {NoLease, lease})

\* While RegisterETCD waits for its context, a key that was lost comes back:
\* every closed keepalive channel leads to a Register that succeeds.
StaysRegistered == at["owner"] = "wait" ~> (key # NoLease \/ ctxDone)

\* After RegisterETCD has returned, the key disappears for good, whatever retry
\* was doing: once the client is closed nothing renews a lease.
GoneAfterExit == at["owner"] = "done" ~> [](key = NoLease)

\* RegisterETCD's comment: "On exit it deregisters before returning."  Here: once
\* it has returned, with a Revoke that succeeded, the key is not registered.
DeregistersBeforeReturning == at["owner"] = "done" /\ revoked => key = NoLease
=============================================================================
