---------------------------- MODULE ServiceProofs ----------------------------
(***************************************************************************)
(* Proofs about the services that MCServices runs: EtcdRegistry for any    *)
(* number of faults, ServerRun for any of its kinds of servers and any     *)
(* number of requests in progress, Agent for any number of goroutines in   *)
(* watchStatusFile and of changes of the file.                             *)
(***************************************************************************)
EXTENDS EtcdRegistry, ServerRun, Agent, TLAPS

USE SMTT(30), ZenonT(30)

-----------------------------------------------------------------------------
(* EtcdRegistry *)

\* One of the two goroutines at most is inside Register: the worker is started by
\* the owner's Register and never comes back to it while the owner is there.
OneRegisters ==
  /\ at["owner"] \in InRegister => at["worker"] = "none"
  /\ at["worker"] # "none" => at["owner"] \notin InRegister

\* The goroutine inside Register holds the newest lease, which is recorded in no
\* field before it says so, and from Put on the key hangs on no other lease.
HoldsNewest ==
  /\ lease <= granted /\ \A l \in beats : l <= granted
  /\ \A p \in Procs :
       /\ at[p] \in {"put", "beat", "store"} => lgr[p] = granted /\ lease < granted
       /\ at[p] \in {"put", "beat"} => granted \in live /\ granted \notin beats
       /\ at[p] \in {"beat", "store"} => key \in {NoLease, granted}
       /\ at[p] = "store" => keepaliveCh = granted

\* The lease that is watched, or about to be, is lost already, or the worker knows.
Lost(l) == l \notin beats \cap live
Doomed ==
  \/ at["owner"] = "grant" \/ at["worker"] \in {"retry", "grant"}
  \/ at["worker"] = "keepalive" /\ Lost(keepaliveCh)
  \/ (at["owner"] = "store" \/ at["worker"] = "store") /\ Lost(keepaliveCh)

\* Each lease but the first replaces one that a fault or Deregister has cost.
GrantsPaid ==
  /\ granted <= faults + 2
  /\ client => granted + (IF Doomed THEN 1 ELSE 0)
                 <= faults + (IF at["owner"] \in {"close", "done"} THEN 2 ELSE 1)

RegistryIInv == RenewsWhatItRevokes /\ OneRegisters /\ HoldsNewest /\ GrantsPaid

LEMMA RegistryInitIInv == ASSUME MaxFaults \in Nat PROVE RegistryInit => RegistryIInv
<1> SUFFICES ASSUME RegistryInit PROVE RegistryIInv
  OBVIOUS
<1> USE DEF RegistryInit, Leases, NoLease, Procs, InRegister
<1>1. RegistryTypeOK
  <2>1. at \in [owner : InRegister \cup {"wait", "revoke", "close", "done"},
                worker : InRegister \cup {"none", "keepalive", "retry"}]
    OBVIOUS
  <2>2. {ctxDone, stopped, revoked, client} \subseteq BOOLEAN
    BY Zenon
  <2>3. QED
    BY <2>1, <2>2 DEF RegistryTypeOK
<1>2. OneRegisters
  BY DEF OneRegisters
<1>3. HoldsNewest
  BY DEF HoldsNewest
<1>4. GrantsPaid
  BY DEF GrantsPaid, Doomed, Lost
<1>5. QED
  BY <1>1, <1>2, <1>3, <1>4 DEF RegistryIInv, RenewsWhatItRevokes

\* Every step of Register keeps the invariant, whoever takes it.
LEMMA StepRegister ==
  ASSUME MaxFaults \in Nat, RegistryIInv, NEW p \in Procs, Register(p)
  PROVE  RegistryIInv'
<1> USE DEF RegistryIInv, RenewsWhatItRevokes, RegistryTypeOK, Leases, NoLease, Procs, InRegister, server, Goto
<1>1. CASE Grant(p)
  <2>1. OneRegisters'
    BY <1>1 DEF OneRegisters, Grant
  <2>2. HoldsNewest'
    BY <1>1 DEF OneRegisters, HoldsNewest, Grant
  <2>3. GrantsPaid'
    BY <1>1 DEF OneRegisters, GrantsPaid, Doomed, Lost, Grant
  <2>4. RegistryTypeOK'
    BY <1>1, <2>3 DEF GrantsPaid, Grant
  <2>5. QED
    BY <2>1, <2>2, <2>3, <2>4, <1>1 DEF Grant, OneRegisters
<1>2. CASE GrantFails(p)
  <2>1. OneRegisters'
    BY <1>2 DEF OneRegisters, GrantFails, MayFail, Failed
  <2>2. HoldsNewest'
    BY <1>2 DEF OneRegisters, HoldsNewest, GrantFails, MayFail, Failed
  <2>3. GrantsPaid'
    BY <1>2 DEF OneRegisters, HoldsNewest, GrantsPaid, Doomed, Lost, GrantFails, MayFail, Failed
  <2>4. RegistryTypeOK'
    BY <1>2 DEF GrantFails, MayFail, Failed
  <2>5. QED
    BY <2>1, <2>2, <2>3, <2>4, <1>2 DEF OneRegisters, HoldsNewest, GrantFails, MayFail, Failed
<1>3. CASE Put(p)
  <2>1. OneRegisters'
    BY <1>3 DEF OneRegisters, Put
  <2>2. HoldsNewest'
    BY <1>3 DEF OneRegisters, HoldsNewest, Put
  <2>3. GrantsPaid'
    BY <1>3 DEF OneRegisters, HoldsNewest, GrantsPaid, Doomed, Lost, Put
  <2>4. RegistryTypeOK'
    BY <1>3 DEF Put
  <2>5. QED
    BY <2>1, <2>2, <2>3, <2>4, <1>3 DEF OneRegisters, HoldsNewest, Put
<1>4. CASE PutFails(p)
  <2>1. OneRegisters'
    BY <1>4 DEF OneRegisters, PutFails, MayFail, Failed
  <2>2. HoldsNewest'
    BY <1>4 DEF OneRegisters, HoldsNewest, PutFails, MayFail, Failed
  <2>3. GrantsPaid'
    BY <1>4 DEF OneRegisters, HoldsNewest, GrantsPaid, Doomed, Lost, PutFails, MayFail, Failed
  <2>4. RegistryTypeOK'
    BY <1>4 DEF PutFails, MayFail, Failed
  <2>5. QED
    BY <2>1, <2>2, <2>3, <2>4, <1>4 DEF OneRegisters, HoldsNewest, PutFails, MayFail, Failed
<1>5. CASE KeepAlive(p)
  <2>1. OneRegisters'
    BY <1>5 DEF OneRegisters, KeepAlive, Failed
  <2>2. HoldsNewest'
    BY <1>5 DEF OneRegisters, HoldsNewest, KeepAlive, Failed
  <2>3. GrantsPaid'
    BY <1>5 DEF OneRegisters, HoldsNewest, GrantsPaid, Doomed, Lost, KeepAlive, Failed
  <2>4. RegistryTypeOK'
    BY <1>5, Zenon DEF HoldsNewest, KeepAlive, Failed
  <2>5. QED
    BY <2>1, <2>2, <2>3, <2>4, <1>5 DEF OneRegisters, HoldsNewest, KeepAlive, Failed
<1>6. CASE Store(p)
  <2>1. OneRegisters'
    BY <1>6 DEF OneRegisters, Store
  <2>2. HoldsNewest'
    BY <1>6 DEF OneRegisters, HoldsNewest, Store
  <2>3. GrantsPaid'
    BY <1>6 DEF OneRegisters, HoldsNewest, GrantsPaid, Doomed, Lost, Store
  <2>4. RegistryTypeOK'
    BY <1>6 DEF Store
  <2>5. QED
    BY <2>1, <2>2, <2>3, <2>4, <1>6 DEF OneRegisters, HoldsNewest, Store
<1>7. QED
  BY <1>1, <1>2, <1>3, <1>4, <1>5, <1>6 DEF Register

\* So does every other step of the worker, of RegisterETCD and of the server.
LEMMA StepOther ==
  ASSUME MaxFaults \in Nat, RegistryIInv,
         \/ ChannelClosed \/ Tick \/ KeepaliveStopped \/ Cancel
         \/ StopKeepalive \/ Revoke \/ RevokeFails \/ CloseClient
         \/ \E l \in Leases : Expire(l) \/ LoseLease(l) \/ CloseChannel(l)
  PROVE  RegistryIInv'
<1> USE DEF RegistryIInv, RenewsWhatItRevokes, RegistryTypeOK, Leases, NoLease, Procs, InRegister, server, Goto
<1>1. CASE ChannelClosed
  <2>1. OneRegisters'
    BY <1>1 DEF OneRegisters, ChannelClosed
  <2>2. HoldsNewest'
    BY <1>1 DEF OneRegisters, HoldsNewest, ChannelClosed
  <2>3. GrantsPaid'
    BY <1>1 DEF OneRegisters, HoldsNewest, GrantsPaid, Doomed, Lost, ChannelClosed
  <2>4. RegistryTypeOK'
    BY <1>1 DEF ChannelClosed
  <2>5. QED
    BY <2>1, <2>2, <2>3, <2>4, <1>1 DEF OneRegisters, ChannelClosed
<1>2. CASE Tick
  <2>1. OneRegisters'
    BY <1>2 DEF OneRegisters, Tick
  <2>2. HoldsNewest'
    BY <1>2 DEF OneRegisters, HoldsNewest, Tick
  <2>3. GrantsPaid'
    BY <1>2 DEF OneRegisters, HoldsNewest, GrantsPaid, Doomed, Lost, Tick
  <2>4. RegistryTypeOK'
    BY <1>2 DEF Tick
  <2>5. QED
    BY <2>1, <2>2, <2>3, <2>4, <1>2 DEF OneRegisters, Tick
<1>3. CASE KeepaliveStopped
  <2>1. OneRegisters'
    BY <1>3 DEF OneRegisters, KeepaliveStopped
  <2>2. HoldsNewest'
    BY <1>3 DEF OneRegisters, HoldsNewest, KeepaliveStopped
  <2>3. GrantsPaid'
    BY <1>3 DEF OneRegisters, HoldsNewest, GrantsPaid, Doomed, Lost, KeepaliveStopped
  <2>4. RegistryTypeOK'
    BY <1>3 DEF KeepaliveStopped
  <2>5. QED
    BY <2>1, <2>2, <2>3, <2>4, <1>3 DEF OneRegisters, KeepaliveStopped
<1>4. CASE Cancel
  <2>1. OneRegisters'
    BY <1>4 DEF OneRegisters, Cancel
  <2>2. HoldsNewest'
    BY <1>4 DEF OneRegisters, HoldsNewest, Cancel
  <2>3. GrantsPaid'
    BY <1>4 DEF OneRegisters, HoldsNewest, GrantsPaid, Doomed, Lost, Cancel
  <2>4. RegistryTypeOK'
    BY <1>4 DEF Cancel
  <2>5. QED
    BY <2>1, <2>2, <2>3, <2>4, <1>4 DEF OneRegisters, Cancel
<1>5. CASE StopKeepalive
  <2>1. OneRegisters'
    BY <1>5 DEF OneRegisters, StopKeepalive
  <2>2. HoldsNewest'
    BY <1>5 DEF OneRegisters, HoldsNewest, StopKeepalive
  <2>3. GrantsPaid'
    BY <1>5 DEF OneRegisters, HoldsNewest, GrantsPaid, Doomed, Lost, StopKeepalive
  <2>4. RegistryTypeOK'
    BY <1>5 DEF StopKeepalive
  <2>5. QED
    BY <2>1, <2>2, <2>3, <2>4, <1>5 DEF OneRegisters, StopKeepalive
<1>6. CASE Revoke
  <2>1. OneRegisters'
    BY <1>6 DEF OneRegisters, Revoke, Remove
  <2>2. HoldsNewest'
    BY <1>6 DEF OneRegisters, HoldsNewest, Revoke, Remove
  <2>3. GrantsPaid'
    BY <1>6 DEF OneRegisters, HoldsNewest, GrantsPaid, Doomed, Lost, Revoke, Remove
  <2>4. RegistryTypeOK'
    <3>1. (lease \in live) \in BOOLEAN
      BY SMT
    <3>2. revoked' \in BOOLEAN
      BY <1>6, <3>1, Zenon DEF Revoke
    <3>3. QED
      BY <1>6, <3>2, Zenon DEF Revoke, Remove
  <2>5. QED
    BY <2>1, <2>2, <2>3, <2>4, <1>6 DEF OneRegisters, Revoke, Remove
<1>7. CASE RevokeFails
  <2>1. OneRegisters'
    BY <1>7 DEF OneRegisters, RevokeFails
  <2>2. HoldsNewest'
    BY <1>7 DEF OneRegisters, HoldsNewest, RevokeFails
  <2>3. GrantsPaid'
    BY <1>7 DEF OneRegisters, HoldsNewest, GrantsPaid, Doomed, Lost, RevokeFails
  <2>4. RegistryTypeOK'
    BY <1>7 DEF RevokeFails
  <2>5. QED
    BY <2>1, <2>2, <2>3, <2>4, <1>7 DEF OneRegisters, RevokeFails
<1>8. CASE CloseClient
  <2>1. OneRegisters'
    BY <1>8 DEF OneRegisters, CloseClient
  <2>2. HoldsNewest'
    BY <1>8 DEF OneRegisters, HoldsNewest, CloseClient
  <2>3. GrantsPaid'
    BY <1>8 DEF OneRegisters, HoldsNewest, GrantsPaid, Doomed, Lost, CloseClient
  <2>4. RegistryTypeOK'
    BY <1>8, Zenon DEF CloseClient
  <2>5. QED
    BY <2>1, <2>2, <2>3, <2>4, <1>8 DEF OneRegisters, CloseClient
<1>9. ASSUME NEW l \in Leases, Expire(l) PROVE RegistryIInv'
  <2>1. OneRegisters'
    BY <1>9 DEF OneRegisters, Expire, Held, Remove
  <2>2. HoldsNewest'
    BY <1>9 DEF OneRegisters, HoldsNewest, Expire, Held, Remove
  <2>3. GrantsPaid'
    BY <1>9 DEF OneRegisters, HoldsNewest, GrantsPaid, Doomed, Lost, Expire, Held, Remove
  <2>4. RegistryTypeOK'
    BY <1>9 DEF Expire, Held, Remove
  <2>5. QED
    BY <2>1, <2>2, <2>3, <2>4, <1>9 DEF OneRegisters, Expire, Held, Remove
<1>10. ASSUME NEW l \in Leases, LoseLease(l) PROVE RegistryIInv'
  <2>1. OneRegisters'
    BY <1>10 DEF OneRegisters, LoseLease, Remove
  <2>2. HoldsNewest'
    BY <1>10, Zenon DEF OneRegisters, HoldsNewest, LoseLease, Remove
  <2>3. GrantsPaid'
    BY <1>10 DEF OneRegisters, HoldsNewest, GrantsPaid, Doomed, Lost, LoseLease, Remove
  <2>4. RegistryTypeOK'
    <3>1. live' \subseteq Leases /\ beats' \subseteq Leases /\ key' \in Leases \cup {NoLease}
      BY <1>10, Zenon DEF LoseLease, Remove
    <3>2. QED
      BY <1>10, <3>1 DEF LoseLease
  <2>5. QED
    BY <2>1, <2>2, <2>3, <2>4, <1>10 DEF OneRegisters, LoseLease, Remove
<1>11. ASSUME NEW l \in Leases, CloseChannel(l) PROVE RegistryIInv'
  <2>1. OneRegisters'
    BY <1>11 DEF OneRegisters, CloseChannel
  <2>2. HoldsNewest'
    BY <1>11 DEF OneRegisters, HoldsNewest, CloseChannel
  <2>3. GrantsPaid'
    BY <1>11 DEF OneRegisters, HoldsNewest, GrantsPaid, Doomed, Lost, CloseChannel
  <2>4. RegistryTypeOK'
    BY <1>11 DEF CloseChannel
  <2>5. QED
    BY <2>1, <2>2, <2>3, <2>4, <1>11 DEF OneRegisters, CloseChannel
<1>12. QED
  BY <1>1, <1>2, <1>3, <1>4, <1>5, <1>6, <1>7, <1>8, <1>9, <1>10, <1>11, Zenon

LEMMA InductiveInvariant == ASSUME MaxFaults \in Nat PROVE RegistryIInv /\ [RegistryNext]_registryVars => RegistryIInv'
<1> SUFFICES ASSUME RegistryIInv, [RegistryNext]_registryVars PROVE RegistryIInv'
  OBVIOUS
<1>1. ASSUME NEW p \in Procs, Register(p) PROVE RegistryIInv'
  BY <1>1, StepRegister
<1>2. CASE UNCHANGED registryVars
  BY <1>2 DEF registryVars, server, RegistryIInv, RenewsWhatItRevokes, RegistryTypeOK, OneRegisters, HoldsNewest,
              GrantsPaid, Doomed, Lost
<1>3. QED
  BY <1>1, <1>2, StepOther DEF RegistryNext, Owner, Worker, Procs

\* RenewsWhatItRevokes: whatever fails, and however often, the keepalive goroutine
\* watches the channel of r.lease and the key hangs on no other lease.
THEOREM RegistrationCorrect ==
  ASSUME MaxFaults \in Nat PROVE RegistrySpec => []RenewsWhatItRevokes
<1>1. RegistryIInv => RenewsWhatItRevokes
  BY DEF RegistryIInv
<1>2. QED
  BY <1>1, RegistryInitIInv, InductiveInvariant, PTL DEF RegistrySpec

-----------------------------------------------------------------------------
(* ServerRun *)

\* The kinds are the three of the commands.
ThreeKinds == Kinds \subseteq {"http", "proxy", "grpc"} /\ MaxActive \in Nat

\* RunServer stops a server, and the server of "grpc" stops itself, only when told.
StopInv ==
  /\ shut => ctx = "done"
  /\ main \in {"stop", "drain", "await"} => ctx = "done"
  /\ main \in {"drain", "await"} => shut
  /\ main \in {"listen", "select", "stop", "drain", "await"} => result = "none"

\* httpproxy: RunServer alone closes the listener, so the accept loop cannot end
\* before the signal.
ProxyInv ==
  /\ serving = "off" /\ active = 0 /\ start \in {"serve", "exited"} /\ main # "drain"
  /\ main = "listen" => lis = "none"
  /\ main \in {"select", "stop"} => lis = "open"
  /\ main = "await" => lis = "closed"
  /\ start = "serve" => startErr = "none"
  /\ start = "exited" => lis = "closed" /\ startErr = "nil" /\ ctx = "done"
  /\ main = "returned" =>
       \/ lis = "none" /\ result = "error"
       \/ lis = "closed" /\ result = "nil" /\ start = "exited"

\* fileserver and devtool: a listener that is opened after Shutdown is closed by
\* Serve, and no request is in progress on it.
HttpInv ==
  /\ serving = "off" /\ start \in {"listen", "serve", "exited"} /\ main # "listen"
  /\ start = "listen" => lis = "none" /\ startErr = "none" /\ active = 0
  /\ start = "serve" => lis # "none" /\ startErr = "none"
  /\ start = "exited" =>
       \/ lis = "none" /\ startErr = "error"
       \/ lis = "closed" /\ startErr \in {"closed", "error"}
  /\ startErr = "closed" => shut
  /\ shut /\ active > 0 => start # "listen" /\ lis # "open"
  /\ main = "returned" =>
       \/ start # "listen" /\ lis # "open" /\ result = "shutdown"
       \/ start = "exited" /\ result = normalizeServeError(startErr)

\* echoservice: Serve has exited only after the server it runs has closed the listener.
GrpcInv ==
  /\ main # "listen"
  /\ serving = "off" => lis = "none" /\ start \in {"listen", "exited"}
                        /\ (start = "exited" <=> startErr = "error")
                        /\ (start = "listen" <=> startErr = "none")
  /\ serving = "begin" => lis = "open" /\ startErr = "none"
  /\ serving = "run" => lis # "none" /\ startErr = "none"
  /\ serving = "exited" => lis = "closed" /\ startErr \in {"nil", "error"}
  /\ serving # "off" => start # "listen"
  /\ start = "exited" => serving \in {"off", "exited"}
  /\ startErr = "nil" => shut
  /\ main = "returned" => start = "exited" /\ result = normalizeServeError(startErr)

ServerIInv ==
  /\ ServerTypeOK /\ StopInv
  /\ kind = "proxy" => ProxyInv
  /\ kind = "http" => HttpInv
  /\ kind = "grpc" => GrpcInv

-----------------------------------------------------------------------------
(* Types *)

LEMMA ActiveType ==
  ASSUME ThreeKinds, ServerTypeOK, [ServerNext]_serverVars
  PROVE  active' \in 0 .. MaxActive
<1>1. ASSUME ClientBegins PROVE active' \in 0 .. MaxActive
  BY <1>1 DEF ThreeKinds, ServerTypeOK, ClientBegins
<1>2. ASSUME ClientEnds PROVE active' \in 0 .. MaxActive
  BY <1>2 DEF ThreeKinds, ServerTypeOK, ClientEnds
<1>3. ASSUME UNCHANGED active PROVE active' \in 0 .. MaxActive
  BY <1>3 DEF ServerTypeOK
<1>4. QED
  BY <1>1, <1>2, <1>3 DEF ServerNext, Program, serverVars, ProxyListen, ProxyAccept, HttpListen, HttpServe,
     GrpcListen, GrpcServe, GrpcServing, Select, StopServer, Drained, Await, GraceEnds, Signal

LEMMA NextTypeOK ==
  ASSUME ThreeKinds, ServerTypeOK, [ServerNext]_serverVars
  PROVE  ServerTypeOK'
<1>1. active' \in 0 .. MaxActive
  BY ActiveType
<1>2. shut' \in BOOLEAN
  BY Zenon DEF ServerTypeOK, ServerNext, Program, serverVars, ProxyListen, ProxyAccept, HttpListen, HttpServe, GrpcListen,
     GrpcServe, GrpcServing, Select, StopServer, Drained, Await, GraceEnds, Signal, ClientBegins, ClientEnds
<1>3. kind' = kind /\ ctx' \in {"live", "done"}
  BY DEF ServerTypeOK, ServerNext, Program, serverVars, ProxyListen, ProxyAccept, HttpListen, HttpServe, GrpcListen,
     GrpcServe, GrpcServing, Select, StopServer, Drained, Await, GraceEnds, Signal, ClientBegins, ClientEnds
<1>4. main' \in {"listen", "select", "stop", "drain", "await", "returned"}
  BY DEF ServerTypeOK, ServerNext, Program, serverVars, ProxyListen, ProxyAccept, HttpListen, HttpServe, GrpcListen,
     GrpcServe, GrpcServing, Select, StopServer, Drained, Await, Return, GraceEnds, Signal, ClientBegins,
     ClientEnds
<1>5. result' \in {"none", "nil", "error", "shutdown"}
  BY DEF ServerTypeOK, ServerNext, Program, serverVars, ProxyListen, ProxyAccept, HttpListen, HttpServe, GrpcListen,
     GrpcServe, GrpcServing, Select, StopServer, Drained, Await, Return, normalizeServeError, GraceEnds,
     Signal, ClientBegins, ClientEnds
<1>6. start' \in {"listen", "serve", "graceful", "drain", "exited"}
  BY DEF ServerTypeOK, ServerNext, Program, serverVars, ProxyListen, ProxyAccept, HttpListen, HttpServe, GrpcListen,
     GrpcServe, GrpcServing, Select, StopServer, Drained, Await, Exit, GraceEnds, Signal, ClientBegins,
     ClientEnds
<1>7. startErr' \in {"none", "nil", "closed", "cancelled", "error"}
  BY DEF ServerTypeOK, ServerNext, Program, serverVars, ProxyListen, ProxyAccept, HttpListen, HttpServe, GrpcListen,
     GrpcServe, GrpcServing, Select, StopServer, Drained, Await, Exit, GraceEnds, Signal, ClientBegins,
     ClientEnds
<1>8. serving' \in {"off", "begin", "run", "exited"} /\ lis' \in {"none", "open", "closed"}
  BY DEF ServerTypeOK, ServerNext, Program, serverVars, ProxyListen, ProxyAccept, HttpListen, HttpServe, GrpcListen,
     GrpcServe, GrpcServing, Select, StopServer, Drained, Await, Exit, GraceEnds, Signal, ClientBegins,
     ClientEnds
<1>9. QED
  BY <1>1, <1>2, <1>3, <1>4, <1>5, <1>6, <1>7, <1>8 DEF ServerTypeOK

-----------------------------------------------------------------------------
(* The inductive invariant *)

LEMMA ServerInitIInv == ASSUME ThreeKinds, ServerInit PROVE ServerIInv
<1>1. ServerTypeOK
  <2>1. shut \in BOOLEAN
    BY Zenon DEF ServerInit
  <2>2. active \in 0 .. MaxActive
    BY DEF ThreeKinds, ServerInit
  <2>3. QED
    BY <2>1, <2>2 DEF ServerInit, ServerTypeOK
<1>2. StopInv
  BY DEF ServerInit, StopInv
<1>3. kind = "proxy" => ProxyInv
  BY DEF ServerInit, ProxyInv
<1>4. kind = "http" => HttpInv
  BY DEF ServerInit, HttpInv
<1>5. kind = "grpc" => GrpcInv
  BY DEF ServerInit, GrpcInv
<1>6. QED
  BY <1>1, <1>2, <1>3, <1>4, <1>5 DEF ServerIInv

LEMMA StopStep == ASSUME ServerTypeOK, StopInv, kind # "proxy" => main # "listen", [ServerNext]_serverVars PROVE StopInv'
  BY DEF ServerTypeOK, StopInv, ServerNext, Program, serverVars, ProxyListen, ProxyAccept, HttpListen, HttpServe,
     GrpcListen, GrpcServe, GrpcServing, Select, StopServer, Drained, Await, Return, Exit, GraceEnds,
     Signal, ClientBegins, ClientEnds

\* httpproxy: no request is counted, no step is one of Shutdown.
LEMMA ProxyStep == ASSUME ServerTypeOK, StopInv, kind = "proxy", ProxyInv, [ServerNext]_serverVars PROVE ProxyInv'
<1>1. CASE ProxyListen
  BY <1>1 DEF StopInv, ProxyInv, ProxyListen
<1>2. CASE ProxyAccept
  BY <1>2 DEF ServerTypeOK, StopInv, ProxyInv, ProxyAccept, Exit
<1>3. CASE Select
  BY <1>3 DEF ServerTypeOK, StopInv, ProxyInv, Select, Return
<1>4. CASE StopServer
  BY <1>4 DEF ServerTypeOK, StopInv, ProxyInv, StopServer
<1>5. CASE Await
  BY <1>5 DEF ServerTypeOK, StopInv, ProxyInv, Await, Return, normalizeServeError
<1>6. CASE Signal
  BY <1>6 DEF ServerTypeOK, StopInv, ProxyInv, Signal
<1>7. CASE UNCHANGED serverVars
  BY <1>7 DEF ProxyInv, serverVars
<1>8. ~(HttpListen \/ HttpServe \/ GrpcListen \/ GrpcServe \/ GrpcServing \/ Drained \/ GraceEnds
        \/ ClientBegins \/ ClientEnds)
  <2>1. ~ClientEnds
    BY DEF ProxyInv, ClientEnds
  <2>2. QED
    BY <2>1 DEF ProxyInv, HttpListen, HttpServe, GrpcListen, GrpcServe, GrpcServing, Drained,
       GraceEnds, ClientBegins
<1>9. QED
  BY <1>1, <1>2, <1>3, <1>4, <1>5, <1>6, <1>7, <1>8 DEF ServerNext, Program

\* fileserver and devtool.
LEMMA HttpStep == ASSUME ThreeKinds, ServerTypeOK, StopInv, kind = "http", HttpInv, [ServerNext]_serverVars PROVE HttpInv'
<1>0. active \in Nat
  BY DEF ThreeKinds, ServerTypeOK
<1>1. CASE HttpListen
  BY <1>0, <1>1 DEF ServerTypeOK, StopInv, HttpInv, HttpListen, Exit
<1>2. CASE HttpServe
  BY <1>0, <1>2 DEF ServerTypeOK, StopInv, HttpInv, HttpServe, Exit, normalizeServeError
<1>3. CASE Select
  BY <1>0, <1>3 DEF ServerTypeOK, StopInv, HttpInv, Select, Return, normalizeServeError
<1>4. CASE StopServer
  BY <1>0, <1>4 DEF ServerTypeOK, StopInv, HttpInv, StopServer
<1>5. CASE Drained
  BY <1>0, <1>5 DEF ServerTypeOK, StopInv, HttpInv, Drained
<1>6. CASE GraceEnds
  BY <1>0, <1>6 DEF ServerTypeOK, StopInv, HttpInv, GraceEnds, Return
<1>7. CASE Await
  BY <1>0, <1>7 DEF ServerTypeOK, StopInv, HttpInv, Await, Return, normalizeServeError
<1>8. CASE Signal
  BY <1>8 DEF ServerTypeOK, StopInv, HttpInv, Signal, normalizeServeError
<1>9. CASE ClientBegins
  BY <1>0, <1>9 DEF ServerTypeOK, StopInv, HttpInv, ClientBegins, normalizeServeError
<1>10. CASE ClientEnds
  BY <1>0, <1>10 DEF ServerTypeOK, StopInv, HttpInv, ClientEnds, normalizeServeError
<1>11. CASE UNCHANGED serverVars
  BY <1>11 DEF HttpInv, serverVars, normalizeServeError
<1>12. ~(ProxyListen \/ ProxyAccept \/ GrpcListen \/ GrpcServe \/ GrpcServing)
  BY DEF HttpInv, ProxyListen, ProxyAccept, GrpcListen, GrpcServe, GrpcServing
<1>13. QED
  BY <1>1, <1>2, <1>3, <1>4, <1>5, <1>6, <1>7, <1>8, <1>9, <1>10, <1>11, <1>12 DEF ServerNext, Program

\* echoservice.
LEMMA GrpcStep == ASSUME ServerTypeOK, StopInv, kind = "grpc", GrpcInv, [ServerNext]_serverVars PROVE GrpcInv'
<1>1. CASE GrpcListen
  BY <1>1 DEF ServerTypeOK, StopInv, GrpcInv, GrpcListen, Exit
<1>2. CASE GrpcServe
  BY <1>2 DEF ServerTypeOK, StopInv, GrpcInv, GrpcServe, Exit
<1>3. CASE GrpcServing
  BY <1>3 DEF ServerTypeOK, StopInv, GrpcInv, GrpcServing
<1>4. CASE Select
  BY <1>4 DEF ServerTypeOK, StopInv, GrpcInv, Select, Return
<1>5. CASE StopServer
  BY <1>5 DEF ServerTypeOK, StopInv, GrpcInv, StopServer
<1>6. CASE Drained
  BY <1>6 DEF ServerTypeOK, StopInv, GrpcInv, Drained
<1>7. CASE Await
  BY <1>7 DEF ServerTypeOK, StopInv, GrpcInv, Await, Return
<1>8. CASE Signal
  BY <1>8 DEF ServerTypeOK, StopInv, GrpcInv, Signal
<1>9. CASE ClientBegins \/ ClientEnds
  BY <1>9 DEF GrpcInv, ClientBegins, ClientEnds
<1>10. CASE UNCHANGED serverVars
  BY <1>10 DEF GrpcInv, serverVars
<1>11. ~(ProxyListen \/ ProxyAccept \/ HttpListen \/ HttpServe \/ GraceEnds)
  BY DEF GrpcInv, ProxyListen, ProxyAccept, HttpListen, HttpServe, GraceEnds
<1>12. QED
  BY <1>1, <1>2, <1>3, <1>4, <1>5, <1>6, <1>7, <1>8, <1>9, <1>10, <1>11 DEF ServerNext, Program

LEMMA NextIInv == ASSUME ThreeKinds, ServerIInv, [ServerNext]_serverVars PROVE ServerIInv'
<1>1. ServerTypeOK'
  BY NextTypeOK DEF ServerIInv
<1>2. kind \in {"http", "proxy", "grpc"}
  BY DEF ThreeKinds, ServerIInv, ServerTypeOK
<1>3. kind' = kind
  BY DEF ServerNext, Program, serverVars, ProxyListen, ProxyAccept, HttpListen, HttpServe, GrpcListen,
     GrpcServe, GrpcServing, Select, StopServer, Drained, Await, GraceEnds, Signal, ClientBegins, ClientEnds
<1>4. kind # "proxy" => main # "listen"
  BY <1>2 DEF ServerIInv, HttpInv, GrpcInv
<1>5. StopInv'
  BY <1>4, StopStep DEF ServerIInv
<1>6. (kind = "proxy" => ProxyInv)'
  BY <1>3, ProxyStep DEF ServerIInv
<1>7. (kind = "http" => HttpInv)'
  BY <1>3, HttpStep DEF ServerIInv
<1>8. (kind = "grpc" => GrpcInv)'
  BY <1>3, GrpcStep DEF ServerIInv
<1>9. QED
  BY <1>1, <1>5, <1>6, <1>7, <1>8 DEF ServerIInv

LEMMA Lifetime == ASSUME ThreeKinds, ServerIInv PROVE WellDefinedLifetime
<1>1. kind \in {"http", "proxy", "grpc"}
  BY DEF ThreeKinds, ServerIInv, ServerTypeOK
<1>2. CASE kind = "proxy"
  BY <1>2 DEF ServerIInv, ServerTypeOK, StopInv, ProxyInv, WellDefinedLifetime
<1>3. CASE kind = "http"
  BY <1>3 DEF ServerIInv, ServerTypeOK, StopInv, HttpInv, WellDefinedLifetime, normalizeServeError
<1>4. CASE kind = "grpc"
  BY <1>4 DEF ServerIInv, ServerTypeOK, StopInv, GrpcInv, WellDefinedLifetime, normalizeServeError
<1>5. QED
  BY <1>1, <1>2, <1>3, <1>4

\* For each of the three kinds of server and any number of requests in progress:
\* RunServer returns only when the server it started has exited and its listener is
\* closed (but for a Shutdown out of time), and nil only for a server told to stop.
THEOREM LifetimeCorrect ==
  ASSUME ThreeKinds
  PROVE  ServerSpec => []WellDefinedLifetime
<1>1. ServerInit => ServerIInv
  BY ServerInitIInv
<1>2. ServerIInv /\ [ServerNext]_serverVars => ServerIInv'
  BY NextIInv
<1>3. ServerIInv => WellDefinedLifetime
  BY Lifetime DEF ServerIInv
<1>4. QED
  BY <1>1, <1>2, <1>3, PTL DEF ServerSpec

-----------------------------------------------------------------------------
(* Agent *)

\* The event loop is not one of the watchers, and NoOne is no goroutine.
Names == Main \notin Watchers /\ NoOne \notin Watchers

Labels == {"select", "wait", "lock", "post", "beat", "done", "off", "stat", "add"}

\* The versions are numbers, and the file has the newest: no request that was given up
\* carries a newer one.
VersionInv ==
  /\ changes \in Nat
  /\ file \in [exists : BOOLEAN, whole : BOOLEAN, ver : Nat, ino : Nat]
  /\ collected \in Nat
  /\ collected <= file.ver /\ file.ver <= changes
  /\ \A v \in late : v \in Nat /\ v <= file.ver

\* Between its reading of the file and the end of its POST a goroutine holds
\* fileLock, and only then it has something to send.
LockInv ==
  /\ pc \in [Goroutines -> Labels]
  /\ content \in [Goroutines -> Nat]
  /\ \A g \in Goroutines :
       /\ pc[g] = "post" <=> mutex = g
       /\ pc[g] # "post" => content[g] = 0

\* What it is about to send is no older than what the collector has, or may still get
\* from a request that was given up.
SendInv ==
  \A g \in Goroutines :
    content[g] # 0 =>
      /\ collected <= content[g] /\ content[g] <= file.ver
      /\ \A v \in late : v <= content[g]

AgentIInv == VersionInv /\ LockInv /\ SendInv

\* The step that NeverBackwards allows.
Forwards == collected' >= collected \/ (collected' \in late /\ late' = late \ {collected'})

LEMMA AgentInitIInv == Names /\ AgentInit => AgentIInv
<1> SUFFICES ASSUME Names, AgentInit PROVE AgentIInv
  OBVIOUS
<1>1. file \in [exists : BOOLEAN, whole : BOOLEAN, ver : Nat, ino : Nat]
  BY DEF AgentInit
<1>2. VersionInv
  BY <1>1 DEF AgentInit, VersionInv
<1>3. LockInv
  BY DEF AgentInit, LockInv, Names, Goroutines, Labels, Main, NoOne
<1>4. SendInv
  BY DEF AgentInit, SendInv
<1>5. QED
  BY <1>2, <1>3, <1>4 DEF AgentIInv

\* The other program makes versions that are newer than any before.
LEMMA DiskStep == AgentIInv /\ (Change \/ WriteRest) => AgentIInv'
<1> SUFFICES ASSUME AgentIInv, Change \/ WriteRest PROVE AgentIInv'
  OBVIOUS
<1>1. UNCHANGED <<pc, content, mutex, collected, late>>
  BY DEF Change, WriteRest
<1>2. LockInv'
  BY <1>1 DEF AgentIInv, LockInv
<1>3. CASE Change
  <2>1. /\ changes' = changes + 1
        /\ file' \in [exists : BOOLEAN, whole : BOOLEAN, ver : Nat, ino : Nat]
        /\ file.ver <= file'.ver /\ file'.ver <= changes'
    <3>1. changes' = changes + 1 /\ changes \in Nat /\ changes' \in Nat
      BY <1>3 DEF Change, AgentIInv, VersionInv
    <3>2. CASE file' = [exists |-> TRUE, whole |-> FALSE, ver |-> changes + 1,
                        ino |-> changes + 1]
      BY <3>1, <3>2 DEF AgentIInv, VersionInv
    <3>3. CASE file' = [file EXCEPT !.whole = FALSE, !.ver = changes + 1]
      <4>1. /\ file' \in [exists : BOOLEAN, whole : BOOLEAN, ver : Nat, ino : Nat]
            /\ file'.ver = changes + 1
        BY <3>1, <3>3, Zenon DEF AgentIInv, VersionInv
      <4>2. QED
        BY <3>1, <4>1 DEF AgentIInv, VersionInv
    <3>4. CASE file' = [file EXCEPT !.exists = FALSE]
      <4>1. /\ file' \in [exists : BOOLEAN, whole : BOOLEAN, ver : Nat, ino : Nat]
            /\ file'.ver = file.ver
        BY <3>1, <3>4, Zenon DEF AgentIInv, VersionInv
      <4>2. QED
        BY <3>1, <4>1 DEF AgentIInv, VersionInv
    <3>5. QED
      BY <1>3, <3>2, <3>3, <3>4 DEF Change
  <2>2. QED
    BY <1>1, <1>2, <2>1 DEF AgentIInv, VersionInv, SendInv, LockInv
<1>4. CASE WriteRest
  <2>1. /\ file' \in [exists : BOOLEAN, whole : BOOLEAN, ver : Nat, ino : Nat]
        /\ file'.ver = file.ver /\ changes' = changes
    BY <1>4, Zenon DEF WriteRest, AgentIInv, VersionInv
  <2>2. QED
    BY <1>1, <1>2, <2>1 DEF AgentIInv, VersionInv, SendInv
<1>5. QED
  BY <1>3, <1>4

\* Steps outside the critical section of fileLock.
LEMMA OutsideStep ==
  Names /\ AgentIInv /\ (\/ StopAgent \/ Event \/ sendHeartbeat \/ Shutdown \/ waitForCompleteWrite
                    \/ \E w \in Watchers : Stat(w) \/ Add(w))
    => AgentIInv'
<1> SUFFICES ASSUME Names, AgentIInv,
                    \/ StopAgent \/ Event \/ sendHeartbeat \/ Shutdown \/ waitForCompleteWrite
                    \/ \E w \in Watchers : Stat(w) \/ Add(w)
             PROVE  AgentIInv'
  OBVIOUS
<1>1. UNCHANGED <<file, changes, content, mutex, collected, late>>
  BY DEF StopAgent, Event, sendHeartbeat, Shutdown, waitForCompleteWrite, Stat, Add, diskVars
<1>2. /\ pc' \in [Goroutines -> Labels]
      /\ \A g \in Goroutines : pc'[g] = "post" <=> pc[g] = "post"
  BY DEF StopAgent, Event, sendHeartbeat, Shutdown, waitForCompleteWrite, Stat, Add, Go, AgentIInv,
         LockInv, Labels, Goroutines
<1>3. QED
  BY <1>1, <1>2 DEF AgentIInv, VersionInv, LockInv, SendInv

LEMMA LoadStep ==
  ASSUME Names, AgentIInv, NEW g \in Goroutines, Load(g)
  PROVE  AgentIInv'
<1>1. UNCHANGED <<file, changes, collected, late>>
  BY DEF Load, diskVars
<1>2. VersionInv'
  BY <1>1 DEF AgentIInv, VersionInv
<1>3. \A h \in Goroutines : pc[h] # "post" /\ content[h] = 0
  BY DEF Load, AgentIInv, LockInv, Names, Goroutines, Main, NoOne
<1>4. CASE file.exists /\ Go(g, "post") /\ mutex' = g
           /\ content' = [content EXCEPT ![g] = IF file.whole THEN file.ver ELSE 0]
  <2>1. (IF file.whole THEN file.ver ELSE 0) \in {0, file.ver} /\ file.ver \in Nat
    BY DEF AgentIInv, VersionInv
  <2>2. content' \in [Goroutines -> Nat] /\ content'[g] \in {0, file.ver}
        /\ \A h \in Goroutines : h # g => content'[h] = 0
    BY <1>3, <1>4, <2>1 DEF AgentIInv, LockInv
  <2>3. LockInv'
    BY <1>3, <1>4, <2>2 DEF Go, AgentIInv, LockInv, Labels
  <2>4. SendInv'
    BY <1>1, <1>2, <2>2 DEF SendInv, VersionInv
  <2>5. QED
    BY <1>2, <2>3, <2>4 DEF AgentIInv
<1>5. CASE ~ file.exists /\ Go(g, After(g)) /\ UNCHANGED <<mutex, content>>
  <2>1. LockInv'
    BY <1>3, <1>5 DEF Go, After, AgentIInv, LockInv, Labels
  <2>2. SendInv'
    BY <1>1, <1>5 DEF AgentIInv, SendInv
  <2>3. QED
    BY <1>2, <2>1, <2>2 DEF AgentIInv
<1>6. QED
  BY <1>4, <1>5 DEF Load

LEMMA PostStep ==
  ASSUME Names, AgentIInv, NEW g \in Goroutines, Post(g)
  PROVE  AgentIInv' /\ collected' >= collected
<1>1. /\ file' = file /\ changes' = changes
      /\ collected' = collected \/ (content[g] # 0 /\ collected' = content[g])
      /\ \A v \in late' : v \in late \/ (content[g] # 0 /\ v = content[g])
  BY DEF Post, diskVars
<1>2. collected' \in Nat /\ collected' >= collected /\ collected' <= file.ver
  BY <1>1 DEF AgentIInv, VersionInv, LockInv, SendInv
<1>3. \A h \in Goroutines : h # g => pc[h] # "post" /\ content[h] = 0
  BY DEF Post, AgentIInv, LockInv
<1>4. /\ content' \in [Goroutines -> Nat]
      /\ \A h \in Goroutines : content'[h] = 0
  BY <1>3 DEF Post, AgentIInv, LockInv
<1>5. \A v \in late' : v \in Nat /\ v <= file.ver
  BY <1>1 DEF AgentIInv, VersionInv, LockInv, SendInv
<1>6. LockInv'
  BY <1>3, <1>4 DEF Post, Go, After, AgentIInv, LockInv, Labels, Goroutines, Names, NoOne, Main
<1>7. QED
  BY <1>1, <1>2, <1>4, <1>5, <1>6 DEF AgentIInv, VersionInv, SendInv

\* A request that was given up arrives: the collector may go back, but not beyond what
\* is about to be sent.
LEMMA LateStep ==
  ASSUME AgentIInv, LateArrival
  PROVE  AgentIInv' /\ Forwards
<1>1. PICK v \in late : collected' = v /\ late' = late \ {v}
  BY DEF LateArrival
<1>2. UNCHANGED <<file, changes, pc, content, mutex>>
  BY DEF LateArrival, diskVars
<1>3. LockInv'
  BY <1>2 DEF AgentIInv, LockInv
<1>4. VersionInv'
  BY <1>1, <1>2 DEF AgentIInv, VersionInv
<1>5. SendInv'
  BY <1>1, <1>2 DEF AgentIInv, SendInv
<1>6. QED
  BY <1>1, <1>3, <1>4, <1>5 DEF AgentIInv, Forwards

LEMMA InductiveStep == Names /\ AgentIInv /\ [AgentNext]_agentVars => AgentIInv' /\ Forwards
<1> SUFFICES ASSUME Names, AgentIInv, [AgentNext]_agentVars PROVE AgentIInv' /\ Forwards
  OBVIOUS
<1>1. ASSUME NEW g \in Goroutines, Step(g) PROVE AgentIInv' /\ Forwards
  <2>1. CASE Load(g)
    <3>1. collected' = collected
      BY <2>1 DEF Load
    <3>2. QED
      BY <2>1, <3>1, LoadStep DEF AgentIInv, VersionInv, Forwards
  <2>2. QED
    BY <1>1, <2>1, PostStep DEF Step, Forwards
<1>2. CASE Change \/ WriteRest
  <2>1. collected' = collected
    BY <1>2 DEF Change, WriteRest
  <2>2. QED
    BY <1>2, <2>1, DiskStep DEF AgentIInv, VersionInv, Forwards
<1>3. CASE \/ StopAgent \/ Event \/ sendHeartbeat \/ Shutdown \/ waitForCompleteWrite
           \/ \E w \in Watchers : Stat(w) \/ Add(w)
  <2>1. collected' = collected
    BY <1>3 DEF StopAgent, Event, sendHeartbeat, Shutdown, waitForCompleteWrite, Stat, Add
  <2>2. QED
    BY <1>3, <2>1, OutsideStep DEF AgentIInv, VersionInv, Forwards
<1>4. CASE UNCHANGED agentVars
  BY <1>4 DEF agentVars, AgentIInv, VersionInv, LockInv, SendInv, Forwards
<1>5. CASE LateArrival
  BY <1>5, LateStep
<1>6. QED
  BY <1>1, <1>2, <1>3, <1>4, <1>5 DEF AgentNext, Watch, Goroutines

\* The agent never gives the collector an older state of the file after a newer one:
\* fileLock is held from the reading of the file to the end of the POST.  Only a request
\* that was given up before, and arrives late, takes the collector back.
THEOREM ForwardsOnly == ASSUME Names PROVE AgentSpec => NeverBackwards
<1>1. AgentSpec => []AgentIInv
  BY AgentInitIInv, InductiveStep, PTL DEF AgentSpec
<1>2. QED
  BY <1>1, InductiveStep, PTL DEF AgentSpec, NeverBackwards, Forwards
==============================================================================
