----------------------------- MODULE MCServices ------------------------------
(***************************************************************************)
(* The services and long-lived clients that must end or notice something,  *)
(* for TLC.  They share no state and one of them runs in each behaviour,   *)
(* part saying which; the variables of the others stay at their initial    *)
(* values.                                                                 *)
(***************************************************************************)
EXTENDS EtcdRegistry, ServerRun, Agent

CONSTANT Addresses   \* of EtcdWatcher

VARIABLES
  part,
  wanted, log, wMain, wPc, rev, endpoints, pos, wOpen, from, wShown, wDone, wStopped, closes,
  method, tHandler, copier, tOpen, inbound, buffered, tSent, received, stalled,
  framing, hMain, hReader, beat, hOpen, cut, hWire, verdict,
  mode, kMain, input, reader, ch, cancelled, open, wire, sreader, handler, typed, sent, shown

watchVars ==
  <<wanted, log, wMain, wPc, rev, endpoints, pos, wOpen, from, wShown, wDone, wStopped, closes>>
tunnelVars == <<method, tHandler, copier, tOpen, inbound, buffered, tSent, received, stalled>>
beatVars == <<framing, hMain, hReader, beat, hOpen, cut, hWire, verdict>>
socketVars ==
  <<mode, kMain, input, reader, ch, cancelled, open, wire, sreader, handler, typed, sent, shown>>
mcVars == <<part, registryVars, watchVars, serverVars, tunnelVars, beatVars, socketVars, agentVars>>

\* Two groups, so that the fallback to the default group comes into play.
W == INSTANCE EtcdWatcher WITH
       Groups <- {"g"}, Wanted <- {"default", "g"}, Garbage <- {"bad"}, MaxLog <- 2,
       MaxCloses <- 1, main <- wMain, pc <- wPc, open <- wOpen, shown <- wShown,
       ctxDone <- wDone, stopped <- wStopped

T == INSTANCE Tunnel WITH Methods <- {"CONNECT", "GET"}, MaxData <- 2,
       handler <- tHandler, open <- tOpen, sent <- tSent

H == INSTANCE Heartbeat WITH Framings <- {"line", "ldm"}, MaxWire <- 2,
       main <- hMain, reader <- hReader, open <- hOpen, wire <- hWire

K == INSTANCE WebSocket WITH Modes <- {"simple", "gorilla"}, Cap <- 1, MaxLines <- 3,
       main <- kMain

MCInit ==
  /\ part \in {"registry", "watcher", "server", "tunnel", "heartbeat", "websocket", "agent"}
  /\ RegistryInit /\ W!Init /\ ServerInit /\ T!Init /\ H!Init /\ K!Init /\ AgentInit
  /\ part # "watcher" => wanted = "g"
  /\ part # "server" => kind = "http"
  /\ part # "tunnel" => method = "GET"
  /\ part # "heartbeat" => framing = "line"
  /\ part # "websocket" => mode = "simple"
  /\ pc[CHOOSE w \in Watchers : TRUE] = "stat"

\* The others stay as they are while one part works.
OnlyRegistry ==
  /\ part = "registry"
  /\ UNCHANGED <<part, watchVars, serverVars, tunnelVars, beatVars, socketVars, agentVars>>
OnlyWatcher ==
  /\ part = "watcher"
  /\ UNCHANGED <<part, registryVars, serverVars, tunnelVars, beatVars, socketVars, agentVars>>
OnlyServer ==
  /\ part = "server"
  /\ UNCHANGED <<part, registryVars, watchVars, tunnelVars, beatVars, socketVars, agentVars>>
OnlyTunnel ==
  /\ part = "tunnel"
  /\ UNCHANGED <<part, registryVars, watchVars, serverVars, beatVars, socketVars, agentVars>>
OnlyHeartbeat ==
  /\ part = "heartbeat"
  /\ UNCHANGED <<part, registryVars, watchVars, serverVars, tunnelVars, socketVars, agentVars>>
OnlySocket ==
  /\ part = "websocket"
  /\ UNCHANGED <<part, registryVars, watchVars, serverVars, tunnelVars, beatVars, agentVars>>
OnlyAgent ==
  /\ part = "agent"
  /\ UNCHANGED <<part, registryVars, watchVars, serverVars, tunnelVars, beatVars, socketVars>>

MCNext ==
  \/ OnlyRegistry /\ RegistryNext
  \/ OnlyWatcher /\ W!Next
  \/ OnlyServer /\ ServerNext
  \/ OnlyTunnel /\ T!Next
  \/ OnlyHeartbeat /\ H!Next
  \/ OnlySocket /\ K!Next
  \/ OnlyAgent /\ AgentNext

MCSpec == MCInit /\ [][MCNext]_mcVars

\* The fairness of each part.
MCFairSpec ==
  /\ MCSpec
  /\ WF_registryVars(part = "registry" /\ Owner)
  /\ WF_registryVars(part = "registry" /\ Worker)
  /\ \A l \in Leases : /\ WF_registryVars(part = "registry" /\ Expire(l))
                       /\ WF_registryVars(part = "registry" /\ CloseChannel(l))
  /\ WF_watchVars(part = "watcher" /\ W!Main)
  /\ WF_watchVars(part = "watcher" /\ W!Watching)
  /\ WF_serverVars(part = "server" /\ (ProxyListen \/ Select \/ StopServer \/ Drained \/ Await))
  /\ WF_serverVars(part = "server" /\ (ProxyAccept \/ HttpListen \/ GrpcListen \/ GrpcServe))
  /\ WF_serverVars(part = "server" /\ shut /\ HttpServe)
  /\ WF_serverVars(part = "server" /\ (shut \/ serving = "begin") /\ GrpcServing)
  /\ WF_serverVars(part = "server" /\ GraceEnds)
  /\ WF_tunnelVars(part = "tunnel" /\ T!Proxy)
  /\ WF_tunnelVars(part = "tunnel" /\ T!CopyToTarget)
  /\ \A s \in {"client", "server"} :
       /\ WF_beatVars(part = "heartbeat" /\ H!Main(s))
       /\ WF_beatVars(part = "heartbeat" /\ H!Beat(s))
       /\ WF_beatVars(part = "heartbeat" /\ H!Reader(s))
  /\ WF_socketVars(part = "websocket" /\ K!Main)
  /\ WF_socketVars(part = "websocket" /\ K!ReadLoop)
  /\ WF_socketVars(part = "websocket" /\ K!Put)
  /\ WF_socketVars(part = "websocket" /\ K!Server)
  /\ WF_agentVars(part = "agent" /\ WriteRest)
  /\ WF_agentVars(part = "agent" /\ Loop)
  /\ \A w \in Watchers : WF_agentVars(part = "agent" /\ Watch(w))
  /\ SF_agentVars(part = "agent" /\ Event)
  /\ SF_agentVars(part = "agent" /\ Shutdown)

-----------------------------------------------------------------------------
(* Properties *)

\* RenewsWhatItRevokes of EtcdRegistry, WellDefinedLifetime of ServerRun and
\* NeverBackwards of Agent are checked as these modules state them.

\* The proxy's tunnel and the WebSocket echo pass on what they were sent, in order and
\* without a gap.
StreamsInOrder == T!TypeOK /\ T!RelaysInOrder /\ K!TypeOK /\ K!EchoesInOrder

\* Heartbeat: on an open channel a heartbeat takes the PONG to its own PING for its
\* answer, and nothing else; a closed channel passes for one only after the end.
AnsweredByItsPong == H!TypeOK /\ H!AnsweredByItsPong

\* EtcdRegistry: a lost key comes back while RegisterETCD waits, and is gone for good
\* after it has returned.
RegisteredWhileWanted == StaysRegistered /\ GoneAfterExit

\* EtcdWatcher: the watch delivers until it is cancelled, but for the changes made
\* while its channel is closed, and then ends.
WatchProgresses == part = "watcher" => W!WatchProgresses

\* What the parts wait for: as part does not change, one leads-to states StopsOnSignal,
\* TunnelEnds, CatchesUp and the first halves of DialogueEnds and DeadPeerNoticed, and
\* another one the second halves of these two.
Due ==
  \/ part = "server" /\ Told
  \/ part = "tunnel" /\ T!TargetGone
  \/ part = "websocket" /\ K!Over
  \/ part = "heartbeat" /\ cut
  \/ part = "agent" /\ AtRest
Done ==
  \/ part = "server" /\ Stopped
  \/ part = "tunnel" /\ T!Ended
  \/ part = "websocket" /\ K!ClientEnded
  \/ part = "heartbeat" /\ H!ClientLeft
  \/ part = "agent" /\ Collected
DuePeer ==
  \/ part = "websocket" /\ "client" \notin open
  \/ part = "heartbeat" /\ H!ClientLeft
DonePeer ==
  \/ part = "websocket" /\ K!HandlerEnded
  \/ part = "heartbeat" /\ H!ServerLeft

\* What has lost its peer, or was told to stop, ends: RunServer after the signal, the
\* tunnel after its target, the WebSocket client and handler after each other, the
\* heartbeat's client after the link; and the agent sends the last state of its file.
EndsAndCatchesUp == (Due ~> Done) /\ (DuePeer ~> DonePeer)
==============================================================================
