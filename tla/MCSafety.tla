------------------------------ MODULE MCSafety -------------------------------
(***************************************************************************)
(* The parts that only safety properties are stated of, for TLC.  They     *)
(* share no state and one of them is used in each behaviour, part saying   *)
(* which.  Listener has its variables, and one set serves for all others:  *)
(* each of them gives v1, v2, ... its own names, and those that it does    *)
(* not need stay Idle.                                                     *)
(***************************************************************************)
EXTENDS Listener, Integers, Sequences, TLC

CONSTANTS
  Calls,                                 \* of GRPCClient, TCPClient and Fetcher
  Addresses,                             \* of EtcdWatcher
  Subs, Cleaners, Timers, Publishers     \* of PubSub

VARIABLES
  part, v1, v2, v3, v4, v5, v6, v7, v8, v9, v10, v11, v12, v13, v14, v15, v16, v17, v18, v19

\* An orderly server with patient callers; and answers that come early, callers that give
\* up, and a GOAWAY, any two of them together.
Disorderly(eager, cancels, goaways) ==
  [eager |-> eager, cancels |-> cancels, goaways |-> goaways, codes |-> {0}, wire |-> 1]
Modes ==
  {[eager |-> FALSE, cancels |-> FALSE, goaways |-> 0, codes |-> {0, 1}, wire |-> 3],
   Disorderly(TRUE, TRUE, 0), Disorderly(TRUE, FALSE, 1), Disorderly(FALSE, TRUE, 1)}

G == INSTANCE GRPCClient WITH MaxSettings <- 1,
       npc <- v1, pc <- v2, streams <- v3, closes <- v4, status <- v5, payload <- v6,
       result <- v7, excused <- v8, loop <- v9, cancelled <- v10, acked <- v11,
       decoded <- v12, wire <- v13, eof <- v14, seen <- v15, sent <- v16, code <- v17,
       blocks <- v18, peer <- v19

\* A lax server, one that goes away in the middle of a message, and one that fails.
Answers(codes, split, lax, control) ==
  [codes |-> codes, split |-> split, lax |-> lax, control |-> control]

T == INSTANCE TCPClient WITH MaxIn <- 1,
       Servers <- {Answers({0, 2}, FALSE, TRUE, 0), Answers({0}, TRUE, FALSE, 1),
                   Answers({2}, FALSE, FALSE, 1)},
       new <- v1, call <- v2, idGen <- v3, streams <- v4, loop <- v5, acked <- v6, up <- v7,
       out <- v8, in <- v9, answered <- v10, control <- v11, lost <- v12, missed <- v13, server <- v14

Flag(grpc, http1, http2, upgrade, method) ==
  [grpc |-> grpc, http1 |-> http1, http2 |-> http2, upgrade |-> upgrade, method |-> method]
Target(tls, h2, up, h1) == [tls |-> tls, h2 |-> h2, up |-> up, h1 |-> h1]

\* Every route through the Fetcher, to servers that support it and that do not.
F == INSTANCE Fetcher WITH
       Flags <- {Flag(FALSE, FALSE, FALSE, FALSE, "POST"), Flag(TRUE, FALSE, FALSE, FALSE, "GET"),
                 Flag(FALSE, FALSE, TRUE, TRUE, "GET"), Flag(FALSE, TRUE, TRUE, FALSE, "PUT")},
       Servers <- {Target(FALSE, TRUE, FALSE, FALSE), Target(FALSE, TRUE, TRUE, TRUE),
                   Target(FALSE, FALSE, TRUE, TRUE), Target(FALSE, FALSE, FALSE, TRUE),
                   Target(TRUE, TRUE, FALSE, TRUE), Target(TRUE, FALSE, FALSE, TRUE)},
       srv <- v1, call <- v2, conn <- v3, pool <- v4, flight <- v5, execs <- v6

\* Sizes and ids with their bits in every octet, and the first size that does not fit.
H == INSTANCE Frames WITH Sizes <- {0, 8, 300, 65536, 16777215, 16777216},
       StreamIds <- {1, 65537}, MaxFrames <- 2, written <- v1, wire <- v2, reader <- v3

Release(refl, path, json, method, imports) ==
  [refl |-> refl, path |-> path, json |-> json, method |-> method, imports |-> imports]

C == INSTANCE GrpcCommand WITH MaxDeploys <- 1,
       Releases <- {Release(TRUE, FALSE, FALSE, "Get", FALSE), Release(TRUE, FALSE, TRUE, "Fetch", FALSE),
                    Release(FALSE, FALSE, TRUE, "Get", FALSE), Release(TRUE, TRUE, FALSE, "Get", FALSE),
                    Release(TRUE, FALSE, FALSE, "Get", TRUE), Release(FALSE, FALSE, FALSE, "Get", FALSE)},
       Commands <-
         [op : {"call"}, ctxPath : BOOLEAN, data : {"valid", "invalid"},
          parts : {<<"pkg.Svc", "Get">>, <<"pkg.Svc", "get">>, <<"pkg.svc", "Get">>, <<"pkg.Svc">>,
                   <<"ctx", "pkg.Svc", "Get">>, <<"", "Get">>}]
         \cup [op : {"list", "symbols"}, ctxPath : {FALSE}, data : {"valid"},
               parts : {<<"pkg.Svc">>, <<"other">>}],
       srv <- v1, cmd <- v2, pc <- v3, reply <- v4, desc <- v5, result <- v6, served <- v7,
       deploys <- v8

Field(num, type, val) == [num |-> num, type |-> type, val |-> val]

\* Numbers and lengths of one, two and three octets, and every wire type.
B == INSTANCE ProtoReader WITH MaxFields <- 2,
       Fields <- {Field(1, 0, 5), Field(16, 0, 300), Field(2, 1, 258), Field(3, 2, << >>),
                  Field(300, 2, <<200, 7>>), Field(4, 5, 70000), Field(5, 0, 2000000),
                  Field(6, 2, [i \in 1 .. 130 |-> 8])},
       msg <- v1, data <- v2, pos <- v3, pc <- v4, shown <- v5

\* Ports at both ends of 16 bits and beyond.
E == INSTANCE Endpoints WITH Ports <- {0, 1, 80, 65535, 65536, 65616},
       Ranges <- {1, 80, 65535, 65536} \X {0, 1, 80, 65535, 65536},
       first <- v1, dest <- v2, steps <- v3

O == INSTANCE SocketOptions WITH MaxValue <- 2, Networks <- {"tcp", "udp"}, Controllers <- 1,
       cfg <- v1, network <- v2, dir <- v3, todo <- v4, set <- v5, state <- v6

S == INSTANCE PubSub WITH Cap <- 1, MaxMessages <- 2,
       subs <- v1, spc <- v2, buffer <- v3, done <- v4, got <- v5, full <- v6, sending <- v7,
       owed <- v8, sent <- v9, locked <- v10, restart <- v11, running <- v12, timer <- v13,
       armed <- v14, pc <- v15, role <- v16, failures <- v17, closes <- v18

\* Two groups, so that the fallback to the default group comes into play.
W == INSTANCE EtcdWatcher WITH
       Groups <- {"g"}, Wanted <- {"default", "g"}, Garbage <- {"bad"}, MaxLog <- 3,
       MaxCloses <- 1, wanted <- v1, log <- v2, main <- v3, pc <- v4, rev <- v5,
       endpoints <- v6, pos <- v7, open <- v8, from <- v9, shown <- v10, ctxDone <- v11,
       stopped <- v12, closes <- v13

-----------------------------------------------------------------------------

\* The variables from the one after vn on, and that they are not in use.
rest18 == <<v19>>
rest14 == <<v15, v16, v17, v18, rest18>>
rest8 == <<v9, v10, v11, v12, v13, v14, rest14>>
rest6 == <<v7, v8, rest8>>
rest5 == <<v6, rest6>>
rest3 == <<v4, v5, rest5>>
rest0 == <<v1, v2, v3, rest3>>

Idle18 == v19 = 0
Idle14 == v15 = 0 /\ v16 = 0 /\ v17 = 0 /\ v18 = 0 /\ Idle18
Idle8 == v9 = 0 /\ v10 = 0 /\ v11 = 0 /\ v12 = 0 /\ v13 = 0 /\ v14 = 0 /\ Idle14
Idle6 == v7 = 0 /\ v8 = 0 /\ Idle8
Idle5 == v6 = 0 /\ Idle6
Idle3 == v4 = 0 /\ v5 = 0 /\ Idle5
Idle0 == v1 = 0 /\ v2 = 0 /\ v3 = 0 /\ Idle3

mcVars == <<part, listenerVars, rest0>>

MCInit ==
  /\ ListenerInit
  /\ \/ part = "grpc" /\ G!Init
     \/ part = "tcp" /\ T!Init /\ Idle14
     \/ part = "fetcher" /\ F!Init /\ Idle6
     \/ part = "frames" /\ H!Init /\ Idle3
     \/ part = "command" /\ C!Init /\ Idle8
     \/ part = "proto" /\ B!Init /\ Idle5
     \/ part = "endpoints" /\ E!Init /\ Idle3
     \/ part = "options" /\ O!Init /\ Idle6
     \/ part = "listener" /\ Idle0
     \/ part = "pubsub" /\ S!Init /\ Idle18
     \/ part = "watcher" /\ W!Init /\ v14 = 0 /\ Idle14
  /\ part # "listener" => address = "unix"

MCNext ==
  /\ UNCHANGED part
  /\ \/ part = "listener" /\ ListenerNext /\ UNCHANGED rest0
     \/ /\ UNCHANGED listenerVars
        /\ \/ part = "grpc" /\ G!Next
           \/ part = "tcp" /\ T!Next /\ UNCHANGED rest14
           \/ part = "fetcher" /\ F!Next /\ UNCHANGED rest6
           \/ part = "frames" /\ H!Next /\ UNCHANGED rest3
           \/ part = "command" /\ C!Next /\ UNCHANGED rest8
           \/ part = "proto" /\ B!Next /\ UNCHANGED rest5
           \/ part = "endpoints" /\ E!Next /\ UNCHANGED rest3
           \/ part = "options" /\ O!Next /\ UNCHANGED rest6
           \/ part = "pubsub" /\ S!Next /\ UNCHANGED rest18
           \/ part = "watcher" /\ W!Next /\ UNCHANGED <<v14, rest14>>

MCSpec == MCInit /\ [][MCNext]_mcVars

\* The calls are interchangeable, and so are the addresses.
Symmetry == Permutations(Calls) \cup Permutations(Addresses)

-----------------------------------------------------------------------------
(* Properties *)

\* GRPCClient: every call's stream ends once and is forgotten, a Call returns nil only
\* for the answer that the server gave it, and an orderly server's answer arrives.
CallsEndAsAnswered ==
  part = "grpc" => G!StreamsEndOnce /\ G!OutcomeIsEarned /\ G!OrderlyServer

\* TCPClient: streams and header blocks are in order on the wire, a Call returns nil
\* only for its own answered message, and the end of a stream wakes its caller.
OneCallOneStream ==
  part = "tcp" => T!TypeOK /\ T!WireInOrder /\ T!EarnedByServer /\ T!EndWakesCaller

\* Fetcher: a call gets the answer to its own request, unless its context asks for the
\* upgrade on a connection that has been upgraded before, in a protocol that both sides
\* take, and no connection is lost.
OwnAnswer == part = "fetcher" => F!TypeOK /\ F!OwnAnswer /\ F!ConnsAccounted

\* Frames: what ReadFrames reads is what was written, until a frame does not declare
\* its payload.
FramesInStep == part = "frames" => H!FramesInStep

\* GrpcCommand: the server executes the one method that the user named.
CallsWhatWasNamed == part = "command" => C!TypeOK /\ C!CallsWhatWasNamed

\* ProtoReader: the complete fields are printed, wherever the message is cut.
CompleteFieldsOnly == part = "proto" => B!TypeOK /\ B!CompleteFieldsOnly

\* Endpoints: an address, a destination and a target survive their conversions.
ReadsBack == part = "endpoints" => E!ReadsBack

\* SocketOptions: the socket has the options that the config asks for, or an error.
OptionsInForce == part = "options" => O!OptionsInForce

\* OneListener of Listener is checked as that module states it.

\* PubSub: Subscribe does not panic, and what is published reaches the subscribers it
\* is for, in order and once.
Delivered == part = "pubsub" => S!SubscribeSucceeds /\ S!Delivered

\* EtcdWatcher: the endpoints that the watcher keeps and logs are right.
ListIsRight == part = "watcher" => W!ListIsRight
==============================================================================
