------------------------------- MODULE Tunnel --------------------------------
(***************************************************************************)
(* One connection of the HTTP proxy (cmd/distro/http_proxy.go, and the     *)
(* same handlers in examples/net/httpproxy and, behind a listener that     *)
(* speaks the PROXY protocol, in examples/proxyproto/transparentporxy):    *)
(* handleHTTPProxy reads a request, dials the target, answers a CONNECT or *)
(* forwards the request, and two copies run until they end.  Client and    *)
(* target send, close and disappear as they like.                          *)
(***************************************************************************)
EXTENDS Naturals, Sequences, SequencesExt

CONSTANTS
  Methods,   \* "CONNECT" and "GET"
  MaxData    \* bound: pieces of data each side sends

Established == 200
Unavailable == 503
Request == 0

VARIABLES
  method,
  handler,   \* handleHTTPProxy: "read", "dial", "answer", "copy", "done"
  copier,    \* the goroutine that copies client -> target: "off", "run", "done"
  open,      \* ends of the two connections that are open
  inbound,   \* what is on the way to each end, "pc" from the client, "pt" from the target
  buffered,  \* data bufio.Reader took from the connection with the request
  sent,      \* history: pieces of data each peer has sent
  received,  \* history: what each peer has received
  stalled    \* peers that have stopped reading

vars == <<method, handler, copier, open, inbound, buffered, sent, received, stalled>>

Peers == {"client", "target"}
Ends == Peers \cup {"pc", "pt"}    \* the proxy's ends towards client and target
Data == 1 .. MaxData

TypeOK ==
  /\ method \in Methods
  /\ handler \in {"read", "dial", "answer", "copy", "done"}
  /\ copier \in {"off", "run", "done"}
  /\ open \subseteq Ends
  /\ \A e \in {"pc", "pt"} : Len(inbound[e]) <= MaxData + 1
  /\ buffered \in 0 .. MaxData
  /\ sent \in [Peers -> 0 .. MaxData]
  /\ stalled \subseteq Peers

Init ==
  /\ method \in Methods
  /\ handler = "read" /\ copier = "off"
  /\ open = {"client", "pc"}
  /\ inbound = [e \in {"pc", "pt"} |-> << >>]
  /\ buffered = 0
  /\ sent = [p \in Peers |-> 0]
  /\ received = [p \in Peers |-> << >>]
  /\ stalled = {}

-----------------------------------------------------------------------------
(* The peers *)

ProxyEnd(p) == IF p = "client" THEN "pc" ELSE "pt"

Send(p) ==
  /\ p \in open /\ sent[p] < MaxData
  /\ sent' = [sent EXCEPT ![p] = @ + 1]
  /\ inbound' = [inbound EXCEPT ![ProxyEnd(p)] = Append(@, sent[p] + 1)]
  /\ UNCHANGED <<method, handler, copier, open, buffered, received, stalled>>

PeerCloses(p) ==
  /\ p \in open /\ open' = open \ {p}
  /\ UNCHANGED <<method, handler, copier, inbound, buffered, sent, received, stalled>>

\* A peer that does not read any more: writes to it block, as no deadline is set.
StopsReading(p) ==
  /\ p \in open \ stalled /\ stalled' = stalled \cup {p}
  /\ UNCHANGED <<method, handler, copier, open, inbound, buffered, sent, received>>

-----------------------------------------------------------------------------
(* The handlers *)

\* A write to peer p: to one that has closed it is lost, or it fails; one that does not
\* read holds it up.
Deliver(p, items) ==
  /\ p \notin open \cap stalled
  /\ received' = [received EXCEPT ![p] = IF p \in open THEN @ \o items ELSE @]
ReadEnds(e, p) == e \notin open \/ (inbound[e] = << >> /\ p \notin open)

\* The deferred Close of the client's connection, and of the target's.
Return == handler' = "done" /\ open' = open \ {"pc", "pt"}

\* http.ReadRequest: the reader takes the request and whatever has come with it.
ReadRequest ==
  /\ handler = "read"
  /\ \/ handler' = "dial" /\ buffered' = Len(inbound["pc"])
        /\ inbound' = [inbound EXCEPT !["pc"] = << >>] /\ UNCHANGED open
     \/ "client" \notin open /\ Return /\ UNCHANGED <<buffered, inbound>>
  /\ UNCHANGED <<method, copier, sent, received, stalled>>

\* net.DialTimeout; the client hears of a failure.
Dial ==
  /\ handler = "dial"
  /\ \/ handler' = "answer" /\ open' = open \cup {"target", "pt"} /\ UNCHANGED received
     \/ Deliver("client", <<Unavailable>>) /\ Return
  /\ UNCHANGED <<method, copier, inbound, buffered, sent, stalled>>

\* Mutant of handleConnectMethod: the client is not told that the tunnel stands.
handleConnectSilently ==
  /\ method = "CONNECT"
  /\ handler' = "copy" /\ copier' = "run"
  /\ UNCHANGED <<received, open>>

\* handleConnectMethod answers the client, whatever becomes of the write.
handleConnectMethod ==
  /\ method = "CONNECT"
  /\ Deliver("client", <<Established>>)
  /\ handler' = "copy" /\ copier' = "run"
  /\ UNCHANGED open

\* handleHTTPRequest writes the request to the target; the client hears of a failure.
handleHTTPRequest ==
  /\ method # "CONNECT"
  /\ \/ Deliver("target", <<Request>>) /\ handler' = "copy" /\ copier' = "run" /\ UNCHANGED open
     \/ "target" \notin open /\ Deliver("client", <<Unavailable>>) /\ Return /\ UNCHANGED copier

Answer ==
  /\ handler = "answer"
  /\ handleConnectMethod \/ handleHTTPRequest
  /\ UNCHANGED <<method, inbound, buffered, sent, stalled>>

\* io.Copy(targetConn, clientConn), on the connection and not on the reader.
CopyToTarget ==
  /\ copier = "run"
  /\ \/ /\ "pc" \in open /\ "pt" \in open /\ inbound["pc"] # << >>
        /\ Deliver("target", <<Head(inbound["pc"])>>)
        /\ inbound' = [inbound EXCEPT !["pc"] = Tail(@)] /\ UNCHANGED copier
     \/ /\ ("target" \notin open /\ inbound["pc"] # << >>) \/ ReadEnds("pc", "client")
        /\ copier' = "done" /\ UNCHANGED <<inbound, received>>
  /\ UNCHANGED <<method, handler, open, buffered, sent, stalled>>

\* io.Copy(clientConn, targetConn), and then the handlers return.
CopyToClient ==
  /\ handler = "copy"
  /\ \/ /\ inbound["pt"] # << >>
        /\ Deliver("client", <<Head(inbound["pt"])>>)
        /\ inbound' = [inbound EXCEPT !["pt"] = Tail(@)] /\ UNCHANGED <<handler, open>>
     \/ /\ ("client" \notin open /\ inbound["pt"] # << >>) \/ ReadEnds("pt", "target")
        /\ Return /\ UNCHANGED <<inbound, received>>
  /\ UNCHANGED <<method, copier, buffered, sent, stalled>>

Proxy == ReadRequest \/ Dial \/ Answer \/ CopyToClient
Connection == Proxy \/ CopyToTarget

Next ==
  \/ \E p \in Peers : Send(p) \/ PeerCloses(p) \/ StopsReading(p)
  \/ Connection

Spec == Init /\ [][Next]_vars
\* The proxy's goroutines keep running; the peers owe nothing.
FairSpec == Spec /\ WF_vars(Proxy) /\ WF_vars(CopyToTarget)

-----------------------------------------------------------------------------
(* Properties *)

From(first, n) == [i \in 1 .. n |-> first + i - 1]

\* Each side receives what the other sent, in order and without a gap, behind the
\* answer or the request: the target all that the client sent after its request was
\* read; what came with the request stays in the reader.
RelaysInOrder ==
  /\ \/ received["client"] \in {<< >>, <<Unavailable>>}
     \/ IsPrefix(received["client"],
          (IF method = "CONNECT" THEN <<Established>> ELSE << >>) \o From(1, sent["target"]))
  /\ IsPrefix(received["target"],
       (IF method = "CONNECT" THEN << >> ELSE <<Request>>)
         \o From(buffered + 1, sent["client"] - buffered))

\* Once the target has closed, the handler returns and both connections are closed and
\* the copier ends, unless the client has stopped reading and keeps its connection: the
\* handler then waits in a write without a deadline.  Nothing like it holds for the
\* client: when it is gone the handler waits for the target, to which the end of the
\* client is not passed on.
TargetGone == handler = "copy" /\ "target" \notin open
Ended ==
  \/ handler = "done" /\ copier = "done" /\ open \cap {"pc", "pt"} = {}
  \/ "client" \in open \cap stalled
TunnelEnds == TargetGone ~> Ended
==============================================================================
