------------------------------ MODULE Heartbeat ------------------------------
(***************************************************************************)
(* The heartbeats of examples/net/heartbeat: client and server over TCP,   *)
(* with a line per message (tcp) or a length and a body, each written by a *)
(* call of its own (tcpv2).  Each side has three goroutines: the main loop *)
(* answers PINGs, the reader sorts what comes onto two unbuffered          *)
(* channels, the heartbeat sends a PING and waits for the PONG.  The link  *)
(* may be cut without anybody being told.                                  *)
(***************************************************************************)
EXTENDS Naturals, Sequences

CONSTANTS
  Framings,   \* of "line" and "ldm"
  MaxWire     \* bound: tokens on the way to one side

Sides == {"client", "server"}
Tags == {0, 1}        \* tell a PING, and the PONG that answers it, from the next one
Peer(s) == IF s = "client" THEN "server" ELSE "client"

VARIABLES
  framing,
  main,     \* s -> the main loop: "select", "body" (between the two writes), "done"
  reader,   \* s -> the reader: "head", "body", "message", "response", "garbled", "done"
  beat,     \* s -> the heartbeat: "tick", "body", "await", "done"
  open,     \* the sides whose connection is open
  cut,      \* the link is down
  wire,     \* s -> what is on the way to s
  verdict   \* s -> history: what the last successful heartbeat was worth

vars == <<framing, main, reader, beat, open, cut, wire, verdict>>

Msg(k, t) == [kind |-> k, tag |-> t]
Msgs == [kind : {"PING", "PONG", "other"}, tag : Tags]
Header == Msg("header", 0)
Other == Msg("other", 0)
NoMsg == Msg("none", 0)

Pc(f, s) == f[s].pc
Set(f, s, pc) == [f EXCEPT ![s].pc = pc]

TypeOK ==
  /\ framing \in Framings
  /\ \A s \in Sides :
       /\ main[s].pc \in {"select", "body", "done"} /\ main[s].tag \in Tags
       /\ reader[s].pc \in {"head", "body", "message", "response", "garbled", "done"}
       /\ reader[s].msg \in Msgs \cup {NoMsg}
       /\ beat[s].pc \in {"tick", "body", "await", "done"} /\ beat[s].tag \in Tags
       /\ verdict[s] \in {"none", "answered", "closed", "stale"}
       /\ Len(wire[s]) <= MaxWire + 2
  /\ open \subseteq Sides /\ cut \in BOOLEAN

Init ==
  /\ framing \in Framings
  /\ main = [s \in Sides |-> [pc |-> "select", tag |-> 0]]
  /\ reader = [s \in Sides |-> [pc |-> "head", msg |-> NoMsg]]
  /\ beat = [s \in Sides |-> [pc |-> "tick", tag |-> 0]]
  /\ open = Sides /\ cut = FALSE
  /\ wire = [s \in Sides |-> << >>]
  /\ verdict = [s \in Sides |-> "none"]

-----------------------------------------------------------------------------
(* The connection, external *)

\* Side s writes: lost on a cut link or to a peer that has closed.
Write(s, items) ==
  /\ s \in open
  /\ wire' = [wire EXCEPT ![Peer(s)] =
                IF cut \/ Peer(s) \notin open THEN @ ELSE @ \o items]
Room(s) == Len(wire[Peer(s)]) < MaxWire
\* A write that fails: here the connection is closed, or the peer has closed it.
WriteFails(s) == (s \notin open \/ (Peer(s) \notin open /\ ~cut)) /\ UNCHANGED wire

\* The first write of a message: a line, or the header of its frame.
FirstWrite(s, m) == Write(s, IF framing = "line" THEN <<m>> ELSE <<Header>>)
AfterFirst(pc) == IF framing = "line" THEN pc ELSE "body"

CutLink ==
  /\ ~cut /\ open = Sides /\ cut' = TRUE
  /\ wire' = [s \in Sides |-> << >>]
  /\ UNCHANGED <<framing, main, reader, beat, open, verdict>>

-----------------------------------------------------------------------------
(* main of the client, handleConnection of the server *)

\* The loop returns and closes the connection; with the client's the process ends.
Return(s) ==
  /\ main' = Set(main, s, "done")
  /\ open' = open \ {s}

\* A message from the reader: a PING is answered, anything else is printed.
TakeMessage(s) ==
  /\ Pc(main, s) = "select" /\ Pc(reader, s) = "message"
  /\ reader' = Set(reader, s, "head")
  /\ LET m == reader[s].msg IN
     \/ /\ m.kind = "PING" /\ FirstWrite(s, Msg("PONG", m.tag)) /\ Room(s)
        /\ main' = [main EXCEPT ![s] = [pc |-> AfterFirst("select"), tag |-> m.tag]]
        /\ UNCHANGED open
     \/ m.kind = "PING" /\ WriteFails(s) /\ Return(s)
     \/ m.kind # "PING" /\ UNCHANGED <<main, open, wire>>
  /\ UNCHANGED <<framing, beat, cut, verdict>>

\* SendMessage, its second write.
PongBody(s) ==
  /\ Pc(main, s) = "body"
  /\ \/ Write(s, <<Msg("PONG", main[s].tag)>>) /\ main' = Set(main, s, "select") /\ UNCHANGED open
     \/ WriteFails(s) /\ Return(s)
  /\ UNCHANGED <<framing, reader, beat, cut, verdict>>

\* The message channel is closed; the client also leaves when its heartbeat has ended.
MainEnds(s) ==
  /\ Pc(main, s) = "select"
  /\ Pc(reader, s) = "done" \/ (s = "client" /\ Pc(beat, s) = "done")
  /\ Return(s)
  /\ UNCHANGED <<framing, reader, beat, cut, wire, verdict>>

-----------------------------------------------------------------------------
(* reader *)

\* With the client's main its process ends.
Alive(s) == s = "server" \/ Pc(main, s) # "done"

\* A PONG is for the heartbeat, anything else for the main loop.
Sorted(m) == [pc |-> IF m.kind = "PONG" THEN "response" ELSE "message", msg |-> m]

Receive(s, pcs) ==
  /\ Alive(s) /\ s \in open /\ wire[s] # << >> /\ Pc(reader, s) \in pcs
  /\ wire' = [wire EXCEPT ![s] = Tail(@)]
  /\ UNCHANGED <<framing, main, beat, open, cut, verdict>>

\* ReadString: the next line.
ReadLine(s) ==
  /\ framing = "line"
  /\ Receive(s, {"head"})
  /\ reader' = [reader EXCEPT ![s] = Sorted(Head(wire[s]))]

\* The client's read deadline passes when a part of a line has come: ReadString returns
\* that part with the error, the loop goes on without it, and the rest of the line is
\* then read as a line of its own, which is neither a PING nor a PONG.
ReadDeadline(s) ==
  /\ framing = "line" /\ s = "client"
  /\ Alive(s) /\ s \in open /\ Pc(reader, s) = "head"
  /\ wire[s] # << >> /\ Head(wire[s]) # Other
  /\ wire' = [wire EXCEPT ![s][1] = Other]
  /\ UNCHANGED <<framing, main, reader, beat, open, cut, verdict>>

\* ReceiveMessage: a header and then a body.  When two messages were written into one
\* another the second header is taken for a body, and what comes next for a length, for
\* which the reader then waits.
ReceiveMessage(s) ==
  /\ framing = "ldm"
  /\ Receive(s, {"head", "body", "garbled"})
  /\ LET m == Head(wire[s])
         to(r) == reader' = [reader EXCEPT ![s] = r]
         pc == Pc(reader, s) IN
     \/ pc = "head" /\ m = Header /\ to([pc |-> "body", msg |-> NoMsg])
     \/ pc = "head" /\ m # Header /\ to([pc |-> "garbled", msg |-> NoMsg])
     \/ pc = "body" /\ to(Sorted(IF m = Header THEN Other ELSE m))
     \/ pc = "garbled" /\ to([pc |-> "garbled", msg |-> NoMsg])

\* The end of the connection: both channels are closed.
ReadEnds(s) ==
  /\ Alive(s) /\ Pc(reader, s) \in {"head", "body", "garbled"}
  /\ s \notin open \/ (wire[s] = << >> /\ Peer(s) \notin open /\ ~cut)
  /\ reader' = [reader EXCEPT ![s] = [pc |-> "done", msg |-> NoMsg]]
  /\ UNCHANGED <<framing, main, beat, open, cut, wire, verdict>>

Reader(s) == ReadLine(s) \/ ReadDeadline(s) \/ ReceiveMessage(s) \/ ReadEnds(s)

-----------------------------------------------------------------------------
(* startHeartbeat *)

\* The ticker: a PING goes out, with a new tag.
Tick(s) ==
  /\ Alive(s) /\ Pc(beat, s) = "tick"
  /\ \/ /\ Room(s) /\ FirstWrite(s, Msg("PING", 1 - beat[s].tag))
        /\ beat' = [beat EXCEPT ![s] = [pc |-> AfterFirst("await"), tag |-> 1 - @.tag]]
     \/ WriteFails(s) /\ beat' = Set(beat, s, "done")
  /\ UNCHANGED <<framing, main, reader, open, cut, verdict>>

PingBody(s) ==
  /\ Alive(s) /\ Pc(beat, s) = "body"
  /\ \/ Write(s, <<Msg("PING", beat[s].tag)>>) /\ beat' = Set(beat, s, "await")
     \/ WriteFails(s) /\ beat' = Set(beat, s, "done")
  /\ UNCHANGED <<framing, main, reader, open, cut, verdict>>

\* The reader hands over a PONG, or has closed the channel, which counts as well.
Respond(s) ==
  /\ Alive(s) /\ Pc(beat, s) = "await"
  /\ beat' = Set(beat, s, "tick")
  /\ \/ /\ Pc(reader, s) = "response" /\ reader' = Set(reader, s, "head")
        /\ verdict' = [verdict EXCEPT ![s] =
                         IF reader[s].msg.tag = beat[s].tag THEN "answered" ELSE "stale"]
     \/ /\ Pc(reader, s) = "done" /\ UNCHANGED reader
        /\ verdict' = [verdict EXCEPT ![s] = "closed"]
  /\ UNCHANGED <<framing, main, open, cut, wire>>

\* Mutant of Timeout: the heartbeat goes on after a timeout.
TimeoutGoesOn(s) ==
  /\ Alive(s) /\ Pc(beat, s) = "await"
  /\ beat' = Set(beat, s, "tick")
  /\ UNCHANGED <<framing, main, reader, open, cut, wire, verdict>>

\* Five seconds without an answer end the heartbeat.
Timeout(s) ==
  /\ Alive(s) /\ Pc(beat, s) = "await"
  /\ beat' = Set(beat, s, "done")
  /\ UNCHANGED <<framing, main, reader, open, cut, wire, verdict>>

Main(s) == TakeMessage(s) \/ PongBody(s) \/ MainEnds(s)
Beat(s) == Tick(s) \/ PingBody(s) \/ Respond(s) \/ Timeout(s)

Side(s) == Main(s) \/ Reader(s) \/ Beat(s)

Next == CutLink \/ \E s \in Sides : Side(s)

Spec == Init /\ [][Next]_vars

\* Goroutines keep running, and tickers and timers fire.
FairSpec ==
  /\ Spec
  /\ \A s \in Sides : WF_vars(Main(s)) /\ WF_vars(Beat(s)) /\ WF_vars(Reader(s))

-----------------------------------------------------------------------------
(* Properties *)

\* The PONGs on their way to s: on the wire, or in the hands of its reader.
IsPong(m) == m.kind = "PONG"
Pongs(s) ==
  SelectSeq(wire[s], IsPong)
    \o (IF Pc(reader, s) = "response" THEN <<reader[s].msg>> ELSE << >>)

\* At most one PONG is ever on its way to a side, and it answers the last PING that
\* the side sent: what a waiting heartbeat takes from an open channel is the PONG to its
\* own PING, never a late one to an earlier PING, because a heartbeat ends with its first
\* timeout.  A heartbeat that waits when the reader ends takes the closed channel for an
\* answer as well (and prints "Received PONG"): this happens only after the reader has
\* seen the end of the connection, and no PONG counts from then on.
AnsweredByItsPong ==
  \A s \in Sides :
    /\ Len(Pongs(s)) <= 1
    /\ \A i \in DOMAIN Pongs(s) : Pongs(s)[i].tag = beat[s].tag
    /\ verdict[s] # "stale"
    /\ verdict[s] = "closed" => Pc(reader, s) = "done" /\ ~(s \in open /\ Peer(s) \in open)

\* The reader holds a PONG that came after the timeout, or a message for a main loop
\* that has returned: it waits for ever, and so does what waits for the reader.
Stuck(s) ==
  \/ Pc(reader, s) = "response" /\ Pc(beat, s) = "done"
  \/ Pc(reader, s) = "message" /\ Pc(main, s) = "done"

\* A dead link is noticed by the client, which leaves.  A server whose client has left
\* ends the connection, unless its reader is stuck with a late PONG or the link died:
\* the end of the server's own heartbeat does not end its main loop.
ClientLeft == Pc(main, "client") = "done"
ServerLeft == Pc(main, "server") = "done" \/ cut \/ Stuck("server")
DeadPeerNoticed == (cut ~> ClientLeft) /\ (ClientLeft ~> ServerLeft)
==============================================================================
