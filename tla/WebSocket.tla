----------------------------- MODULE WebSocket -------------------------------
(***************************************************************************)
(* A WebSocket dialogue: the client of http/client (doWebsocket or         *)
(* doGorilla) and the echo handler of snippets/httproto/ws it talks to     *)
(* (simpleEchoHandler or GorillaEchoHandler).  The client's main loop, its *)
(* read loop and, with gorilla, its input loop work on two channels; the   *)
(* gorilla handler has a read loop of its own.  The user types lines and   *)
(* quits, either side may disappear.                                       *)
(***************************************************************************)
EXTENDS Naturals, Sequences, SequencesExt

CONSTANTS
  Modes,      \* of "simple" (golang.org/x/net/websocket) and "gorilla"
  Cap,        \* the capacity of messageChannel, 10 in the code
  MaxLines    \* bound: lines the user types

Quit == 0           \* ":quit" or ":exit"
CloseFrame == MaxLines + 1
Nothing == MaxLines + 2
Words == 1 .. MaxLines
Lines == Words \cup {Quit}

VARIABLES
  mode,
  main,       \* the client's main loop: "input", "select", "wait", "done"
  input,      \* the input loop: "top", "line", "send", "done", and the line it holds
  reader,     \* the client's read loop: "top", "recv", "put", "done", and its message
  ch,         \* messageChannel
  cancelled,  \* gCtx is done
  open,       \* the ends of the connection that are open
  wire,       \* what is on the way to each end
  sreader,    \* the handler's read loop, and the message it holds
  handler,    \* the handler: "run", "done"
  typed,      \* lines typed so far
  sent, shown \* history: the words the client sent and those it printed

clientVars == <<main, input, reader, ch, cancelled, typed, sent, shown>>
serverVars == <<sreader, handler>>
vars == <<mode, clientVars, open, wire, serverVars>>

At(p, pc) == p.pc = pc
Idle(pc) == [pc |-> pc, msg |-> Nothing]
Loop(pcs) == [pc : pcs, msg : Lines \cup {Nothing}]

TypeOK ==
  /\ mode \in Modes
  /\ main \in {"input", "select", "wait", "done"}
  /\ input \in Loop({"top", "line", "send", "done"})
  /\ reader \in Loop({"top", "recv", "put", "done"})
  /\ ch \in SeqOf(Lines, Cap)
  /\ cancelled \in BOOLEAN
  /\ open \subseteq {"client", "server"}
  /\ \A e \in {"client", "server"} : wire[e] \in Seq(Lines \cup {CloseFrame})
  /\ sreader \in Loop({"recv", "put", "done"})
  /\ handler \in {"run", "done"}
  /\ typed \in 0 .. MaxLines
  /\ sent \in Seq(Lines) /\ shown \in Seq(Lines)

\* The connection is up: the client's goroutines start, and so do the handler's.
Init ==
  /\ mode \in Modes
  /\ main = IF mode = "simple" THEN "input" ELSE "select"
  /\ input = Idle(IF mode = "simple" THEN "done" ELSE "top")
  /\ reader = Idle("top")
  /\ ch = << >> /\ cancelled = FALSE
  /\ open = {"client", "server"}
  /\ wire = [e \in {"client", "server"} |-> << >>]
  /\ sreader = Idle("recv") /\ handler = "run"
  /\ typed = 0 /\ sent = << >> /\ shown = << >>

-----------------------------------------------------------------------------
(* The connection, external: reliable and in order, up to where an end closes *)

\* A frame for end e; when e has closed it is lost, or the write fails.
Written(e, m) == wire' = [wire EXCEPT ![e] = IF e \in open THEN Append(@, m) ELSE @]
WriteFails(e) == e \notin open /\ UNCHANGED wire
\* End e takes its next frame, or finds the connection closed.
Received(e, m) == e \in open /\ wire[e] # << >> /\ m = Head(wire[e])
Ended(e) == e \notin open \/ (wire[e] = << >> /\ open # {"client", "server"})

-----------------------------------------------------------------------------
(* The client *)

\* doWebsocket and doGorilla return: deferred, cancel and conn.Close.
Return == main' = "done" /\ cancelled' = TRUE /\ open' = open \ {"client"}

NextLine(m) == typed < MaxLines /\ typed' = typed + 1 /\ m \in {typed + 1, Quit}

\* doWebsocket reads a line and sends it; ":quit" cancels the read loop first.
InputSimple(m) ==
  /\ mode = "simple" /\ main = "input"
  /\ NextLine(m)
  /\ \/ /\ Written("server", m)
        /\ main' = "select"
        /\ cancelled' = (cancelled \/ m = Quit)
        /\ sent' = Append(sent, m)
        /\ UNCHANGED open
     \/ WriteFails("server") /\ Return /\ UNCHANGED sent
  /\ UNCHANGED <<mode, input, reader, ch, shown, serverVars>>

\* The select of the main loop, on gCtx.Done.
SelectDone ==
  /\ main = "select" /\ cancelled
  /\ main' = "wait"
  /\ UNCHANGED <<mode, input, reader, ch, cancelled, typed, sent, shown, open, wire,
                 serverVars>>

\* wg.Wait: the loops have ended.
Wait ==
  /\ main = "wait" /\ At(reader, "done") /\ At(input, "done")
  /\ Return
  /\ UNCHANGED <<mode, input, reader, ch, typed, sent, shown, wire, serverVars>>

\* On messageChannel, which the read loop closes when it ends.
SelectMessage ==
  /\ main = "select"
  /\ \/ /\ ch # << >>
        /\ shown' = Append(shown, Head(ch))
        /\ ch' = Tail(ch)
        /\ main' = IF mode = "simple" THEN "input" ELSE "select"
        /\ UNCHANGED <<cancelled, open>>
     \/ ch = << >> /\ At(reader, "done") /\ Return /\ UNCHANGED <<ch, shown>>
  /\ UNCHANGED <<mode, input, reader, typed, sent, wire, serverVars>>

\* Nothing came within a second: doWebsocket asks for the next line.
SelectTimeout ==
  /\ mode = "simple" /\ main = "select"
  /\ ~cancelled /\ ch = << >> /\ ~At(reader, "done")
  /\ main' = "input"
  /\ UNCHANGED <<mode, input, reader, ch, cancelled, typed, sent, shown, open, wire,
                 serverVars>>

\* doGorilla takes a line from the input loop and sends it, or the closing handshake.
SelectInput ==
  /\ mode = "gorilla" /\ main = "select"
  /\ \/ /\ At(input, "send") /\ input.msg # Quit
        /\ input' = Idle("top")
        /\ \/ Written("server", input.msg) /\ sent' = Append(sent, input.msg)
              /\ UNCHANGED <<main, cancelled, open>>
           \/ WriteFails("server") /\ Return /\ UNCHANGED sent
     \/ /\ At(input, "send") /\ input.msg = Quit
        /\ Written("server", CloseFrame)
        /\ cancelled' = TRUE
        /\ input' = Idle("done")
        /\ UNCHANGED <<main, open, sent>>
     \/ At(input, "done") /\ Return /\ UNCHANGED <<input, wire, sent>>
  /\ UNCHANGED <<mode, reader, ch, typed, shown, serverVars>>

\* wsInputLoop: it looks at the context, then waits for a line.
InputLoop ==
  /\ \/ At(input, "top") /\ input' = Idle(IF cancelled THEN "done" ELSE "line")
        /\ UNCHANGED typed
     \/ At(input, "line") /\ \E m \in Lines : NextLine(m) /\ input' = [pc |-> "send", msg |-> m]
     \/ At(input, "line") /\ input' = Idle("done") /\ UNCHANGED typed   \* end of stdin
  /\ UNCHANGED <<mode, main, reader, ch, cancelled, sent, shown, open, wire, serverVars>>

\* wsReadLoop and wsGorillaLoop: look at the context, receive.  The close handler
\* answers a close frame.
ReadLoop ==
  /\ \/ At(reader, "top") /\ reader' = Idle(IF cancelled THEN "done" ELSE "recv")
        /\ UNCHANGED wire
     \/ /\ At(reader, "recv")
        /\ \E m \in Lines : Received("client", m) /\ reader' = [pc |-> "put", msg |-> m]
        /\ wire' = [wire EXCEPT !["client"] = Tail(@)]
     \/ /\ At(reader, "recv") /\ Received("client", CloseFrame)
        /\ reader' = Idle("done")
        /\ Written("server", CloseFrame)
     \/ At(reader, "recv") /\ Ended("client") /\ reader' = Idle("done") /\ UNCHANGED wire
  /\ UNCHANGED <<mode, main, input, ch, cancelled, typed, sent, shown, open, serverVars>>

\* Mutant of Put: a message is dropped when the channel is full.
PutOrDrop ==
  /\ At(reader, "put")
  /\ ch' = IF Len(ch) < Cap THEN Append(ch, reader.msg) ELSE ch
  /\ reader' = Idle("top")
  /\ UNCHANGED <<mode, main, input, cancelled, typed, sent, shown, open, wire, serverVars>>

\* ch <- msg, which waits while the channel is full, whatever the context.
Put ==
  /\ At(reader, "put") /\ Len(ch) < Cap
  /\ ch' = Append(ch, reader.msg)
  /\ reader' = Idle("top")
  /\ UNCHANGED <<mode, main, input, cancelled, typed, sent, shown, open, wire, serverVars>>

-----------------------------------------------------------------------------
(* The echo handlers *)

\* Mutant of HandlerReturns: the handler does not close its connection.
HandlerReturnsOpen == handler' = "done" /\ UNCHANGED open

\* The handler returns and closes the connection.
HandlerReturns == handler' = "done" /\ open' = open \ {"server"}

\* simpleEchoHandler: one goroutine receives and sends back.
SimpleEcho ==
  /\ mode = "simple" /\ handler = "run"
  /\ \/ \E m \in Lines :
          /\ Received("server", m)
          /\ \/ /\ "client" \in open
                /\ wire' = [server |-> Tail(wire["server"]), client |-> Append(wire["client"], m)]
                /\ UNCHANGED <<handler, open>>
             \/ "client" \notin open /\ HandlerReturns /\ UNCHANGED wire
     \/ Ended("server") /\ HandlerReturns /\ UNCHANGED wire
  /\ UNCHANGED <<mode, clientVars, sreader>>

\* readLoop of the gorilla handler: the context ends with the handler.
ServerRead ==
  /\ mode = "gorilla" /\ At(sreader, "recv")
  /\ \/ /\ handler = "run"
        /\ \E m \in Lines : Received("server", m) /\ sreader' = [pc |-> "put", msg |-> m]
        /\ wire' = [wire EXCEPT !["server"] = Tail(@)]
     \/ /\ Received("server", CloseFrame)
        /\ sreader' = Idle("done")
        /\ Written("client", CloseFrame)
     \/ Ended("server") /\ sreader' = Idle("done") /\ UNCHANGED wire
  /\ UNCHANGED <<mode, clientVars, open, handler>>

\* gorillaEchoHandler: takes a message from msgCh and writes it back, or returns when
\* the channel is closed, or when a write or the ping of its timer fails.
GorillaEcho ==
  /\ mode = "gorilla" /\ handler = "run"
  /\ \/ /\ At(sreader, "put")
        /\ sreader' = Idle("recv")
        /\ \/ Written("client", sreader.msg) /\ UNCHANGED <<handler, open>>
           \/ WriteFails("client") /\ HandlerReturns
     \/ At(sreader, "done") /\ HandlerReturns /\ UNCHANGED <<sreader, wire>>
     \/ WriteFails("client") /\ HandlerReturns /\ UNCHANGED sreader
  /\ UNCHANGED <<mode, clientVars>>

\* The server's process ends at any time.
ServerDies ==
  /\ "server" \in open
  /\ handler' = "done" /\ sreader' = Idle("done") /\ open' = open \ {"server"}
  /\ UNCHANGED <<mode, clientVars, wire>>

Main == SelectDone \/ Wait \/ SelectMessage \/ SelectTimeout \/ SelectInput
Server == SimpleEcho \/ ServerRead \/ GorillaEcho

Next ==
  \/ \E m \in Lines : InputSimple(m)
  \/ Main \/ InputLoop \/ ReadLoop \/ Put \/ Server \/ ServerDies

Spec == Init /\ [][Next]_vars

\* Goroutines keep running; the user need not type and the server need not die.
FairSpec ==
  /\ Spec
  /\ WF_vars(Main) /\ WF_vars(ReadLoop) /\ WF_vars(Put) /\ WF_vars(Server)

-----------------------------------------------------------------------------
(* Properties *)

\* What the client prints is what it sent, in order, none twice and none missing in
\* between, through both read loops, the channels and the echo.
EchoesInOrder == IsPrefix(shown, sent)

\* The reader waits to put a message and nobody takes it any more.
ReaderStuck == At(reader, "put") /\ Len(ch) = Cap
ServerStuck == At(sreader, "put") /\ handler = "done"

\* When the user has quit or the server is gone, the client returns, unless it waits
\* for a line, or for a read loop that waits for room in the channel.  When the client
\* is gone, the handler and its read loop end, unless the read loop holds a message
\* that the handler, gone after a failed write, does not take.
Over == cancelled \/ "server" \notin open
ClientEnded == main \in {"done", "input"} \/ (main = "wait" /\ ReaderStuck)
HandlerEnded == handler = "done" /\ (mode = "gorilla" => At(sreader, "done") \/ ServerStuck)
DialogueEnds == (Over ~> ClientEnded) /\ ("client" \notin open ~> HandlerEnded)
==============================================================================
