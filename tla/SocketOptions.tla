--------------------------- MODULE SocketOptions -----------------------------
(***************************************************************************)
(* Socket options of transport/internet (sockopt.go, sockopt_darwin.go):   *)
(* getControlFunc applies the controllers and then the options of a        *)
(* SocketConfig to a socket that is about to listen, and                   *)
(* applyOutboundSocketOptions to one that is about to connect.  Every      *)
(* setsockopt may fail.                                                    *)
(***************************************************************************)
EXTENDS Integers, Sequences, SequencesExt

CONSTANTS
  MaxValue,     \* bound: the largest Tfo, TcpKeepAliveIdle and TcpKeepAliveInterval
  Networks,     \* of "tcp" and "udp"
  Controllers   \* how many controllers are registered

Values == -1 .. MaxValue
Configs ==
  [tfo : Values, idle : Values, interval : Values, nodelay : BOOLEAN,
   interface : {"", "en0", "lo0"}]
NoConfig == << >>

VARIABLES
  cfg,      \* the SocketConfig, in a sequence, or NoConfig for nil
  network,
  dir,      \* "in" or "out"
  todo,     \* the calls that are left: controllers, then <<option, value>>
  set,      \* the options set, in order
  state     \* "apply", "reuse", "ok", "error"

vars == <<cfg, network, dir, todo, set, state>>

Options == {"TCP_FASTOPEN", "IP_BOUND_IF", "TCP_KEEPALIVE", "TCP_KEEPINTVL", "SO_KEEPALIVE", "TCP_NODELAY"}

TypeOK ==
  /\ cfg = NoConfig \/ cfg[1] \in Configs
  /\ network \in Networks /\ dir \in {"in", "out"}
  /\ state \in {"apply", "reuse", "ok", "error"}
  /\ \A i \in DOMAIN set : set[i][1] \in Options \cup {"SO_REUSEPORT"} /\ set[i][2] \in Int

When(cond, opt, v) == IF cond THEN <<<<opt, v>>>> ELSE << >>

\* ParseTFOValue: 0 leaves the option alone, below 0 switches it off.
ParseTFOValue(c) == IF c.tfo = 0 THEN -1 ELSE IF c.tfo < 0 THEN 0 ELSE c.tfo

\* getInterfaceIndexByName: 0 unless the interface is up, not a loopback, and has an
\* IPv4 address.  Here en0 is, and has the index 1; lo0 stands for any other.
getInterfaceIndexByName(name) == IF name = "en0" THEN 1 ELSE 0

\* Mutant of KeepAlive: keep-alive is switched on before its times are set.
KeepAliveFirst(c) ==
     (IF c.idle > 0 \/ c.interval > 0 THEN <<<<"SO_KEEPALIVE", 1>>>>
      ELSE When(c.interval < 0 \/ c.idle < 0, "SO_KEEPALIVE", 0))
  \o When(c.idle > 0, "TCP_KEEPALIVE", c.interval)
  \o When(c.interval > 0, "TCP_KEEPINTVL", c.idle)

\* The keep-alive options.  SO_KEEPALIVE comes after the options it goes by.
KeepAlive(c) ==
     When(c.idle > 0, "TCP_KEEPALIVE", c.interval)
  \o When(c.interval > 0, "TCP_KEEPINTVL", c.idle)
  \o IF c.idle > 0 \/ c.interval > 0 THEN <<<<"SO_KEEPALIVE", 1>>>>
     ELSE When(c.interval < 0 \/ c.idle < 0, "SO_KEEPALIVE", 0)

\* What applyInboundSocketOptions sets, in order, until one fails.
applyInboundSocketOptions(c) ==
  IF network # "tcp" THEN << >>
  ELSE When(ParseTFOValue(c) >= 0, "TCP_FASTOPEN", IF ParseTFOValue(c) > 0 THEN 1 ELSE 0)
    \o When(getInterfaceIndexByName(c.interface) # 0, "IP_BOUND_IF", getInterfaceIndexByName(c.interface))
    \o KeepAlive(c)

\* applyOutboundSocketOptions has another value for fast open, and TCP_NODELAY.
applyOutboundSocketOptions(c) ==
  IF network # "tcp" THEN << >>
  ELSE When(ParseTFOValue(c) >= 0, "TCP_FASTOPEN", IF ParseTFOValue(c) > 0 THEN 2 ELSE 0)
    \o When(getInterfaceIndexByName(c.interface) # 0, "IP_BOUND_IF", getInterfaceIndexByName(c.interface))
    \o KeepAlive(c)
    \o When(c.nodelay, "TCP_NODELAY", 1)

Init ==
  /\ network \in Networks
  /\ \/ /\ dir = "in"
        /\ cfg \in {<<c>> : c \in Configs} \cup {NoConfig}
        /\ todo = [i \in 1 .. Controllers |-> <<"controller", i>>]
                    \o (IF cfg = NoConfig THEN << >> ELSE applyInboundSocketOptions(cfg[1]))
     \/ dir = "out" /\ cfg \in {<<c>> : c \in Configs} /\ todo = applyOutboundSocketOptions(cfg[1])
  /\ set = << >> /\ state = "apply"

\* A controller that fails is logged, and the next one goes on.
Controller ==
  /\ state = "apply" /\ todo # << >> /\ todo[1][1] = "controller"
  /\ todo' = Tail(todo)
  /\ UNCHANGED <<cfg, network, dir, set, state>>

\* A setsockopt; the first failure ends the function.  getControlFunc only logs it.
Setsockopt ==
  /\ state = "apply" /\ todo # << >> /\ todo[1][1] \in Options
  /\ \/ todo' = Tail(todo) /\ set' = Append(set, todo[1]) /\ UNCHANGED state
     \/ state' = (IF dir = "in" THEN "reuse" ELSE "error") /\ UNCHANGED <<todo, set>>
  /\ UNCHANGED <<cfg, network, dir>>

Applied ==
  /\ state = "apply" /\ todo = << >>
  /\ state' = IF dir = "in" THEN "reuse" ELSE "ok"
  /\ UNCHANGED <<cfg, network, dir, todo, set>>

\* setReusePort, whose error nobody looks at.
setReusePort ==
  /\ state = "reuse"
  /\ state' = "ok"
  /\ set' \in {set, Append(set, <<"SO_REUSEPORT", 1>>)}
  /\ UNCHANGED <<cfg, network, dir, todo>>

Next == Controller \/ Setsockopt \/ Applied \/ setReusePort

Spec == Init /\ [][Next]_vars

-----------------------------------------------------------------------------
(* Properties *)

Has(opt, v) == \E i \in DOMAIN set : set[i] = <<opt, v>>

\* What a config asks for, option by option: the values that may be set.  An interface
\* that getInterfaceIndexByName does not find is not asked for.  Each of the two times
\* of keep-alive goes by the other's value, which KeepAliveTimes is about.
Wanted(c, opt) ==
  CASE opt = "TCP_FASTOPEN"  -> IF c.tfo = 0 THEN {} ELSE IF c.tfo < 0 THEN {0}
                                ELSE IF dir = "in" THEN {1} ELSE {2}
    [] opt = "IP_BOUND_IF"   -> IF c.interface = "en0" THEN {1} ELSE {}
    [] opt = "TCP_KEEPALIVE" -> IF c.idle > 0 THEN {c.interval} ELSE {}
    [] opt = "TCP_KEEPINTVL" -> IF c.interval > 0 THEN {c.idle} ELSE {}
    [] opt = "SO_KEEPALIVE"  -> IF c.idle > 0 \/ c.interval > 0 THEN {1}
                                ELSE IF c.idle < 0 \/ c.interval < 0 THEN {0} ELSE {}
    [] opt = "TCP_NODELAY"   -> IF dir = "out" /\ c.nodelay THEN {1} ELSE {}

\* When nothing failed (no call is left), a TCP socket has every option the config asks
\* for, interface and keep-alive times included; whether or not something failed, it has
\* no option and no value that is not asked for, and never keep-alive switched on while
\* one of its times is not set.  Options for TCP are not set on other sockets and none
\* without a config, and a listening socket always gets as far as sharing its port.
OptionsInForce ==
  LET Asked(opt) == IF cfg = NoConfig \/ network # "tcp" THEN {} ELSE Wanted(cfg[1], opt)
      Given(opt) == {set[i][2] : i \in {j \in DOMAIN set : set[j][1] = opt}}
  IN /\ TypeOK
     /\ \A opt \in Options : Given(opt) \subseteq Asked(opt)
     /\ (state = "ok" /\ todo = << >>) => \A opt \in Options : Given(opt) = Asked(opt)
     /\ 1 \in Given("SO_KEEPALIVE") =>
          \A opt \in {"TCP_KEEPALIVE", "TCP_KEEPINTVL"} : Given(opt) = Asked(opt)
     /\ dir = "in" => state # "error"

\* "failed to set TCP_KEEPINTVL" is the message for the call that sets the interval, and
\* "failed to set TCP_KEEPIDLE" for the one that sets the idle time: the kernel gets
\* each time for the option it is the time of (TCP_KEEPALIVE is the idle time).
KeepAliveTimes ==
  (cfg # NoConfig /\ Has("SO_KEEPALIVE", 1)) =>
    /\ cfg[1].idle > 0 => Has("TCP_KEEPALIVE", cfg[1].idle)
    /\ cfg[1].interval > 0 => Has("TCP_KEEPINTVL", cfg[1].interval)
==============================================================================
