----------------------------- MODULE Endpoints -------------------------------
(***************************************************************************)
(* Addresses, ports and destinations of package net, and the targets of    *)
(* cmd/internal/cli/target.go.  A Destination is made from text, from a    *)
(* net.Addr or from the protobuf Endpoint, and then presented and read     *)
(* back again and again, in each of these forms.  Text is abstract: what   *)
(* kind of host it names and whether it is in brackets or has spaces.      *)
(***************************************************************************)
EXTENDS Integers, Sequences

CONSTANTS
  Ports,    \* numbers given for ports, larger than a port too
  Ranges    \* port ranges of a PortList: pairs of such numbers

\* A host in text: kind is "ip4", "ip6", "mapped" (an IPv4 address in IPv6 form),
\* "name", "unknown" or "" (no host).
Text(kind, bracket, space) == [kind |-> kind, bracket |-> bracket, space |-> space]
Texts ==
  {t \in [kind : {"ip4", "ip6", "mapped", "name", ""}, bracket : BOOLEAN, space : BOOLEAN] :
     t.kind = "" => ~t.space}
Colons(t) == t.kind \in {"ip6", "mapped"}

\* Ports in text that are no number: no colon after the host, nothing after the colon,
\* and something else than digits.
NoPort == -1
EmptyPort == -2
BadPort == -3
PortTexts == Ports \cup {NoPort, EmptyPort, BadPort}

\* The bytes of a net.IP: their number, and whether 16 of them hold an IPv4 address.
IPs == {<<0, FALSE>>, <<4, FALSE>>, <<16, FALSE>>, <<16, TRUE>>}
Networks == {"tcp", "udp", "unix", "unknown"}
Nil == <<"nil">>
Failed == <<"error">>
Panics == <<"panic">>

VARIABLES
  first,    \* the Destination as it was first made, or Failed, or Panics
  dest,     \* what the last conversion gave
  steps     \* conversions so far: at most two

vars == <<first, dest, steps>>

-----------------------------------------------------------------------------
(* Addresses *)

\* IPAddress: 16 bytes that hold an IPv4 address become one; other lengths give nil.
IPAddress(ip) ==
  CASE ip[1] = 4 \/ (ip[1] = 16 /\ ip[2]) -> <<"ip4">>
    [] ip[1] = 16 /\ ~ip[2]               -> <<"ip6">>
    [] OTHER                              -> Nil

DomainAddress(t) == <<"domain", t>>

\* net.ParseIP, external: 16 bytes also for IPv4.
ParseIP(t) ==
  IF t.bracket \/ t.space \/ t.kind \notin {"ip4", "ip6", "mapped"} THEN <<0, FALSE>>
  ELSE <<16, t.kind # "ip6">>

\* ParseAddress: brackets around the whole text are taken off, then the spaces.
\* (Spaces, when there are any, are inside the brackets.)
ParseAddress(t) ==
  LET bare == Text(t.kind, FALSE, FALSE)
      ip == ParseIP(bare)
  IN IF ip[1] > 0 THEN IPAddress(ip) ELSE DomainAddress(bare)

\* Mutant of AddressString: no brackets.
AddressStringBare(a) == IF Len(a) = 2 THEN a[2] ELSE Text(a[1], FALSE, FALSE)

\* String of the three kinds of address: IPv6 is in brackets.
AddressString(a) ==
  CASE a = <<"ip4">> -> Text("ip4", FALSE, FALSE)
    [] a = <<"ip6">> -> Text("ip6", TRUE, FALSE)
    [] OTHER         -> a[2]

IsIP(a) == a \in {<<"ip4">>, <<"ip6">>}
\* IP of an IPv4 or IPv6 address, 4 or 16 bytes.
AddressIP(a) == IF a = <<"ip4">> THEN <<4, FALSE>> ELSE <<16, FALSE>>

\* NewIPOrDomain, then AsAddress.
NewIPOrDomain(a) == IF IsIP(a) THEN [ip |-> AddressIP(a)] ELSE [domain |-> a[2]]
AsAddress(d) == IF "ip" \in DOMAIN d THEN IPAddress(d.ip) ELSE DomainAddress(d.domain)

-----------------------------------------------------------------------------
(* Ports *)

\* The conversion Port(n), to 16 bits.
Port(n) == n % 65536

\* PortFromString and PortFromInt: an error for what is no number and beyond 65535.  (0 is
\* a port to the code, although the comment of PortFromInt calls it an error.)
PortError == -1
PortFromString(p) == IF p \in 0 .. 65535 THEN p ELSE PortError

\* MemoryPortList.Contains, of the ranges PortListFromProto has converted.
PortListFromProto(l) == [i \in DOMAIN l |-> <<Port(l[i][1]), Port(l[i][2])>>]
MemoryPortListContains(l, p) == \E i \in DOMAIN l : l[i][1] <= p /\ p <= l[i][2]

-----------------------------------------------------------------------------
(* Destinations *)

Destination(net, a, p) == <<net, a, p>>
Network(d) == d[1]
Address(d) == d[2]

\* net.SplitHostPort, external: colons need brackets, which are taken off.
SplitsHostPort(t) == t.kind = "" \/ t.bracket \/ ~Colons(t)
SplitHost(t) == Text(t.kind, FALSE, t.space)

\* ParseDestination of "network:host:port", where "unknown" stands for a text without
\* one of the prefixes.
ParseDestination(net, t, p) ==
  IF net = "unix" THEN Destination(net, DomainAddress(t), 0)
  ELSE IF \/ ~SplitsHostPort(t) \/ p = NoPort
          \/ p # EmptyPort /\ PortFromString(p) = PortError THEN Failed
  ELSE Destination(net, IF t.kind = "" THEN <<"ip4">> ELSE ParseAddress(SplitHost(t)),
                   IF p = EmptyPort THEN 0 ELSE p)

\* DestinationFromAddr; a net.Addr that is nil makes it panic.
DestinationFromAddr(addr) ==
  IF addr = Nil THEN Panics
  ELSE IF addr[1] = "unix" THEN Destination("unix", DomainAddress(addr[2]), 0)
  ELSE Destination(addr[1], IPAddress(addr[2]), Port(addr[3]))

\* RawNetAddr: nil when the address does not fit the network.
RawNetAddr(d) ==
  CASE Network(d) \in {"tcp", "udp"} /\ IsIP(Address(d)) -> <<Network(d), AddressIP(Address(d)), d[3]>>
    [] Network(d) = "unix" /\ ~IsIP(Address(d)) -> <<"unix", AddressString(Address(d))>>
    [] OTHER -> Nil

\* String and NetAddr: a destination without a network is "unknown:".
ReadBack(d) ==
  IF Network(d) = "unknown" THEN ParseDestination("unknown", Text("unknown", FALSE, FALSE), EmptyPort)
  ELSE ParseDestination(Network(d), AddressString(Address(d)), d[3])

\* AsDestination of an Endpoint.
AsDestination(net, addr, port) == Destination(net, AsAddress(addr), Port(port))

-----------------------------------------------------------------------------
(* Targets of the commands: a host and a port, 0 for none *)

\* defaultPort of a scheme.
defaultPort(scheme) ==
  CASE scheme \in {"http", "ws"} -> 80 [] scheme \in {"https", "wss"} -> 443
    [] scheme = "grpc" -> 50051 [] OTHER -> 0

\* ParseTarget: nothing is an error, and so is a port that is no number.  A URL needs a
\* host or a colon and has the port of its scheme; without a scheme, a text that is not
\* host:port is a bare host, kept as it is.
ParseTarget(scheme, t, p) ==
  IF scheme # ""
  THEN IF p = BadPort \/ (t.kind = "" /\ p = NoPort) THEN Failed
       ELSE <<SplitHost(t), IF p \in {NoPort, EmptyPort} THEN defaultPort(scheme) ELSE p>>
  ELSE IF t.kind = "" /\ ~t.bracket /\ p = NoPort THEN Failed
  ELSE IF p = NoPort \/ ~SplitsHostPort(t) THEN <<t, 0>>
  ELSE IF p \in {EmptyPort, BadPort} THEN Failed ELSE <<SplitHost(t), p>>

\* HostPort, then ParseTarget: net.JoinHostPort puts colons in brackets.
ReadBackTarget(d) ==
  IF d[2] = 0 THEN ParseTarget("", d[1], NoPort)
  ELSE ParseTarget("", [d[1] EXCEPT !.bracket = Colons(d[1])], d[2])

\* Of URLs, those whose host is in brackets exactly when it has colons.
Targets ==
  {ParseTarget("", t, p) : t \in {x \in Texts : ~x.space}, p \in PortTexts}
  \cup {ParseTarget(scheme, t, p) :
          scheme \in {"http", "https", "ws", "wss", "grpc", "other"},
          t \in {x \in Texts : x.bracket = Colons(x) /\ ~x.space}, p \in PortTexts}

-----------------------------------------------------------------------------

Made ==
     {ParseDestination(net, t, p) : net \in Networks, t \in Texts, p \in PortTexts}
  \cup {DestinationFromAddr(<<net, ip, p>>) :
          net \in {"tcp", "udp"}, ip \in IPs, p \in {q \in Ports : q < 65536}}
  \cup {AsDestination(net, d, p) : net \in Networks, p \in Ports,
          d \in {[ip |-> ip] : ip \in IPs}
                \cup {[domain |-> Text(k, FALSE, FALSE)] : k \in {"name", "ip4"}}}

Usable(d) == d \notin {Failed, Panics}

TypeOK ==
  /\ steps \in 0 .. 2
  /\ \A d \in {first, dest} : Usable(d) => Network(d) \in Networks /\ d[3] \in 0 .. 65535

Init == first \in Made /\ dest = first /\ steps = 0

\* Presenting a destination whose address is nil panics.
Convert(to) ==
  /\ Usable(dest) /\ steps < 2
  /\ steps' = steps + 1
  /\ dest' = IF Address(dest) = Nil /\ Network(dest) # "unknown" THEN Panics
             ELSE CASE to = "text" -> ReadBack(dest)
                    [] to = "addr" -> DestinationFromAddr(RawNetAddr(dest))
                    [] to = "proto" -> IF Address(dest) = Nil THEN Panics
                                       ELSE AsDestination(Network(dest), NewIPOrDomain(Address(dest)), dest[3])
  /\ UNCHANGED first

Next == \E to \in {"text", "addr", "proto"} : Convert(to)

Spec == Init /\ [][Next]_vars

-----------------------------------------------------------------------------
(* Properties *)

\* An IPv4 address that an Endpoint gives as a domain.
Spelled(d) == Network(d) # "unix" /\ Address(d) = DomainAddress(Text("ip4", FALSE, FALSE))

\* What the text of a unix destination has room for: a path.
PathOf(d) == Destination("unix", DomainAddress(AddressString(Address(d))), 0)

\* A destination stays what it is through any conversions: as text, as a net.Addr and
\* as an Endpoint it is read back as the same network, address and port.  What cannot
\* be: one without a network is not read back, one whose address is nil (from an IP of
\* another length) panics, a name has no net.Addr, an IP given as a domain becomes an IP
\* when it is read from text, and a unix destination from an Endpoint with an IP or a
\* port has no net.Addr for the IP and no text for the port.  Ports stay in 16 bits, a
\* command's target is read back from its HostPort unless it has neither host nor port,
\* and a PortList holds the ports its ranges name, where their ends are ports.
ReadsBack ==
  /\ TypeOK
  /\ (Usable(first) /\ Network(first) # "unknown" /\ Address(first) # Nil) =>
       \/ dest = first
       \/ Network(first) = "unix" /\ dest = PathOf(first)
       \/ dest = Panics /\ (IsIP(Address(first)) <=> Network(first) = "unix")
       \/ Spelled(first) /\ dest = <<Network(first), <<"ip4">>, first[3]>>
  /\ \A t \in Targets \ {Failed} :
       ReadBackTarget(t) = IF t[1].kind = "" /\ ~t[1].bracket /\ t[2] = 0 THEN Failed ELSE t
  /\ \A r \in Ranges, p \in Ports :
       (r[1] < 65536 /\ r[2] < 65536 /\ p < 65536) =>
         (MemoryPortListContains(PortListFromProto(<<r>>), p) <=> p \in r[1] .. r[2])
==============================================================================
