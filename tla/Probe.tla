-------------------------------- MODULE Probe -------------------------------
(***************************************************************************)
(* One command of proxypen from its arguments to its exit code             *)
(* (src/main.rs: run_test, run_press, run_benchmark): which transport it   *)
(* builds, who resolves the host name, which sockets it opens and through  *)
(* what, and how each protocol's probe ends.  The SOCKS5 sessions are      *)
(* those of SocksClient; DNS messages and SOCKS5 UDP headers are bytes, of *)
(* DnsMessage and SocksUdp.  What runs on an open connection is left to    *)
(* Press, HttpServer and BenchSession: here a connection succeeds or fails.*)
(***************************************************************************)
EXTENDS SocksClient, DnsMessage

CONSTANTS
  Commands,    \* "test", "press", "benchmark"
  Hosts,       \* the labels of every host name; "v4" and "v6" are literals
  Interfaces,  \* --interface: "none", "name", "v4", "v6"
  Auths,       \* credentials in the proxy URL
  Ids,         \* DNS transaction ids
  Headers,     \* SOCKS5 UDP headers a relay writes: an address and a fault
  Replies,     \* DNS answers: a message, its size on arrival, a relay's header
  MaxQuic      \* bound: datagrams that reach one QUIC endpoint

ASSUME ProbeAssumption ==
  /\ Commands \subseteq {"test", "press", "benchmark"}
  /\ {"v4", "v6"} \subseteq DOMAIN Hosts
  /\ Interfaces \subseteq {"none", "name", "v4", "v6"}
  /\ Auths \subseteq [user : Nat, pass : Nat]
  /\ Ids \subseteq Nat
  /\ MaxQuic \in Nat

\* A relay writes addresses of any kind, sound or with a fault; a DNS server
\* writes messages of which a datagram holds the first `size' bytes.  recv's
\* buffer leaves 256 bytes for the header, six less than the longest one has:
\* of the 1500 bytes resolve_a has room for, 1494 are sure to fit (a query
\* without EDNS is answered in 512).
IsHeader(h) == IsDst(h.dst) /\ h.fault \in {"none", "frag", "type", "short", "stub"}

ASSUME DatagramAssumption ==
  /\ \A h \in Headers : IsHeader(h)
  /\ \A r \in Replies : IsHeader(r.hdr) /\ r.msg \in Messages /\ r.size \in Nat
  /\ \A r \in Replies : r.size <= 1494

VARIABLES
  opts,      \* the arguments
  pc,        \* where the command is
  resolved,  \* TestTarget.resolved_addr
  id,        \* the id of the DNS query
  read, got, \* the datagram received last and what recv made of it
  quic,      \* datagrams the QUIC endpoint has received
  todo,      \* protocols still to probe
  results,   \* the probes' outcomes
  exit,      \* the exit code
  asked,     \* history: who was asked for the host's address
  sockets    \* history: sockets opened, by peer and local binding

cmdVars == <<opts, resolved, id, todo, results, exit>>
netVars == <<read, got, quic>>
logVars == <<asked, sockets>>
vars == <<opts, pc, resolved, id, read, got, quic, todo, results, exit,
          asked, sockets, auth, sess, c2p, p2c, peer>>

NoAddr == [kind |-> "none"]
NoDatagram == [from |-> "none"]
SystemV4 == [kind |-> "v4", addr |-> <<10, 0, 0, 1>>]
SystemV6 == [kind |-> "v6", addr |-> [i \in 1..16 |-> i]]
LiteralV4 == [kind |-> "v4", addr |-> <<10, 0, 0, 2>>]
LiteralV6 == [kind |-> "v6", addr |-> [i \in 1..16 |-> 0]]
Port == 443

\* url::Url keeps the brackets of an IPv6 host, so only an IPv4 literal parses
\* as an IpAddr; a SocketAddr of --target for benchmark may be of either kind.
ParsesAsIp(host) == host = "v4"

\* to_socks_addr with the name before the resolved address.
ToSocksAddrByName ==
  IF ParsesAsIp(opts.host) THEN [kind |-> "v4", addr |-> LiteralV4.addr, port |-> Port]
  ELSE [kind |-> "domain", addr |-> Flat(Hosts[opts.host]), port |-> Port]

\* to_socks_addr: the resolved address, the literal, or the name itself.
ToSocksAddr ==
  IF resolved # NoAddr THEN [kind |-> resolved.kind, addr |-> resolved.addr, port |-> Port]
  ELSE IF ParsesAsIp(opts.host) THEN [kind |-> "v4", addr |-> LiteralV4.addr, port |-> Port]
  ELSE [kind |-> "domain", addr |-> Flat(Hosts[opts.host]), port |-> Port]

Hint == [kind |-> "v4", addr |-> <<0, 0, 0, 0>>, port |-> 0]

TypeOK ==
  /\ pc \in {"build", "resolve", "dns_open", "dns_socks", "dns_send", "dns_wait",
             "probe", "socks", "stream", "quic", "closing", "exit"}
  /\ resolved.kind \in {"none", "v4", "v6"}
  /\ quic \in 0..MaxQuic
  /\ Len(todo) + Len(results) <= 3
  /\ exit \in {0, 1, 101}
  /\ asked \subseteq {"system", "dns", "proxy"}
  /\ sess.pc \in {"none", "method", "status", "reply", "open", "failed", "panicked"}

Init ==
  /\ opts \in [cmd : Commands, proxy : BOOLEAN, iface : Interfaces, dns : {"none", "addr", "junk"},
               resolve : BOOLEAN, host : DOMAIN Hosts, stalls : BOOLEAN]
  /\ opts.stalls => opts.proxy
  /\ opts.resolve => opts.cmd # "benchmark"
  /\ auth \in Auths
  /\ ~opts.proxy => auth = NoAuth
  /\ pc = "build" /\ resolved = NoAddr /\ id = 0
  /\ read = NoDatagram /\ got = Err /\ quic = 0
  /\ todo = <<>> /\ results = <<>> /\ exit = 0
  /\ asked = {} /\ sockets = {}
  /\ sess = NoSession /\ c2p = <<>> /\ p2c = <<>> /\ peer = NewPeer

-----------------------------------------------------------------------------
\* The process ends; everything it holds is dropped.
Exit(code) ==
  /\ pc' = "exit"
  /\ exit' = code
  /\ SocksDrop
  /\ UNCHANGED <<opts, resolved, id, todo, results>>

\* TransportArgs::build and build_dns.
Build ==
  /\ pc = "build"
  /\ \/ /\ (opts.proxy /\ opts.iface # "none") \/ opts.dns = "junk"
        /\ Exit(1)
     \/ /\ ~(opts.proxy /\ opts.iface # "none") /\ opts.dns # "junk"
        /\ pc' = "resolve"
        /\ UNCHANGED <<cmdVars, socksVars>>
  /\ UNCHANGED <<netVars, logVars>>

\* The argument is an address already.
IsLiteral ==
  IF opts.cmd = "benchmark" THEN opts.host \in {"v4", "v6"} ELSE ParsesAsIp(opts.host)

\* synthetic_target: a benchmark connects to the address it was given.
SyntheticTarget == IF opts.host = "v4" THEN LiteralV4 ELSE LiteralV6

\* Nothing to resolve before the probes: a literal, or neither --dns-server
\* nor --resolve.  A benchmark has its address.
ResolveNothing ==
  /\ pc = "resolve"
  /\ IsLiteral \/ (opts.dns = "none" /\ ~opts.resolve /\ opts.cmd # "benchmark")
  /\ resolved' = IF opts.cmd # "benchmark" THEN resolved ELSE SyntheticTarget
  /\ pc' = "probe"
  /\ UNCHANGED <<opts, id, todo, results, exit, netVars, logVars, socksVars>>

\* --dns-server, which wins over --resolve: resolve_a checks the name's length.
ResolveByDns ==
  /\ pc = "resolve"
  /\ ~IsLiteral /\ opts.dns = "addr"
  /\ \/ NameLen(Hosts[opts.host]) > MaxNameLen /\ Exit(1)
     \/ /\ NameLen(Hosts[opts.host]) <= MaxNameLen
        /\ pc' = "dns_open"
        /\ UNCHANGED <<cmdVars, socksVars>>
  /\ UNCHANGED <<netVars, logVars>>

\* tokio::net::lookup_host: who is asked, and the first address if any.  A
\* bracketed literal with its port is an address to lookup_host.
Lookup(outcome) ==
  IF opts.host = "v6" THEN {LiteralV6}
  ELSE IF outcome = "addr" THEN {SystemV4, SystemV6} ELSE {NoAddr}
Asking == IF opts.host = "v6" THEN asked ELSE asked \cup {"system"}

\* resolve_local (--resolve), where an empty answer leaves no address and is
\* no error; parse_bench_target, where it is one.
ResolveBySystem ==
  /\ pc = "resolve"
  /\ ~IsLiteral /\ opts.dns = "none" /\ (opts.resolve \/ opts.cmd = "benchmark")
  /\ asked' = Asking
  /\ \E l \in Lookups, a \in {SystemV4, SystemV6, LiteralV6, NoAddr} :
       /\ a \in Lookup(l)
       /\ \/ /\ a # NoAddr \/ (l = "empty" /\ opts.cmd # "benchmark")
             /\ resolved' = a /\ pc' = "probe"
             /\ UNCHANGED <<opts, id, todo, results, exit, socksVars>>
          \/ /\ ~(a # NoAddr \/ (l = "empty" /\ opts.cmd # "benchmark"))
             /\ Exit(1)
  /\ UNCHANGED <<netVars, sockets>>

-----------------------------------------------------------------------------
\* A UDP socket bound to the wildcard when an interface is named.
BuildUdpSocketUnbound(family) ==
  CASE opts.iface \in {"none", "name"} -> {"none", "error"}
    [] OTHER -> IF opts.iface = family THEN {opts.iface, "error"} ELSE {"error"}

\* build_udp_socket for a peer of the family: the local bindings it may end
\* with.  A source address of the other family cannot be bound.
BuildUdpSocket(family) ==
  CASE opts.iface = "none" -> {"none", "error"}
    [] opts.iface = "name" -> {"name", "error"}
    [] OTHER -> IF opts.iface = family THEN {opts.iface, "error"} ELSE {"error"}

\* apply_interface and bind_by_name on the TCP socket of connect_tcp.
ApplyInterface(family) ==
  CASE opts.iface = "none" -> {"none"}
    [] opts.iface = "name" -> {"name", "error"}
    [] OTHER -> IF opts.iface = family THEN {opts.iface, "error"} ELSE {"error"}

Opened(peer_, via) == sockets' = sockets \cup {[peer |-> peer_, via |-> via]}

\* open_udp, direct: a socket connected to the DNS server (an IPv4 address).
DnsOpenDirect ==
  /\ pc = "dns_open" /\ ~opts.proxy
  /\ \E via \in BuildUdpSocket("v4") :
       \/ via = "error" /\ Exit(1) /\ UNCHANGED sockets
       \/ /\ via # "error" /\ Opened("dns", via) /\ pc' = "dns_send"
          /\ UNCHANGED <<cmdVars, socksVars>>
  /\ UNCHANGED <<netVars, asked>>

\* open_udp, SOCKS5: an association, with no timeout around it.
DnsOpenSocks ==
  /\ pc = "dns_open" /\ opts.proxy
  /\ \/ SocksOpen("associate", Hint) /\ Opened("proxy", "none")
     \/ SocksOpenFails("associate", Hint) /\ UNCHANGED sockets
  /\ pc' = "dns_socks"
  /\ UNCHANGED <<cmdVars, netVars, asked>>

DnsAssociated ==
  /\ pc = "dns_socks"
  /\ \/ sess.pc = "failed" /\ Exit(1) /\ UNCHANGED sockets
     \/ sess.pc = "panicked" /\ Exit(101) /\ UNCHANGED sockets
     \/ /\ sess.pc = "open" /\ Opened("relay", "none") /\ pc' = "dns_send"
        /\ UNCHANGED <<cmdVars, socksVars>>
  /\ UNCHANGED <<netVars, asked>>

\* random_id, encode_query and the one send of resolve_a; a failed send is an
\* error of the command.
DnsSend ==
  /\ pc = "dns_send"
  /\ \E i \in Ids :
       \/ /\ EncodeQuery(i, Hosts[opts.host]).ok
          /\ pc' = "dns_wait" /\ id' = i /\ asked' = asked \cup {"dns"}
          /\ UNCHANGED <<opts, resolved, todo, results, exit, socksVars>>
       \/ Exit(1) /\ UNCHANGED asked
  /\ UNCHANGED <<netVars, sockets>>

\* The bytes of a bad header: with FRAG set, of an unknown type, or cut short.
HeaderBytes(h) ==
  LET b == EncodeHeader(h.dst) IN
  CASE h.fault = "frag" -> [b EXCEPT ![3] = 1]
    [] h.fault = "type" -> [b EXCEPT ![4] = 9]
    [] h.fault = "short" -> Cut(b, Len(b) - 1)
    [] h.fault = "stub" -> Cut(b, 4)

\* A datagram from the relay, framed as the client frames its own.
Relayed(hdr, payload) ==
  CASE hdr.fault = "none" -> Wrap(hdr.dst, payload)
    [] hdr.fault \in {"frag", "type"} -> HeaderBytes(hdr) \o payload
    [] OTHER -> HeaderBytes(hdr)

\* TransportUdpSocket::recv of a payload, into a buffer of 1500 bytes.
Recv(hdr, payload) ==
  IF opts.proxy THEN SocksRecv(Relayed(hdr, payload), 1500)
  ELSE [ok |-> TRUE, payload |-> payload]

\* recv and decode_a_response: the first datagram that reaches the socket
\* decides: an answer of the DNS server, to this query or another, or, through a
\* relay, of any other host (a direct socket is connected).  The socket and
\* the association end with resolve_a.
DnsRecv ==
  /\ pc = "dns_wait"
  /\ \E r \in Replies, i \in Ids :
       LET m   == [r.msg EXCEPT !.id = i]
           rcv == Recv(r.hdr, Cut(ReplyBytes(m), r.size))
           a   == IF rcv.ok THEN DecodeAResponse(id, rcv.payload) ELSE Err
       IN  /\ ~opts.proxy => r.hdr.fault = "none"
           /\ read' = [from |-> "dns", msg |-> m, size |-> r.size, hdr |-> r.hdr]
           /\ got' = rcv
           /\ \/ ~a.ok /\ Exit(1)
              \/ /\ a.ok /\ resolved' = [kind |-> "v4", addr |-> a.addr]
                 /\ pc' = "probe" /\ SocksDrop
                 /\ UNCHANGED <<opts, id, todo, results, exit>>
  /\ UNCHANGED <<quic, logVars>>

\* Waiting without QUERY_TIMEOUT.
DnsTimeoutNever == FALSE

\* QUERY_TIMEOUT, or recv itself fails.
DnsTimeout ==
  /\ pc = "dns_wait"
  /\ Exit(1)
  /\ UNCHANGED <<netVars, logVars>>

-----------------------------------------------------------------------------
\* --protocol of test, press or the benchmark's one control connection.
Protocols(cmd) ==
  CASE cmd = "test" -> {<<"http1">>, <<"http2">>, <<"http3">>, <<"http1", "http2", "http3">>}
    [] cmd = "press" -> {<<"http1">>, <<"http2">>, <<"http3">>}
    [] OTHER -> {<<"bench">>}

\* test_all and its single forms: args.protocol is first looked at here.
ProbesStart ==
  /\ pc = "probe" /\ todo = <<>> /\ results = <<>>
  /\ todo' \in Protocols(opts.cmd)
  /\ read' = NoDatagram /\ got' = Err
  /\ UNCHANGED <<opts, pc, resolved, id, results, exit, quic, logVars, socksVars>>

\* A probe has its result but stays the next to run.
ProbeResultInPlace(outcome) ==
  /\ results' = Append(results, outcome)
  /\ SocksDrop
  /\ UNCHANGED <<opts, resolved, id, exit, todo>>

\* A probe has its result, and its stream or control stream is dropped.
ProbeResult(outcome) ==
  /\ todo' = Tail(todo)
  /\ results' = Append(results, outcome)
  /\ SocksDrop
  /\ UNCHANGED <<opts, resolved, id, exit>>

\* The next probe starts with no QUIC endpoint.
EndpointGone == pc' = "probe" /\ quic' = 0 /\ read' = NoDatagram /\ got' = Err

\* A probe ends.  A QUIC probe drops its control stream before its endpoint:
\* by name after the response, and as the later of two locals when an error or
\* the timeout ends do_test.
ProbeEnds(outcome) ==
  /\ ProbeResult(outcome)
  /\ \/ pc = "quic" /\ pc' = "closing" /\ UNCHANGED netVars
     \/ pc # "quic" /\ EndpointGone

\* The endpoint is dropped with do_test.
EndpointDrops ==
  /\ pc = "closing"
  /\ EndpointGone
  /\ UNCHANGED <<cmdVars, logVars, socksVars>>

Current == Head(todo)
Probing == todo # <<>>
IsQuic == Current = "http3"

\* connector::connect and associate of the probe.  A CONNECT carries the
\* destination, so a name in it is the proxy's to resolve (recorded when the
\* session starts).
ProbeOpenSocks ==
  /\ pc = "probe" /\ Probing /\ opts.proxy
  /\ LET cmd == IF IsQuic THEN "associate" ELSE "connect"
         dst == IF IsQuic THEN Hint ELSE ToSocksAddr
     IN  \/ /\ SocksOpen(cmd, dst)
            /\ Opened("proxy", "none")
            /\ asked' = IF dst.kind = "domain" THEN asked \cup {"proxy"} ELSE asked
         \/ SocksOpenFails(cmd, dst) /\ UNCHANGED logVars
  /\ pc' = "socks"
  /\ UNCHANGED <<cmdVars, netVars>>

\* build_socks_endpoint with the control stream dropped on the way.
ProbeAssociatedDropsControl ==
  /\ pc = "socks" /\ IsQuic /\ sess.pc = "open"
  /\ Opened("relay", "none")
  /\ pc' = "quic"
  /\ asked' = IF ToSocksAddr.kind = "domain" THEN asked \cup {"proxy"} ELSE asked
  /\ SocksDrop
  /\ UNCHANGED <<cmdVars, netVars>>

\* build_socks_endpoint: every datagram will carry to_socks_addr, so a name is
\* the proxy's to resolve; the control stream stays with the probe.
ProbeAssociated ==
  /\ pc = "socks" /\ IsQuic /\ sess.pc = "open"
  /\ Opened("relay", "none")
  /\ pc' = "quic"
  /\ asked' = IF ToSocksAddr.kind = "domain" THEN asked \cup {"proxy"} ELSE asked
  /\ UNCHANGED <<cmdVars, netVars, socksVars>>

\* connector::connect returns the tunnel.
ProbeTunnelled ==
  /\ pc = "socks" /\ ~IsQuic /\ sess.pc = "open"
  /\ pc' = "stream"
  /\ UNCHANGED <<cmdVars, netVars, logVars, socksVars>>

\* The session failed; a panic ends test, but only the task of a press.
ProbeSocksFails ==
  /\ pc = "socks"
  /\ \/ sess.pc = "failed" /\ ProbeEnds("failed")
     \/ sess.pc = "panicked" /\ opts.cmd = "press" /\ ProbeEnds("panicked")
     \/ sess.pc = "panicked" /\ opts.cmd # "press" /\ Exit(101) /\ UNCHANGED netVars
  /\ UNCHANGED logVars

\* resolve_target: resolved, literal, or looked up here and now; an empty
\* answer is an error.
ResolveTarget ==
  IF resolved # NoAddr THEN {resolved}
  ELSE IF ParsesAsIp(opts.host) THEN {LiteralV4}
  ELSE UNION {Lookup(l) : l \in Lookups}

\* The local bindings of the socket: build_direct_endpoint's for QUIC,
\* connect_tcp's for the others.
DirectSocket(family) == IF IsQuic THEN BuildUdpSocket(family) ELSE ApplyInterface(family)

\* direct::connect_tcp and build_direct_endpoint.
ProbeOpenDirect ==
  /\ pc = "probe" /\ Probing /\ ~opts.proxy
  /\ asked' = IF resolved # NoAddr \/ ParsesAsIp(opts.host) THEN asked ELSE Asking
  /\ \E a \in ResolveTarget :
       \/ a = NoAddr /\ ProbeEnds("failed") /\ UNCHANGED sockets
       \/ /\ a # NoAddr
          /\ \E via \in DirectSocket(a.kind) :
               \/ via = "error" /\ ProbeEnds("failed") /\ UNCHANGED sockets
               \/ /\ via # "error" /\ Opened("target", via)
                  /\ pc' = IF IsQuic THEN "quic" ELSE "stream"
                  /\ UNCHANGED <<cmdVars, netVars, socksVars>>

\* SocksUdpSocket::poll_recv: a payload for QUIC, nothing, or an error, on
\* which quinn's endpoint stops and the probe fails with its connection.  The
\* endpoint reads on while it lives, control stream or not.
QuicRecv ==
  /\ pc \in {"quic", "closing"} /\ opts.proxy /\ quic < MaxQuic
  /\ \E h \in Headers, payload \in {<<>>, <<7, 8>>} :
       LET r == PollRecv(Relayed(h, payload), 1500) IN
       \/ r.ok /\ quic' = quic + 1 /\ got' = r
          /\ read' = [from |-> "target", payload |-> payload, hdr |-> h]
          /\ UNCHANGED <<pc, cmdVars, socksVars>>
       \/ ~r.ok /\ pc = "quic" /\ ProbeResult("failed") /\ EndpointGone
       \/ ~r.ok /\ pc = "closing" /\ EndpointGone /\ UNCHANGED <<cmdVars, socksVars>>
  /\ UNCHANGED logVars

\* The response is read.  A QUIC probe through a relay has received something.
ProbeSucceeds ==
  /\ pc \in {"stream", "quic"}
  /\ pc = "quic" /\ opts.proxy => got.ok /\ got.payload # <<>>
  /\ ProbeEnds("success")
  /\ UNCHANGED logVars

\* connect, TLS, QUIC, request or response fails.
ProbeFails ==
  /\ pc \in {"stream", "quic"}
  /\ ProbeEnds("failed")
  /\ UNCHANGED logVars

\* tokio::time::timeout around a whole probe; a benchmark has none.
ProbeTimeout ==
  /\ pc \in {"socks", "stream", "quic"} /\ opts.cmd # "benchmark"
  /\ ProbeEnds("failed")
  /\ UNCHANGED logVars

\* run_test with any() for all().
ExitCodeAny(cmd, outcomes) ==
  IF \E i \in 1..Len(outcomes) : outcomes[i] = "success" THEN 0 ELSE 1

\* run_test: all must succeed; run_press: errors and no success; run_benchmark:
\* the error of run_client.
ExitCode(cmd, outcomes) ==
  IF cmd = "press"
  THEN IF /\ \E i \in 1..Len(outcomes) : outcomes[i] = "failed"
          /\ \A i \in 1..Len(outcomes) : outcomes[i] # "success" THEN 1 ELSE 0
  ELSE IF \A i \in 1..Len(outcomes) : outcomes[i] = "success" THEN 0 ELSE 1

Report ==
  /\ pc = "probe" /\ todo = <<>> /\ results # <<>>
  /\ Exit(ExitCode(opts.cmd, results))
  /\ UNCHANGED <<netVars, logVars>>

Finished == pc = "exit" /\ UNCHANGED vars

-----------------------------------------------------------------------------
CommandStep ==
  \/ Build \/ ResolveNothing \/ ResolveByDns \/ ResolveBySystem
  \/ DnsOpenDirect \/ DnsOpenSocks \/ DnsAssociated \/ DnsSend
  \/ ProbesStart \/ ProbeOpenSocks \/ ProbeOpenDirect
  \/ ProbeAssociated \/ ProbeTunnelled \/ ProbeSocksFails \/ EndpointDrops \/ Report

Sockets ==
  /\ ClientStep \/ PeerStep
  /\ UNCHANGED <<pc, cmdVars, netVars, logVars>>

Next ==
  \/ CommandStep \/ DnsRecv \/ DnsTimeout
  \/ QuicRecv \/ ProbeSucceeds \/ ProbeFails \/ ProbeTimeout
  \/ Sockets \/ Finished

Spec == Init /\ [][Next]_vars

\* The command and its timers run; a proxy that does not stall answers or
\* closes.  Nothing else need happen.
FairSpec ==
  /\ Spec
  /\ WF_vars(CommandStep)
  /\ WF_vars(ClientStep /\ UNCHANGED <<pc, cmdVars, netVars, logVars>>)
  /\ WF_vars(~opts.stalls /\ PeerStep /\ UNCHANGED <<pc, cmdVars, netVars, logVars>>)
  /\ WF_vars(DnsTimeout)
  /\ WF_vars(ProbeTimeout)

-----------------------------------------------------------------------------
\* Who may learn the host's name, as USAGE.md's "DNS resolution" says: nobody
\* for an address, the DNS server given, the system in direct mode or with
\* --resolve, else the proxy.  Of the hosts in a URL only an IPv4 address is
\* one to the code; a benchmark's target may be of either kind.
Documented ==
  IF IsLiteral THEN {}
  ELSE IF opts.dns = "addr" THEN {"dns"}
  ELSE IF ~opts.proxy \/ opts.resolve THEN {"system"}
  ELSE {"proxy"}

\* --resolve through a proxy, and the system resolver gave no address.
EmptyAnswer ==
  ~IsLiteral /\ opts.proxy /\ opts.resolve /\ opts.dns = "none" /\ resolved = NoAddr

\* Every command asks only whom the documentation names: without --dns-server
\* and --resolve a host name goes to the proxy and to nobody else, and with
\* --resolve only an address does.
ResolverAsDocumented == asked \subseteq Documented

\* So it is, through every protocol and however the probes before ended
\* (run_test, run_press, to_socks_addr, resolve_target), but for a benchmark
\* without --dns-server and for an empty answer to --resolve.
ResolvedAsDocumented ==
  (opts.cmd # "benchmark" \/ ~opts.proxy \/ opts.dns = "addr") /\ ~EmptyAnswer =>
    asked \subseteq Documented

\* Every socket, of DNS and of every probe, is bound as --interface says, and
\* with a proxy it goes to the proxy or its relay, never to the DNS server or
\* the target (TransportArgs::build, transport.rs, direct.rs).
RoutedAsConfigured ==
  \A s \in sockets :
    /\ s.via = opts.iface
    /\ s.peer \in IF opts.proxy THEN {"proxy", "relay"} ELSE {"dns", "target"}

\* The datagram resolve_a read decides the address: that of the first A record
\* that arrived whole in an answer to this query, inside a sound header; any
\* other datagram gives none (decode_a_response, skip_name).
AnswerIsFirstA ==
  read.from = "dns" =>
    LET a == Answers(read.msg, read.size, id) IN
    resolved = IF read.hdr.fault = "none" /\ a.ok
               THEN [kind |-> "v4", addr |-> a.addr] ELSE NoAddr

\* Whatever address the relay writes in front of it, what recv and poll_recv
\* hand up is the payload as it was sent, and nothing of a faulty datagram
\* (decode_socks5_udp_header).
RelayedIntact ==
  opts.proxy /\ read # NoDatagram =>
    LET payload == IF read.from = "target" THEN read.payload
                   ELSE Cut(ReplyBytes(read.msg), read.size)
    IN  got = IF read.hdr.fault = "none" THEN [ok |-> TRUE, payload |-> payload] ELSE Err

\* Until a DNS query has its answer and a QUIC probe its result, the client
\* holds the control stream of the relay they use, whatever arrives and however
\* many probes went before (TransportUdpSocket::_control, do_test of http3).
ControlUntilDone ==
  opts.proxy /\ pc \in {"dns_send", "dns_wait", "quic"} =>
    sess.pc = "open" /\ sess.cmd = "associate"

\* The control stream is there as long as a socket of the association is
\* (AssociateResult::control).
ControlOutlivesRelay ==
  opts.proxy /\ pc \in {"dns_send", "dns_wait", "quic", "closing"} =>
    sess.pc = "open" /\ sess.cmd = "associate"

\* A test exits with 0 only after every protocol asked for was probed and
\* succeeded, whatever failed or panicked on the way (run_test, test_all).
ExitZeroMeansSuccess ==
  pc = "exit" /\ exit = 0 /\ opts.cmd # "press" =>
    results # <<>> /\ todo = <<>> /\ \A i \in 1..Len(results) : results[i] = "success"

\* Every test and press ends: with answers lost, with a target that never
\* answers, and with a proxy that stalls if only probes, which have a timeout,
\* use it.  A stalled proxy can hold the association of a DNS query for ever,
\* and nothing bounds a benchmark's connection (run_test, resolve_a).
CommandEnds ==
  (opts.cmd # "benchmark" /\ (~opts.stalls \/ opts.dns = "none")) ~> (pc = "exit")
=============================================================================
