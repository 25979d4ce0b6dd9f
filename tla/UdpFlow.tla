------------------------------ MODULE UdpFlow -------------------------------
(***************************************************************************)
(* One UDP test of the benchmark, from the hello datagram to the two       *)
(* reports: the paced sender (client run_udp_up, server run_udp_down), the *)
(* receiver with its statistics (server run_udp_up, client run_udp_down)   *)
(* and the datagram network between them, which loses, delays, reorders    *)
(* and duplicates.  A datagram that is never taken from net is lost.       *)
(*                                                                         *)
(* Both ends read one global clock here; each only uses the time since its *)
(* own session start, as in the code.  A task may be late by any amount,   *)
(* so every step may be preceded by ticks.                                 *)
(***************************************************************************)
EXTENDS Integers, Sequences, FiniteSets, FiniteSetsExt, UdpStats

CONSTANTS
  Directions,  \* the directions tested, a subset of {"up", "down"}
  Rates,       \* bandwidth_bps, in bits per tick; 0 is unlimited
  PacketBits,  \* datagram size in bits
  Duration,    \* opts.duration / req.duration_ms
  Grace,       \* STRAGGLE_GRACE
  MaxPackets,  \* bound: what an unlimited rate asks for
  MaxDups,     \* bound: datagrams the network delivers again
  MaxStrays,   \* bound: datagrams from another source to the data port
  LatestStart, \* bound: no end starts its session later than this
  MaxTime      \* bound: the clock stops here, after every deadline

ASSUME FlowAssumption ==
  /\ Directions \subseteq {"up", "down"}
  /\ Rates \subseteq Nat
  /\ PacketBits \in Nat \ {0}
  /\ {Duration, Grace, MaxPackets, MaxDups, MaxStrays, LatestStart, MaxTime}
       \subseteq Nat
  /\ LatestStart + Duration + Grace <= MaxTime

NoTime == -1        \* an Instant not taken yet

VARIABLES
  direction,
  transport,        \* the client's Transport: "direct" or "socks5"
  rate,
  now,              \* the clock
  net,              \* datagrams in flight
  dups, strays,     \* how many duplicates and strays there were
  peer,             \* the address the server took from its first datagram
  sender,           \* where the sender's loop is
  s_start, seq, due,
  receiver,         \* where the receiver is
  r_start, stop_at, stats,
  arrivals          \* history: the datagrams handed to UdpStats::record

envVars  == <<now, net, dups, strays>>
sendVars == <<sender, s_start, seq, due>>
recvVars == <<receiver, r_start, stop_at, stats, arrivals>>
vars == <<direction, transport, rate, now, net, dups, strays, peer, sender,
          s_start, seq, due, receiver, r_start, stop_at, stats, arrivals>>

Datagrams ==
  [to : {"client", "server"}, src : {"client", "server", "other"},
   header : BOOLEAN, seq : Nat, ts : Nat, at : Nat]

Datagram(to, src, header, n, ts) ==
  [to |-> to, src |-> src, header |-> header, seq |-> n, ts |-> ts, at |-> now]

Init ==
  /\ direction \in Directions
  /\ transport \in {"direct", "socks5"}
  /\ rate \in Rates
  /\ now = 0
  /\ net = {}
  /\ dups = 0
  /\ strays = 0
  /\ peer = "none"
  /\ sender = "start"
  /\ s_start = NoTime
  /\ seq = 0
  /\ due = 0
  /\ receiver = "start"
  /\ r_start = NoTime
  /\ stop_at = NoTime
  /\ stats = DefaultUdpStats
  /\ arrivals = <<>>

-----------------------------------------------------------------------------
\* The environment: time passes; a datagram from elsewhere, with or without a
\* full bench header, reaches the server's data port, or the client.  A direct
\* socket of the client is connected to the server, and the kernel keeps out
\* the rest; one through SOCKS5 is connected to the proxy's relay, which
\* forwards whatever reaches it.
Tick ==
  /\ now < MaxTime
  /\ sender # "start"
  /\ now' = now + 1
  /\ UNCHANGED <<direction, transport, rate, net, dups, strays, peer,
                 sendVars, recvVars>>

Stray ==
  /\ strays < MaxStrays
  /\ strays' = strays + 1
  /\ \E header \in BOOLEAN, to \in {"server", "client"} :
       /\ to = "client" => transport = "socks5"
       /\ net' = net \cup {Datagram(to, "other", header, 0, 0)}
  /\ UNCHANGED <<direction, transport, rate, now, dups, peer, sendVars,
                 recvVars>>

\* Datagram m is taken from the network, which may keep a copy.
Take(m) ==
  \/ net' = net \ {m} /\ UNCHANGED dups
  \/ dups < MaxDups /\ dups' = dups + 1 /\ UNCHANGED net

-----------------------------------------------------------------------------
\* Client, upload: the hello is packet 0 with timestamp 0, sent before the
\* pacer starts; the server waits for its first datagram.
StartUp ==
  /\ direction = "up"
  /\ sender = "start"
  /\ now = 0
  /\ s_start' = now
  /\ net' = net \cup {Datagram("server", "client", TRUE, 0, 0)}
  /\ seq' = 1
  /\ sender' = "top"
  /\ receiver' = "await"
  /\ UNCHANGED <<direction, transport, rate, now, dups, strays, peer, due,
                 r_start, stop_at, stats, arrivals>>

\* Client, download: one hello, then receive until test_start + duration +
\* grace; the server waits for a datagram to learn where to send.
StartDown ==
  /\ direction = "down"
  /\ sender = "start"
  /\ now = 0
  /\ net' = net \cup {Datagram("server", "client", TRUE, 0, 0)}
  /\ stop_at' = now + Duration + Grace
  /\ sender' = "await"
  /\ receiver' = "recv"
  /\ UNCHANGED <<direction, transport, rate, now, dups, strays, peer, s_start,
                 seq, due, r_start, stats, arrivals>>

\* Server, download: whatever datagram comes first is the hello.
Hello(m) ==
  /\ sender = "await"
  /\ now <= LatestStart
  /\ m.to = "server"
  /\ Take(m)
  /\ peer' = m.src
  /\ s_start' = now
  /\ sender' = "top"
  /\ UNCHANGED <<direction, transport, rate, now, strays, seq, due, recvVars>>

-----------------------------------------------------------------------------
\* The sender's loop, the same on both sides.
Deadline == s_start + Duration

\* The operands of the subtraction swapped.
ElapsedSwapped == s_start - now

\* session_start.elapsed()
Elapsed == now - s_start

\* Sends what is due plus one.
DueNowPlusOne == TargetPackets(rate, PacketBits, Elapsed, MaxPackets) + 1

\* pacer.target_packets_now(); the pacer starts with the session.
DueNow == TargetPackets(rate, PacketBits, Elapsed, MaxPackets)

\* The outer loop without its own deadline test.
TopForever ==
  /\ sender = "top"
  /\ due' = DueNow
  /\ sender' = "burst"
  /\ UNCHANGED <<direction, transport, rate, envVars, peer, s_start, seq,
                 recvVars>>

\* Head of the outer loop: stop at the deadline or read what is due.
Top ==
  /\ sender = "top"
  /\ \/ now >= Deadline /\ sender' = "done" /\ UNCHANGED due
     \/ now < Deadline /\ sender' = "burst" /\ due' = DueNow
  /\ UNCHANGED <<direction, transport, rate, envVars, peer, s_start, seq,
                 recvVars>>

\* Head of the inner loop.
Burst ==
  /\ sender = "burst"
  /\ sender' = IF seq >= due THEN "sleep"
               ELSE IF now >= Deadline THEN "done" ELSE "send"
  /\ UNCHANGED <<direction, transport, rate, envVars, peer, s_start, seq, due,
                 recvVars>>

\* The datagram goes to the client, or to whoever sent the first datagram.
SendPacket ==
  /\ sender = "send"
  /\ seq' = seq + 1
  /\ net' = CASE direction = "up" ->
                   net \cup {Datagram("server", "client", TRUE, seq, Elapsed)}
              [] direction = "down" /\ peer = "client" ->
                   net \cup {Datagram("client", "server", TRUE, seq, Elapsed)}
              [] OTHER -> net
  /\ sender' = "burst"
  /\ UNCHANGED <<direction, transport, rate, now, dups, strays, peer, s_start,
                 due, recvVars>>

\* socket.send failed: break 'outer, and the report says what was sent.
SendFails ==
  /\ sender = "send"
  /\ sender' = "done"
  /\ UNCHANGED <<direction, transport, rate, envVars, peer, s_start, seq, due,
                 recvVars>>

\* sleep_until_packet(seq) returns.
Wake ==
  /\ sender = "sleep"
  /\ Elapsed >= PacketDueAt(rate, PacketBits, seq)
  /\ sender' = "top"
  /\ UNCHANGED <<direction, transport, rate, envVars, peer, s_start, seq, due,
                 recvVars>>

-----------------------------------------------------------------------------
\* process_packet: a datagram too short for the header is not recorded.
Process(m, start) ==
  IF m.header
  THEN /\ stats' = Record(stats, m.seq, m.ts, now - start)
       /\ arrivals' = Append(arrivals,
                        [seq |-> m.seq, send |-> m.ts, recv |-> now - start,
                         delay |-> now - m.at, src |-> m.src])
  ELSE UNCHANGED <<stats, arrivals>>

\* The session starts when the port was opened, not with the first datagram.
FirstDatagramEarlyAnchor(m) ==
  /\ receiver = "await"
  /\ now <= LatestStart
  /\ m.to = "server"
  /\ Take(m)
  /\ peer' = m.src
  /\ r_start' = 0
  /\ stop_at' = Duration + Grace
  /\ Process(m, 0)
  /\ receiver' = "recv"
  /\ UNCHANGED <<direction, transport, rate, now, strays, sendVars>>

\* Server, upload: the first datagram, from anyone, starts the session.
FirstDatagram(m) ==
  /\ receiver = "await"
  /\ now <= LatestStart
  /\ m.to = "server"
  /\ Take(m)
  /\ peer' = m.src
  /\ r_start' = now
  /\ stop_at' = now + Duration + Grace
  /\ Process(m, now)
  /\ receiver' = "recv"
  /\ UNCHANGED <<direction, transport, rate, now, strays, sendVars>>

\* A receive loop that records datagrams from any source.
ReceiveFromAnyone(m) ==
  /\ receiver = "recv"
  /\ m.to = IF direction = "up" THEN "server" ELSE "client"
  /\ Take(m)
  /\ r_start' = IF r_start = NoTime THEN now ELSE r_start
  /\ Process(m, IF r_start = NoTime THEN now ELSE r_start)
  /\ UNCHANGED <<direction, transport, rate, now, strays, peer, sendVars,
                 receiver, stop_at>>

\* The receive loop.  The server drops what does not come from its peer.  The
\* client takes whatever its socket hands up, over SOCKS5 without a look at
\* the source in the header, and its first packet starts its session.
Receive(m) ==
  /\ receiver = "recv"
  /\ m.to = IF direction = "up" THEN "server" ELSE "client"
  /\ Take(m)
  /\ IF direction = "up" /\ m.src # peer
     THEN UNCHANGED <<r_start, stats, arrivals>>
     ELSE /\ r_start' = IF r_start = NoTime THEN now ELSE r_start
          /\ Process(m, IF r_start = NoTime THEN now ELSE r_start)
  /\ UNCHANGED <<direction, transport, rate, now, strays, peer, sendVars,
                 receiver, stop_at>>

\* A receive error ends the client's loop and fails the server's session.
ReceiveFails ==
  /\ receiver \in {"await", "recv"}
  /\ receiver' = IF direction = "up" THEN "failed" ELSE "done"
  /\ UNCHANGED <<direction, transport, rate, envVars, peer, sendVars, r_start,
                 stop_at, stats, arrivals>>

\* The sleep_until branch of the select.
ReceiveStops ==
  /\ receiver = "recv"
  /\ now >= stop_at
  /\ receiver' = "done"
  /\ UNCHANGED <<direction, transport, rate, envVars, peer, sendVars, r_start,
                 stop_at, stats, arrivals>>

\* Nothing is left to happen: the clock is at its bound.
Ended ==
  /\ now = MaxTime
  /\ UNCHANGED vars

SendLoop == Top \/ Burst \/ SendPacket \/ SendFails \/ Wake
DataArrives(m) == Hello(m) \/ FirstDatagram(m) \/ Receive(m)

Next ==
  \/ Tick \/ Stray
  \/ StartUp \/ StartDown
  \/ SendLoop
  \/ \E m \in net : DataArrives(m)
  \/ ReceiveFails \/ ReceiveStops
  \/ Ended

Spec == Init /\ [][Next]_vars

\* Time passes, the runtime polls the sender, and the receiver's timer fires;
\* nothing is assumed of the network.
FairSpec ==
  /\ Spec
  /\ WF_vars(Tick)
  /\ WF_vars(StartUp \/ StartDown)
  /\ WF_vars(SendLoop)
  /\ WF_vars(ReceiveStops)

-----------------------------------------------------------------------------
\* Reference definitions, on the history of recorded arrivals.

\* The arrivals that are not a duplicate of an earlier one.
FirstArrivals ==
  {i \in DOMAIN arrivals : \A j \in 1..(i - 1) : arrivals[j].seq # arrivals[i].seq}

\* The arrivals that came after one with a higher sequence number.
Overtaken ==
  {i \in FirstArrivals : \E j \in 1..(i - 1) : arrivals[j].seq > arrivals[i].seq}

LatencyOf(i) == SaturatingSub(arrivals[i].recv, arrivals[i].send)
TransitOf(i) == arrivals[i].recv - arrivals[i].send

\* The arrivals after the last one that was recorded with latency zero.
SinceZero ==
  {i \in FirstArrivals : \A j \in FirstArrivals : j >= i => LatencyOf(j) > 0}

\* Something keeps foreign datagrams from the receiver: the server's test of
\* the source in an upload, the kernel in a direct download.  A download
\* through SOCKS5 has neither.
Filtered == direction = "up" \/ transport = "direct"

\* All the receiver records is from the other end of its flow: a stray did not
\* come first in an upload, nor can it reach the client in a download.
OwnDatagrams ==
  \/ direction = "up" /\ peer # "other"
  \/ direction = "down" /\ transport = "direct"

\* Every variable has its type.
TypeOK ==
  /\ direction \in Directions
  /\ transport \in {"direct", "socks5"}
  /\ rate \in Rates
  /\ now \in 0..MaxTime
  /\ net \subseteq Datagrams
  /\ dups \in 0..MaxDups
  /\ strays \in 0..MaxStrays
  /\ peer \in {"none", "client", "other"}
  /\ sender \in {"start", "await", "top", "burst", "send", "sleep", "done"}
  /\ s_start \in Nat \cup {NoTime}
  /\ seq \in Nat
  /\ due \in Nat
  /\ receiver \in {"start", "await", "recv", "done", "failed"}
  /\ r_start \in Nat \cup {NoTime}
  /\ stop_at \in Nat \cup {NoTime}
  /\ stats.seen \subseteq Nat

\* The figures of the receiver's report are those of the datagrams that
\* arrived, whatever the network did to them: packets, duplicates, packets
\* overtaken by a later one, highest number, largest and summed latency.  The
\* minimum alone is not: it is that of the packets after the last one whose
\* latency was zero, because record() takes a minimum of zero for unset.
StatsMatchArrivals ==
  /\ stats.packets = Cardinality(FirstArrivals)
  /\ stats.dup = Len(arrivals) - Cardinality(FirstArrivals)
  /\ stats.ooo = Cardinality(Overtaken)
  /\ stats.latency_sum = MapThenSumSet(LatencyOf, FirstArrivals)
  /\ FirstArrivals # {} =>
       /\ stats.latency_max = Max({LatencyOf(i) : i \in FirstArrivals})
       /\ stats.max_seq = Max({arrivals[i].seq : i \in FirstArrivals})
       /\ stats.latency_min =
            IF SinceZero = {} THEN 0 ELSE Min({LatencyOf(i) : i \in SinceZero})

\* The RFC 3550 estimate never exceeds the spread of the transit times it is
\* an estimate of.
JitterWithinSpread ==
  FirstArrivals # {} =>
    LET transits == {TransitOf(i) : i \in FirstArrivals}
    IN  stats.jitter <= stats.jitter_den * (Max(transits) - Min(transits))

\* The printed loss is the number of packets sent that did not arrive, each
\* counted once however often it was delivered and in whatever order, and the
\* printed average lies between the extremes of their latencies (print_udp on
\* one end's packet count and the other's statistics), as long as no foreign
\* datagram is recorded.
LossIsExact ==
  OwnDatagrams =>
    LET printed == PrintUdp(seq, stats)
        arrived == {arrivals[i].seq : i \in DOMAIN arrivals}
    IN  /\ printed.lost = Cardinality((0..(seq - 1)) \ arrived)
        /\ arrivals # <<>> =>
             printed.avg \in Min({LatencyOf(i) : i \in FirstArrivals})..
                             Max({LatencyOf(i) : i \in FirstArrivals})

\* The receiver of a flow between client and server never counts more packets
\* than were sent, so the loss that print_udp computes is never clipped, and
\* its report is never a mixture of two sources.  Downloads through SOCKS5 are
\* left out: DownloadFromServer is about them, and does not hold.
ReceivedWasSent ==
  /\ OwnDatagrams => stats.packets <= seq
  /\ Filtered => \A i, j \in DOMAIN arrivals : arrivals[i].src = arrivals[j].src

\* The statement of transport.rs on the client's socket: it "targets a fixed
\* destination", so what a download records came from the server.
DownloadFromServer ==
  direction = "down" =>
    \A i \in DOMAIN arrivals : arrivals[i].src = "server"

\* Pacing: what a limited sender has sent, but for the hello of an upload,
\* never exceeds its rate times the time since it started.
NeverAheadOfRate ==
  s_start # NoTime /\ rate > 0 =>
    \/ seq = (IF direction = "up" THEN 1 ELSE 0)
    \/ seq * PacketBits <= rate * (now - s_start)

\* The statement of pacer.rs on sleep_until_packet, "Sleep until packet number
\* `nth` (0-indexed) is due": when it returns, the packets that should have
\* been sent by now include that one, and the sender has something to send.
WokenWhenDue ==
  [][Wake /\ rate > 0 => seq < DueNow]_vars

\* The statement of USAGE.md on the latency figures: they are anchored at the
\* first packet of the test, and measure the variation of the path delay
\* around the delay of that packet.
LatencyIsVariation ==
  \A i \in FirstArrivals :
    LatencyOf(i) = SaturatingSub(arrivals[i].delay, arrivals[1].delay)

\* It holds for an upload whose hello arrives first.
AnchoredUploadIsHonest ==
  direction = "up" /\ arrivals # <<>> /\ arrivals[1].seq = 0
      /\ arrivals[1].src = "client" =>
    LatencyIsVariation

\* A sender that started ends, and so does a receiver that got a datagram.
FlowEnds ==
  /\ sender = "top" ~> sender = "done"
  /\ receiver = "recv" ~> receiver \in {"done", "failed"}
=============================================================================
