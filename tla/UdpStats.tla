------------------------------ MODULE UdpStats ------------------------------
(***************************************************************************)
(* The receive-side UDP statistics (src/bench/stats.rs) and the sender's   *)
(* pacer (src/bench/pacer.rs), as operators.  Times are in clock ticks.    *)
(* Every datagram of a test has the same size, so bytes is packets times   *)
(* that size and is left out.  The floating-point jitter is the exact      *)
(* fraction jitter / 16^k after k transit differences.                     *)
(***************************************************************************)
EXTENDS Integers, Sequences

\* UdpStats::default().
DefaultUdpStats ==
  [packets |-> 0, max_seq |-> 0, have_max |-> FALSE, ooo |-> 0, dup |-> 0,
   jitter |-> 0, jitter_den |-> 1, last_transit |-> <<>>,
   latency_min |-> 0, latency_max |-> 0, latency_sum |-> 0, seen |-> {}]

Abs(x) == IF x < 0 THEN -x ELSE x

\* u64::saturating_sub
SaturatingSub(a, b) == IF a < b THEN 0 ELSE a - b

\* RFC 3550 with the first transit compared with zero instead of skipped.
JitterFromZero(st, transit) ==
  LET last == IF st.last_transit = <<>> THEN 0 ELSE st.last_transit[1]
      d    == Abs(transit - last)
  IN  [st EXCEPT !.jitter = 15 * st.jitter + d * st.jitter_den,
                 !.jitter_den = 16 * st.jitter_den,
                 !.last_transit = <<transit>>]

\* jitter += (|transit - last| - jitter) / 16, from the second packet on.
Jitter(st, transit) ==
  IF st.last_transit = <<>>
  THEN [st EXCEPT !.last_transit = <<transit>>]
  ELSE LET d == Abs(transit - st.last_transit[1])
       IN  [st EXCEPT !.jitter = 15 * st.jitter + d * st.jitter_den,
                      !.jitter_den = 16 * st.jitter_den,
                      !.last_transit = <<transit>>]

\* The minimum is overwritten while it is zero: zero stands for "unset".
Latency(st, latency) ==
  [st EXCEPT !.latency_min = IF @ = 0 \/ latency < @ THEN latency ELSE @,
             !.latency_max = IF latency > @ THEN latency ELSE @,
             !.latency_sum = @ + latency]

\* Out of order judged against the packet before instead of the highest.
OrderByPrevious(st, seq) ==
  [st EXCEPT !.have_max = TRUE,
             !.max_seq = seq,
             !.ooo = IF st.have_max /\ seq <= st.max_seq THEN @ + 1 ELSE @]

\* A packet at or below the highest sequence number so far is out of order.
Order(st, seq) ==
  [st EXCEPT !.have_max = TRUE,
             !.max_seq = IF ~st.have_max \/ seq > @ THEN seq ELSE @,
             !.ooo = IF st.have_max /\ seq <= st.max_seq THEN @ + 1 ELSE @]

\* A duplicate that is still added to the latency figures.
RecordDuplicates(st, seq, send_ts, recv_ts) ==
  LET counted == IF seq \in st.seen THEN [st EXCEPT !.dup = @ + 1]
                 ELSE Order([st EXCEPT !.seen = @ \cup {seq}, !.packets = @ + 1], seq)
  IN  Jitter(Latency(counted, SaturatingSub(recv_ts, send_ts)), recv_ts - send_ts)

\* UdpStats::record
Record(st, seq, send_ts, recv_ts) ==
  IF seq \in st.seen THEN [st EXCEPT !.dup = @ + 1]
  ELSE LET counted == Order([st EXCEPT !.seen = @ \cup {seq}, !.packets = @ + 1], seq)
       IN  Jitter(Latency(counted, SaturatingSub(recv_ts, send_ts)),
                  recv_ts - send_ts)

-----------------------------------------------------------------------------
\* target_packets_now: how many packets a flow of rate bits per tick should
\* have sent after elapsed ticks; unlimited when the rate is zero.
TargetPackets(rate, bits, elapsed, unlimited) ==
  IF rate = 0 THEN unlimited ELSE (elapsed * rate) \div bits

\* sleep_until_packet: the elapsed time at which it returns, at the earliest.
PacketDueAt(rate, bits, nth) ==
  IF rate = 0 THEN 0 ELSE (nth * bits) \div rate

\* print_udp: the loss, as a number of packets, and the average latency.  The
\* rates are bytes over the sender's duration.
PrintUdp(sent, st) ==
  [lost |-> SaturatingSub(sent, st.packets),
   avg |-> IF st.packets > 0 THEN st.latency_sum \div st.packets ELSE 0]
=============================================================================
